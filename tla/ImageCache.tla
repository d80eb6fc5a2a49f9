----------------------------- MODULE ImageCache -----------------------------
(***************************************************************************)
(* The pull-through image cache, one container for every cluster of a      *)
(* host.  Each bring-up runs setupCache, and with it cache.Create, against *)
(* the same configuration file and the same container name, under no lock  *)
(* of rooket's: the engine's refusal to make a second container of one     *)
(* name is the only arbiter.                                               *)
(***************************************************************************)
EXTENDS FiniteSets

CONSTANTS
  Caller,     \* runs that set the cache up or remove it
  Binary,     \* rooket builds: each generates one configuration
  ImageOf,    \* ImageOf[b]: the zot image build b pins
  First,      \* the build installed at first
  None,       \* no configuration, no container
  Mishaps     \* what may happen, a subset of AllMishaps

(* crash: a run is killed.  reboot: the host restarts, its containers not.
   teardown: --delete-cache.  upgrade: another build is installed.  disk: the
   configuration is not written.  run, start, rm, look: an engine call fails for
   reasons of the engine's (a taken port, an image it cannot pull, a daemon that
   hangs); looks are ps and inspect. *)
AllMishaps == {"crash", "reboot", "teardown", "upgrade",
               "disk", "run", "start", "rm", "look"}

ASSUME BinaryAssumption ==
  /\ First \in Binary /\ None \notin Binary
  /\ \A b \in Binary : ImageOf[b] # None
ASSUME MishapsAssumption == Mishaps \subseteq AllMishaps

VARIABLES
  installed,  \* the build runs are started from
  config,     \* the build that wrote cache-config.json, or None: no whole one
  image,      \* the image of the container, or None: no container
  up,         \* it is running
  loaded,     \* the configuration it had when it started
  broken,     \* it is down, and a run of it or a look at it has failed since it was up
  call,       \* call[p]: the call p is about to make
  build,      \* build[p]: the build p runs
  erred,      \* runs a call of whose own has failed
  happened    \* history: what the properties except, see Recorded

container == <<image, up, loaded, broken>>
cacheVars == <<installed, config, container, call, build, erred, happened>>

(* A configuration was written, a run killed, the cache deleted; an rm or a look
   failed, or a write was left half done. *)
Recorded == {"write", "crash", "teardown", "rm", "look", "disk"}

(* setupCache: read, write, fill, drop and rmdrop (RemoveContainer).  cache.Create:
   create, inspect, start, gone, replace, rmold, lost, run and taken.
   cache.Delete: delete, rmdelete.  served and failed are its results. *)
Calls == {"idle", "read", "write", "fill", "drop", "rmdrop", "create", "inspect",
       "start", "gone", "replace", "rmold", "lost", "run", "taken",
       "delete", "rmdelete", "served", "failed"}

CacheTypeOK ==
  /\ installed \in Binary
  /\ config \in Binary \cup {None}
  /\ image \in {ImageOf[b] : b \in Binary} \cup {None}
  /\ up \in BOOLEAN
  /\ loaded \in Binary \cup {None}
  /\ call \in [Caller -> Calls]
  /\ build \in [Caller -> Binary]
  /\ erred \subseteq Caller
  /\ happened \subseteq Recorded
  /\ up => image # None /\ ~broken
  /\ broken \in BOOLEAN

CacheInit ==
  /\ installed = First
  /\ config \in {First, None}
  /\ image = None /\ up = FALSE /\ loaded = None /\ broken = FALSE
  /\ call = [p \in Caller |-> "idle"]
  /\ build = [p \in Caller |-> First]
  /\ erred = {}
  /\ happened = {}

At(p, s) == call[p] = s

Happens(what) == happened' = happened \cup {what}

(* p goes on to call s; what failed is forgotten with the run. *)
Proceed(p, s) ==
  /\ call' = [call EXCEPT ![p] = s]
  /\ erred' = IF s = "idle" THEN erred \ {p} ELSE erred

(* The same, after a call that failed. *)
Err(p, s) ==
  /\ call' = [call EXCEPT ![p] = s]
  /\ erred' = IF s = "idle" THEN erred \ {p} ELSE erred \cup {p}

(* cache.Exists: running or stopped. *)
Exists == image # None

(* ps or inspect fails, and shows nothing of a container that is there. *)
LookFails ==
  /\ "look" \in Mishaps
  /\ Exists
  /\ broken' = (broken \/ ~up)
  /\ Happens("look")

(* A step that only looks at whether there is a container: Exists takes a ps
   that fails for a no. *)
Ask(p, s, yes, no) ==
  /\ At(p, s)
  /\ \/ Proceed(p, IF Exists THEN yes ELSE no) /\ UNCHANGED <<broken, happened>>
     \/ LookFails /\ Err(p, no)
  /\ UNCHANGED <<installed, config, image, up, loaded, build>>

(* rm -f of a container that was there a moment ago: it removes it, or finds
   it gone, which an engine may or may not call an error, or fails. *)
Remove(p, s, done, error) ==
  /\ At(p, s)
  /\ \/ /\ image' = None /\ up' = FALSE /\ loaded' = None
        /\ Proceed(p, done) \/ (~Exists /\ Proceed(p, error))
        /\ UNCHANGED happened
     \/ /\ "rm" \in Mishaps
        /\ Exists
        /\ Err(p, error)
        /\ Happens("rm")
        /\ UNCHANGED <<image, up, loaded>>
  /\ UNCHANGED <<installed, config, broken, build>>

-----------------------------------------------------------------------------
(* setupCache. *)

StartSetup(p) ==
  /\ At(p, "idle")
  /\ build' = [build EXCEPT ![p] = installed]
  /\ Proceed(p, "read")
  /\ UNCHANGED <<installed, config, container, happened>>

(* Is the generated configuration the one on disk? *)
Read(p) ==
  /\ At(p, "read")
  /\ Proceed(p, IF config = build[p] THEN "create" ELSE "write")
  /\ UNCHANGED <<installed, config, container, build, happened>>

(* os.WriteFile: the file is truncated, then filled; either may fail. *)
Write(p) ==
  /\ At(p, "write")
  /\ \/ config' = None /\ Proceed(p, "fill") /\ Happens("write")
     \/ "disk" \in Mishaps /\ Err(p, "failed") /\ UNCHANGED <<config, happened>>
  /\ UNCHANGED <<installed, container, build>>

Fill(p) ==
  /\ At(p, "fill")
  /\ \/ config' = build[p] /\ Proceed(p, "drop") /\ UNCHANGED happened
     \/ "disk" \in Mishaps /\ Err(p, "failed") /\ Happens("disk") /\ UNCHANGED config
  /\ UNCHANGED <<installed, container, build>>

(* Mutant of Drop: a changed configuration leaves the container alone. *)
MutDrop(p) == Ask(p, "drop", "create", "create")

(* A container of the configuration before is to go. *)
Drop(p) == Ask(p, "drop", "rmdrop", "create")

RemoveDropped(p) == Remove(p, "rmdrop", "create", "failed")

-----------------------------------------------------------------------------
(* cache.Create. *)

Create(p) == Ask(p, "create", "inspect", "run")

(* Mutant of Inspect: a container that exists is taken to be running. *)
MutInspect(p) ==
  /\ At(p, "inspect")
  /\ \/ /\ Proceed(p, IF Exists /\ image # ImageOf[build[p]] THEN "replace" ELSE "served")
        /\ UNCHANGED <<broken, happened>>
     \/ LookFails /\ Err(p, "start")
  /\ UNCHANGED <<installed, config, image, up, loaded, build>>

(* Another image than the pinned one; an inspect that fails shows none. *)
Inspect(p) ==
  /\ At(p, "inspect")
  /\ \/ /\ Proceed(p, IF Exists /\ image # ImageOf[build[p]] THEN "replace" ELSE "start")
        /\ UNCHANGED <<broken, happened>>
     \/ LookFails /\ Err(p, "start")
  /\ UNCHANGED <<installed, config, image, up, loaded, build>>

(* start: the container is up, or has gone away, or stays as it is. *)
StartContainer(p) ==
  /\ At(p, "start")
  /\ \/ /\ Exists
        /\ up' = TRUE /\ broken' = FALSE
        /\ loaded' = IF up THEN loaded ELSE config
        /\ Proceed(p, "served")
     \/ ~Exists /\ Proceed(p, "gone") /\ UNCHANGED <<up, loaded, broken>>
     \/ /\ "start" \in Mishaps
        /\ Exists
        /\ Err(p, "gone")
        /\ UNCHANGED <<up, loaded, broken>>
  /\ UNCHANGED <<installed, config, image, build, happened>>

(* The start failed: for good, if the container is there. *)
Gone(p) == Ask(p, "gone", "failed", "run")

Replace(p) == Ask(p, "replace", "rmold", "run")

RemoveOld(p) == Remove(p, "rmold", "run", "lost")

(* "A concurrent run may have removed it already." *)
Lost(p) == Ask(p, "lost", "failed", "run")

(* run -d: an error if the name is in use; it may also fail of itself, and leave
   no container or one that was created and did not start. *)
Run(p) ==
  /\ At(p, "run")
  /\ \/ Exists /\ Proceed(p, "taken") /\ UNCHANGED container
     \/ /\ ~Exists
        /\ image' = ImageOf[build[p]] /\ up' = TRUE /\ loaded' = config /\ broken' = FALSE
        /\ Proceed(p, "served")
     \/ /\ "run" \in Mishaps
        /\ ~Exists
        /\ image' \in {None, ImageOf[build[p]]} /\ broken' = TRUE
        /\ Err(p, "taken")
        /\ UNCHANGED <<up, loaded>>
  /\ UNCHANGED <<installed, config, build, happened>>

(* Mutant of Taken: a name already in use is an error like any other. *)
MutTaken(p) == Ask(p, "taken", "failed", "failed")

(* The run failed: what is there is taken for the container of whoever won the
   name, the wreck of one's own run too. *)
Taken(p) == Ask(p, "taken", "served", "failed")

(* The run goes on, with the cache wired into its nodes or without. *)
GoOn(p) ==
  /\ At(p, "served") \/ At(p, "failed")
  /\ Proceed(p, "idle")
  /\ UNCHANGED <<installed, config, container, build, happened>>

-----------------------------------------------------------------------------
(* --delete-cache: the container, and the volume nothing else names. *)

StartDelete(p) ==
  /\ "teardown" \in Mishaps
  /\ At(p, "idle")
  /\ Proceed(p, "delete")
  /\ Happens("teardown")
  /\ UNCHANGED <<installed, config, container, build>>

Delete(p) == Ask(p, "delete", "rmdelete", "idle")

RemoveDeleted(p) == Remove(p, "rmdelete", "idle", "idle")

-----------------------------------------------------------------------------
(* What else happens. *)

Kill(p) ==
  /\ "crash" \in Mishaps
  /\ ~At(p, "idle")
  /\ Proceed(p, "idle")
  /\ Happens("crash")
  /\ UNCHANGED <<installed, config, container, build>>

Reboot ==
  /\ "reboot" \in Mishaps
  /\ up
  /\ up' = FALSE
  /\ call' = [p \in Caller |-> "idle"] /\ erred' = {}
  /\ UNCHANGED <<installed, config, image, loaded, broken, build, happened>>

(* With no run under way: builds side by side may flap the container, which
   setupCache accepts. *)
Upgrade ==
  /\ "upgrade" \in Mishaps
  /\ \A p \in Caller : At(p, "idle")
  /\ \E b \in Binary : b # installed /\ installed' = b
  /\ UNCHANGED <<config, container, call, build, erred, happened>>

-----------------------------------------------------------------------------
SetUp(p) ==
  \/ StartSetup(p) \/ Read(p) \/ Write(p) \/ Fill(p) \/ Drop(p) \/ RemoveDropped(p)
  \/ Create(p) \/ Inspect(p) \/ StartContainer(p) \/ Gone(p) \/ Replace(p)
  \/ RemoveOld(p) \/ Lost(p) \/ Run(p) \/ Taken(p) \/ GoOn(p)

TakeDown(p) == StartDelete(p) \/ Delete(p) \/ RemoveDeleted(p)

CacheNext ==
  \/ \E p \in Caller : SetUp(p) \/ TakeDown(p) \/ Kill(p)
  \/ Reboot
  \/ Upgrade

CacheSpec == CacheInit /\ [][CacheNext]_cacheVars

-----------------------------------------------------------------------------
(* Every run has finished setupCache, none has moved on from it. *)
Settled == \A p \in Caller : call[p] \in {"idle", "served", "failed"}

SomeServed == \E p \in Caller : At(p, "served")

(* cache.Create: "losing the race is the expected path and reports success":
   until a configuration is written or a cache deleted, a run fails only when a
   call of its own failed, for nothing that the others do or fail at, whichever
   of them are killed. *)
NoLostRace ==
  happened \cap {"write", "teardown"} = {} =>
    \A p \in Caller : At(p, "failed") => p \in erred

(* "Concurrent 'rooket up' runs converge here rather than serialize": however
   their steps fall, when the runs are through and one of them reported a
   cache, the cache is up, unless the engine failed to run it or to show it and no run
   has brought it up since, or a run was killed or told to delete it. *)
Converge ==
  happened \cap {"crash", "teardown"} = {} /\ Settled /\ SomeServed /\ ~broken => up

(* "The container is recreated whenever the zot image or the generated config
   changes": when the runs of a build are through, what is up is that build's
   image with that build's configuration, with the same exceptions and unless
   the old container could not be seen or removed, or a write failed half way. *)
ServesTheConfig ==
  happened \subseteq {"write"} /\ Settled /\ SomeServed /\ ~broken =>
    loaded = installed /\ image = ImageOf[installed]
-----------------------------------------------------------------------------
(* What makes these inductive. *)

(* A run is of the build that is installed. *)
RunsTheInstalled ==
  \A p \in Caller : call[p] \notin {"idle", "delete", "rmdelete"} => build[p] = installed

(* Calls of a run that has read the configuration, and has it right or as
   another run is writing it. *)
Configured == {"drop", "rmdrop", "create", "inspect", "start", "gone", "replace",
               "rmold", "lost", "run", "taken", "served"}

(* With no more than writes: what is configured is what is installed, and what is
   loaded is what is configured. *)
ConfigIsRight ==
  happened \cap {"crash", "rm", "look", "disk"} = {} =>
    /\ (\E p \in Caller : call[p] \in Configured) =>
         config = installed \/ \E q \in Caller : At(q, "fill")
    /\ up => \/ loaded = config
             \/ \E q \in Caller : call[q] \in {"fill", "drop", "rmdrop"}

(* Calls of a run that has found no container, or has one. *)
SawItGone == {"run", "taken", "served"}

(* What was gone once is made by a run, so it is up unless the engine failed, and
   it is of the right image. *)
MadeAnew ==
  /\ (\E p \in Caller : call[p] \in SawItGone) => (Exists => up \/ broken)
  /\ /\ happened \cap {"rm", "look"} = {}
     /\ \E p \in Caller : call[p] \in SawItGone \cup {"start", "gone", "lost"}
     => image \in {None, ImageOf[installed]}

(* Calls of a run that makes the container if it stays gone. *)
ToMakeIt == {"create", "inspect", "start", "gone", "replace", "rmold", "lost", "run"}

(* Unless a run was killed or told to delete the cache: once a run was served,
   the container is there or on its way, or the engine failed. *)
IsMadeAgain ==
  happened \cap {"crash", "teardown"} = {} /\ SomeServed /\ ~Exists /\ ~broken =>
    \E q \in Caller : call[q] \in ToMakeIt

(* Until a configuration is written or a cache deleted: no run gets to a call
   that fails but for a failure of its own, as the container is of the one
   configuration there is. *)
NothingIsRemoved ==
  happened \cap {"write", "teardown"} = {} =>
    /\ \A p \in Caller :
         /\ \/ call[p] \in {"idle", "read", "write", "create", "inspect", "start", "run",
                            "taken", "served"}
            \/ p \in erred /\ call[p] \in {"gone", "failed"}
         /\ call[p] \in {"create", "inspect", "start", "gone", "run", "taken"} =>
              build[p] = config
         /\ call[p] \in {"inspect", "start", "gone"} => Exists
         /\ call[p] = "taken" => Exists \/ p \in erred
    /\ Exists => config \in Binary /\ image = ImageOf[config]

(* A run at a call of a teardown: one was begun. *)
TeardownIsKnown ==
  (\E p \in Caller : call[p] \in {"delete", "rmdelete"}) => "teardown" \in happened

CacheInv ==
  /\ CacheTypeOK
  /\ RunsTheInstalled
  /\ ConfigIsRight
  /\ MadeAnew
  /\ IsMadeAgain
  /\ NothingIsRemoved
  /\ TeardownIsKnown
=============================================================================
