----------------------------- MODULE AuditTrail -----------------------------
(***************************************************************************)
(* The audit trail around the shipper: requests that record an event       *)
(* (audit.Emitter.Record), the ShipperManager that swaps shippers when an  *)
(* admin saves the audit-sink setting, the startup goroutine that installs *)
(* the stored setting, and the shutdown that closes the manager.           *)
(* (server/internal/audit/{audit,manager}.go,                              *)
(*  server/internal/httpapi/{settings_handlers,router}.go,                 *)
(*  server/internal/settings/settings.go)                                  *)
(*                                                                         *)
(* The inside of one shipper is Shipper.tla; here a shipper is open or its *)
(* queue is closed, and an open one takes an event or drops it.  Each      *)
(* process applies at most one configuration, so the shipper it may build  *)
(* carries the name of the process.                                        *)
(***************************************************************************)
EXTENDS Integers, FiniteSets

CONSTANTS
    Requests,       \* requests that record one audit event each
    Saves,          \* PUT requests for the audit-sink setting
    Startup,        \* the goroutine httpapi.New starts
    Shutdown,       \* Server.Close
    Dests,          \* destinations, each with the token that belongs to it
    Streams,        \* what a save makes of the DataStream switch
    None

AuditTrailAssumption ==
    /\ Requests \cap Saves = {}
    /\ Streams \subseteq BOOLEAN
    /\ Startup \notin Requests \cup Saves
    /\ Shutdown \notin Requests \cup Saves \cup {Startup}
    /\ None \notin Requests \cup Saves \cup {Startup, Shutdown} \cup Dests

Appliers == Saves \cup {Startup}
Processes == Requests \cup Appliers \cup {Shutdown}

\* settings.AuditSink as far as it reaches the shipper, and with the token
\* SinkConfig.  "stream" is the DataStream switch.
Setting == [enabled : BOOLEAN, dest : Dests \cup {None}, stream : BOOLEAN]
Config == [dest : Dests \cup {None}, stream : BOOLEAN, token : Dests \cup {None}]
NoConfig == [dest |-> None, stream |-> FALSE, token |-> None]

Nothing == [enabled |-> FALSE, cfg |-> NoConfig]

VARIABLES
    setting, token,     \* the two rows in the database
    current, config, enabled,   \* the manager's fields
    life,       \* shipper -> "none", "open", "closed" (its queue)
    built,      \* shipper -> the configuration it was built from, while it is open
    pc,         \* process -> where it is
    held,       \* process -> the shipper it read, built on or must close
    want,       \* applier -> [enabled, cfg] it read
    overlapped, \* history: two applications were under way at once
    applied,    \* history: the last application to finish installed its want
    late        \* history: applications that had yet to swap when the shutdown did

manager == <<current, config, enabled, late>>
history == <<overlapped, applied>>
vars == <<setting, token, manager, life, built, pc, held, want, history>>

Idle == {"idle", "done", "failed", "panicked"}
Busy(p) == pc[p] \notin Idle

Init ==
    /\ setting \in [enabled : {FALSE}, dest : {None}, stream : {FALSE}]
                     \cup [enabled : {TRUE}, dest : Dests, stream : {FALSE}]
    /\ token = setting.dest
    /\ current = None
    /\ config = NoConfig
    /\ enabled = FALSE
    /\ life = [p \in Appliers |-> "none"]
    /\ built = [p \in Appliers |-> NoConfig]
    /\ pc = [p \in Processes |-> IF p = Startup THEN "readSetting"
                               ELSE IF p \in Requests THEN "ship" ELSE "idle"]
    /\ held = [p \in Processes |-> None]
    /\ want = [p \in Appliers |-> Nothing]
    /\ overlapped = FALSE
    /\ applied = TRUE
    /\ late = {}

Goto(p, label) == pc' = [pc EXCEPT ![p] = label]

\* The end of an application: its local variables are gone.
Finish(p, label) ==
    /\ Goto(p, label)
    /\ want' = [q \in Appliers |-> IF q = p THEN Nothing ELSE want[q]]

-----------------------------------------------------------------------------
(* Emitter.Record, for a request and inside the save handler. *)

AfterRecord(p) == IF p \in Saves THEN "readSetting" ELSE "done"

\* ShipperManager.Ship takes the shipper under the read lock and lets go.
ShipRead(p) ==
    /\ pc[p] = "ship"
    /\ held' = [held EXCEPT ![p] = current]
    /\ Goto(p, IF current = None THEN "append" ELSE "enqueue")
    /\ UNCHANGED <<setting, token, manager, life, built, want, history>>

\* Enqueue: an open queue takes the event or drops it, a closed one panics
\* and recoverPanic ends the request.
ShipEnqueue(p) ==
    /\ pc[p] = "enqueue"
    /\ Goto(p, IF life[held[p]] = "open" THEN "append" ELSE "panicked")
    /\ held' = [held EXCEPT ![p] = None]
    /\ UNCHANGED <<setting, token, manager, life, built, want, history>>

\* recorder.Append; a failure is logged and Record returns all the same.
AppendEvent(p) ==
    /\ pc[p] = "append"
    /\ Goto(p, AfterRecord(p))
    /\ UNCHANGED <<setting, token, manager, life, built, held, want, history>>

-----------------------------------------------------------------------------
(* settingsHandlers.saveAuditSink: two rows, a record, then the apply. *)

StoreSetting(p) ==
    /\ p \in Saves /\ pc[p] = "idle"
    /\ \E e \in BOOLEAN, d \in Dests, s \in Streams :
          /\ setting' = [enabled |-> e, dest |-> d, stream |-> s]
          /\ want' = [want EXCEPT ![p].cfg.token = d]
    /\ Goto(p, "storeToken")
    /\ overlapped' = (overlapped \/ \E q \in Appliers : Busy(q))
    /\ UNCHANGED <<token, manager, life, built, held, applied>>

\* storeSecret: the form carries the destination's token.
StoreToken(p) ==
    /\ pc[p] = "storeToken"
    /\ token' = want[p].cfg.token
    /\ Goto(p, "ship")
    /\ UNCHANGED <<setting, manager, life, built, held, want, history>>

\* The second write failed: the setting row stays as saved, the handler
\* reports the error and neither records nor applies.
StoreTokenFails(p) ==
    /\ pc[p] = "storeToken"
    /\ Finish(p, "failed")
    /\ applied' = FALSE
    /\ UNCHANGED <<setting, token, manager, life, built, held, overlapped>>

\* AuditSinkConfig reads the setting and then the secret.
ReadSetting(p) ==
    /\ pc[p] = "readSetting"
    /\ want' = [want EXCEPT ![p] =
          [enabled |-> setting.enabled,
           cfg |-> [dest |-> setting.dest, stream |-> setting.stream, token |-> None]]]
    /\ Goto(p, "readToken")
    /\ UNCHANGED <<setting, token, manager, life, built, held, history>>

ReadToken(p) ==
    /\ pc[p] = "readToken"
    /\ want' = [want EXCEPT ![p].cfg.token = token]
    /\ Goto(p, "check")
    /\ UNCHANGED <<setting, token, manager, life, built, held, history>>

-----------------------------------------------------------------------------
(* ShipperManager.Apply and Close. *)

\* Compares every field of the two but DataStream.
SameConfig(a, b) == a.dest = b.dest /\ a.token = b.token

\* Mutant: only the configurations are compared, not the switch.
ApplyCheck_IgnoresEnabled(p) ==
    /\ pc[p] = "check"
    /\ IF SameConfig(config, want[p].cfg)
       THEN Finish(p, "done") /\ applied' = TRUE
       ELSE /\ Goto(p, IF want[p].enabled THEN "build" ELSE "swap")
            /\ UNCHANGED <<want, applied>>
    /\ UNCHANGED <<setting, token, manager, life, built, held, overlapped>>

\* Under the lock: is there anything to do?
ApplyCheck(p) ==
    /\ pc[p] = "check"
    /\ IF enabled = want[p].enabled /\ SameConfig(config, want[p].cfg)
       THEN Finish(p, "done") /\ applied' = TRUE
       ELSE /\ Goto(p, IF want[p].enabled THEN "build" ELSE "swap")
            /\ UNCHANGED <<want, applied>>
    /\ UNCHANGED <<setting, token, manager, life, built, held, overlapped>>

\* NewSink and NewShipper, outside the lock.
ApplyBuild(p) ==
    /\ pc[p] = "build"
    /\ life' = [life EXCEPT ![p] = "open"]
    /\ built' = [built EXCEPT ![p] = want[p].cfg]
    /\ Goto(p, "swap")
    /\ UNCHANGED <<setting, token, manager, held, want, history>>

\* NewSink failed, or reading the setting did: the previous shipper is left
\* alone and the save reports that shipping could not start.
ApplyFails(p) ==
    /\ pc[p] \in {"build", "readSetting", "readToken"}
    /\ Finish(p, "failed")
    /\ applied' = FALSE
    /\ UNCHANGED <<setting, token, manager, life, built, held, overlapped>>

\* Mutant: the previous shipper is overwritten and never closed.
ApplySwap_ForgetsPrevious(p) ==
    /\ pc[p] = "swap"
    /\ current' = IF want[p].enabled THEN p ELSE None
    /\ config' = want[p].cfg
    /\ enabled' = want[p].enabled
    /\ Finish(p, "done")
    /\ applied' = TRUE
    /\ UNCHANGED <<setting, token, life, built, held, overlapped, late>>

\* The swap, under the lock.
ApplySwap(p) ==
    /\ pc[p] = "swap"
    /\ held' = [held EXCEPT ![p] = current]
    /\ current' = IF want[p].enabled THEN p ELSE None
    /\ config' = want[p].cfg
    /\ enabled' = want[p].enabled
    /\ IF current = None
       THEN Finish(p, "done") /\ applied' = TRUE
       ELSE Goto(p, "close") /\ UNCHANGED <<want, applied>>
    /\ UNCHANGED <<setting, token, life, built, overlapped, late>>

\* Shipper.Close closes the queue of the previous shipper ...
CloseQueue(p) ==
    /\ pc[p] = "close"
    /\ life' = [life EXCEPT ![held[p]] = "closed"]
    /\ built' = [built EXCEPT ![held[p]] = NoConfig]
    /\ Goto(p, "drain")
    /\ UNCHANGED <<setting, token, manager, held, want, history>>

\* ... and waits for its worker, or for the context (Shipper!CloseReturns).
Drained(p) ==
    /\ pc[p] = "drain"
    /\ held' = [held EXCEPT ![p] = None]
    /\ Finish(p, "done")
    /\ applied' = IF p \in Appliers THEN TRUE ELSE applied
    /\ UNCHANGED <<setting, token, manager, life, built, overlapped>>

\* The swap of this application is still to come, or will not come.
Unswapped(p) == pc[p] \notin {"close", "drain", "done", "failed", "panicked"}

\* Server.Close calls ShipperManager.Close, which takes the shipper away. The
\* manager does not remember that it was closed: an application that swaps
\* later installs its shipper all the same. run waits for the handlers for a
\* limited time only, and nobody waits for the startup goroutine.
ShutdownSwap(p) ==
    /\ p = Shutdown /\ pc[p] = "idle"
    /\ held' = [held EXCEPT ![p] = current]
    /\ current' = None
    /\ late' = {q \in Appliers : Unswapped(q)}
    /\ Goto(p, IF current = None THEN "done" ELSE "close")
    /\ UNCHANGED <<setting, token, config, enabled, life, built, want, history>>

Record(p) == ShipRead(p) \/ ShipEnqueue(p) \/ AppendEvent(p)
Save(p) == \/ StoreSetting(p) \/ StoreToken(p) \/ StoreTokenFails(p)
           \/ ReadSetting(p) \/ ReadToken(p)
Apply(p) == \/ ApplyCheck(p) \/ ApplyBuild(p) \/ ApplyFails(p) \/ ApplySwap(p)
            \/ CloseQueue(p) \/ Drained(p)

Next == \E p \in Processes : Record(p) \/ Save(p) \/ Apply(p) \/ ShutdownSwap(p)

Spec == Init /\ [][Next]_vars

-----------------------------------------------------------------------------
(* Properties. *)

Labels == {"idle", "done", "failed", "panicked", "ship", "enqueue", "append",
           "storeToken", "readSetting", "readToken", "check", "build", "swap",
           "close", "drain"}

\* Shape of the state; nobody sends to or closes a shipper it does not have.
TypeOK ==
    /\ setting \in Setting
    /\ token \in Dests \cup {None}
    /\ current \in Appliers \cup {None}
    /\ config \in Config
    /\ enabled \in BOOLEAN
    /\ life \in [Appliers -> {"none", "open", "closed"}]
    /\ built \in [Appliers -> Config]
    /\ pc \in [Processes -> Labels]
    /\ held \in [Processes -> Appliers \cup {None}]
    /\ want \in [Appliers -> [enabled : BOOLEAN, cfg : Config]]
    /\ overlapped \in BOOLEAN /\ applied \in BOOLEAN
    /\ late \subseteq Appliers
    /\ \A p \in Processes : pc[p] \in {"enqueue", "close", "drain"} => held[p] # None

\* The process that took a shipper out of service and still has to close it.
MustClose(p, s) == pc[p] = "close" /\ held[p] = s

\* In service before the shutdown, which will close it, or after it, which only
\* an application that the shutdown came before can be.
InService(s) == current = s /\ (pc[Shutdown] = "idle" \/ s \in late)

\* An open shipper (its goroutine, its connections) is about to be installed by
\* the process that built it, in service, or about to be closed by the process
\* that replaced it.  Once the manager is closed nobody closes the shipper in
\* service any more: that one is left running, but there is none besides it,
\* and only an application that had not swapped by the shutdown leaves it.
NoOrphan ==
    \A s \in Appliers :
        life[s] = "open" => \/ InService(s)
                            \/ pc[s] = "swap"
                            \/ \E p \in Processes : MustClose(p, s)

\* Concurrent saves and the shutdown never close one queue twice.
ClosedOnce ==
    \A p, q \in Processes, s \in Appliers :
        MustClose(p, s) /\ MustClose(q, s) => p = q

\* Until the shutdown no shipper is left running that nobody will close; after
\* it at most one is, that of an application the shutdown did not wait for. At
\* no time is there one that two will close.
ShippersAccounted == NoOrphan /\ ClosedOnce

Quiet ==
    /\ \A p \in Appliers : ~Busy(p)
    /\ pc[Shutdown] = "idle"
    /\ ~overlapped /\ applied

\* After a save that was applied, and with no two of them overlapping, the
\* running shipper sends to the stored destination with the stored token.
RunningMatchesStored ==
    Quiet => /\ enabled = setting.enabled
             /\ enabled => /\ built[current].dest = setting.dest
                           /\ built[current].token = token

\* What settingsHandlers says of the shipper: it is reconfigured the moment
\* the setting is saved, so nobody has to restart the process.
SaveTakesEffect ==
    Quiet /\ enabled => built[current].stream = setting.stream

-----------------------------------------------------------------------------
(* What is kept. That shippers are accounted for rests on this: a shipper is *)
(* opened and put into service by one process (Building), and is out of      *)
(* service exactly when one process has yet to close it (Serving); after the *)
(* shutdown only those swap that had yet to when it came (Late).             *)
(* That a save applied alone leaves the shipper running that the rows ask    *)
(* for rests on this: an application that is alone read both rows as they    *)
(* still are (ReadAlone), and the manager remembers the configuration of the *)
(* shipper in service (Remembered), which makes it right to skip an          *)
(* application that changes nothing (Installed).                             *)

\* What each kind of process may be doing.
Kinds ==
    /\ \A p \in Requests : pc[p] \in {"ship", "enqueue", "append", "done", "panicked"}
    /\ pc[Startup] \in {"readSetting", "readToken", "check", "build", "swap", "close",
                        "drain", "done", "failed"}
    /\ pc[Shutdown] \in {"idle", "close", "drain", "done"}

\* A shipper has the name of the process that builds it; there is none before,
\* and none where the setting switches shipping off.
Building ==
    \A s \in Appliers :
        /\ pc[s] \notin {"swap", "close", "drain", "done"} => life[s] = "none"
        /\ pc[s] = "build" => want[s].enabled
        /\ pc[s] = "swap" => life[s] = IF want[s].enabled THEN "open" ELSE "none"
        /\ pc[s] = "swap" /\ want[s].enabled => built[s] = want[s].cfg

\* The shipper in service, and one taken out of service that is still to be
\* closed, are open and past their swap.
Serving ==
    /\ \A s \in Appliers : (current = s \/ \E p \in Processes : MustClose(p, s)) =>
          life[s] = "open" /\ pc[s] \in {"close", "drain", "done"}
    /\ \A p \in Processes, s \in Appliers : MustClose(p, s) => current # s

\* After the shutdown whatever is yet to swap was so when it came.
Late ==
    pc[Shutdown] # "idle" => \A p \in Appliers : Unswapped(p) => p \in late

\* Until the shutdown, the shipper in service was built from the configuration
\* the manager remembers.
Remembered ==
    pc[Shutdown] = "idle" /\ enabled => current # None /\ built[current] = config

\* An application that is alone read the two rows as they are.
ReadAlone ==
    ~overlapped =>
        /\ \A p, q \in Appliers : Busy(p) /\ Busy(q) => p = q
        /\ \A p \in Appliers :
              pc[p] \in {"readToken", "check", "build", "swap"} =>
                  want[p].enabled = setting.enabled /\ want[p].cfg.dest = setting.dest
        /\ \A p \in Appliers :
              pc[p] \in {"check", "build", "swap"} => want[p].cfg.token = token
        /\ pc[Shutdown] = "idle" =>
              \A p \in Appliers : pc[p] = "enqueue" => held[p] = current

\* Once it has swapped, and until the next one begins, the manager has what
\* the rows say.
Installed ==
    /\ ~overlapped
    /\ pc[Shutdown] = "idle"
    /\ \/ applied /\ \A p \in Appliers : ~Busy(p)
       \/ \E p \in Appliers : pc[p] \in {"close", "drain"}
    => enabled = setting.enabled /\ config.dest = setting.dest /\ config.token = token

IInv ==
    /\ TypeOK /\ Kinds /\ Building /\ Serving /\ Late /\ NoOrphan /\ ClosedOnce
    /\ Remembered /\ ReadAlone /\ Installed
=============================================================================
