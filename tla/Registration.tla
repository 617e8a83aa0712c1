---------------------------- MODULE Registration ----------------------------
(***************************************************************************)
(* A cluster's record: the pasted kubeconfig that is validated and stored, *)
(* and the probes that say whether it still works.  A registration, a      *)
(* replacement, a "check connection" and the background monitor all probe, *)
(* each reading the credential, asking the API server and recording what   *)
(* it found in separate steps.                                             *)
(* (src/server/internal/cluster: service.go, monitor.go, health.go,        *)
(*  kubeconfig.go, ssrf.go; store/clusters.go; httpapi/cluster_handlers.go)*)
(***************************************************************************)
EXTENDS Naturals, FiniteSets

CONSTANTS Pastes,      \* kubeconfigs: [exec, current, contexts], where contexts
                       \* maps a context's name to the server it names
          Servers,     \* the API servers a cluster may be at
          Blocked,     \* an address that is refused
          Unresolved,  \* a name that does not resolve from here
          NoName,      \* no context chosen
          NoRow,       \* no cluster, no credential, no outcome
          MaxChanges,  \* bound: edits, and changes at the API servers
          MaxFaults    \* bound: database calls that fail

\* Every pasted context names a server, a blocked or an unresolved address.
PastesAssumption ==
  /\ \A p \in Pastes : \A n \in DOMAIN p.contexts :
        p.contexts[n] \in Servers \cup {Blocked, Unresolved}
  /\ MaxChanges \in Nat /\ MaxFaults \in Nat

VARIABLES row,       \* the clusters and cluster_credentials rows
          access,    \* server -> how it takes our credential: "full", "narrow",
                     \* "forbidden", "rejected", or "down"
          probe,     \* prober -> [step, cred, found]
          previous,  \* Monitor.probe: the status the sweep's list showed
          alarmed,   \* history: an alarm went off since the status was last not invalid
          twice,     \* history: and another did
          changes, faults

vars == <<row, access, probe, previous, alarmed, twice, changes, faults>>

\* Create and ReplaceCredential, the check, and the monitor.
Probers == {"save", "check", "monitor"}

Statuses == {"unknown", "valid", "invalid", "unreachable"}
Names == UNION {DOMAIN p.contexts : p \in Pastes}
Creds == [paste : Pastes, context : Names]
Rest == [step |-> "rest", cred |-> NoRow, found |-> NoRow]

TypeOK ==
  /\ row = NoRow \/ row \in [cred : Creds, server : Servers \cup {Unresolved}, status : Statuses]
  /\ access \in [Servers -> {"full", "narrow", "forbidden", "rejected", "down"}]
  /\ probe \in [Probers -> [step : {"rest", "read", "ask", "record", "reload"},
                            cred : Creds \cup {NoRow}, found : Statuses \cup {NoRow}]]
  /\ previous \in Statuses \cup {NoRow}
  /\ alarmed \in BOOLEAN /\ twice \in BOOLEAN
  /\ changes \in 0..MaxChanges /\ faults \in 0..MaxFaults

Init ==
  /\ row = NoRow
  /\ access \in [Servers -> {"full", "rejected"}]
  /\ probe = [p \in Probers |-> Rest]
  /\ previous = NoRow
  /\ alarmed = FALSE /\ twice = FALSE
  /\ changes = 0 /\ faults = 0

Changes == changes < MaxChanges /\ changes' = changes + 1
Faults == faults < MaxFaults /\ faults' = faults + 1

\* The history of what the row says.
Watch == alarmed' = (alarmed /\ row' # NoRow /\ row'.status = "invalid")

-----------------------------------------------------------------------------
(* A pasted kubeconfig. *)

\* ParseKubeconfig: no exec plugin or auth provider, and something usable.
Parses(p) == ~p.exec /\ \E n \in DOMAIN p.contexts : p.contexts[n] # Blocked

\* ParsedKubeconfig.Context: the named one or the current one, not blocked.
Selected(p, name) == IF name = NoName THEN p.current ELSE name

Usable(p, name) == /\ Parses(p)
                   /\ Selected(p, name) \in DOMAIN p.contexts
                   /\ p.contexts[Selected(p, name)] # Blocked

Stored(p, name) ==
  [cred |-> [paste |-> p, context |-> Selected(p, name)],
   server |-> p.contexts[Selected(p, name)], status |-> "unknown"]

\* The save's own probe follows in the same request.
Probing(who) == probe' = [probe EXCEPT ![who] = [Rest EXCEPT !.step = "read"]]

\* Service.Create: row and credential in one transaction.
Create(p, name) ==
  /\ row = NoRow
  /\ probe["save"] = Rest
  /\ Usable(p, name)
  /\ Changes
  /\ row' = Stored(p, name)
  /\ Probing("save")
  /\ Watch
  /\ UNCHANGED <<access, previous, twice, faults>>

\* Service.ReplaceCredential: the credential, its server and a cleared status
\* in one transaction.
Replace(p, name) ==
  /\ row # NoRow
  /\ probe["save"] = Rest
  /\ Usable(p, name)
  /\ Changes
  /\ row' = Stored(p, name)
  /\ Probing("save")
  /\ Watch
  /\ UNCHANGED <<access, previous, twice, faults>>

\* A kubeconfig that does not parse, or a context that may not be used, is
\* refused before anything is written; so is a write the database fails.
Refused(p, name) ==
  /\ probe["save"] = Rest
  /\ ~Usable(p, name)
  /\ UNCHANGED vars

\* clusterHandlers.remove.
Remove ==
  /\ row # NoRow
  /\ Changes
  /\ row' = NoRow
  /\ Watch
  /\ UNCHANGED <<access, probe, previous, twice, faults>>

-----------------------------------------------------------------------------
(* Probing. *)

\* clusterHandlers.test.
Check ==
  /\ row # NoRow
  /\ probe["check"] = Rest
  /\ Changes
  /\ Probing("check")
  /\ UNCHANGED <<row, access, previous, alarmed, twice, faults>>

\* Mutant: a cluster already flagged invalid is left for its owner to repair.
Sweep_SkipsInvalid ==
  /\ row # NoRow
  /\ row.status # "invalid"
  /\ probe["monitor"] = Rest
  /\ previous' = row.status
  /\ Probing("monitor")
  /\ UNCHANGED <<row, access, alarmed, twice, changes, faults>>

\* Monitor.sweep: the list, and the status each row shows in it.
Sweep ==
  /\ row # NoRow
  /\ probe["monitor"] = Rest
  /\ previous' = row.status
  /\ Probing("monitor")
  /\ UNCHANGED <<row, access, alarmed, twice, changes, faults>>

\* RESTConfigFor: the credential as it is stored now.
ReadCredential(who) ==
  /\ probe[who].step = "read"
  /\ \/ /\ row # NoRow
        /\ probe' = [probe EXCEPT ![who].step = "ask", ![who].cred = row.cred]
        /\ UNCHANGED faults
     \/ /\ row = NoRow \/ faults < MaxFaults
        /\ faults' = IF row = NoRow THEN faults ELSE faults + 1
        /\ probe' = [probe EXCEPT ![who].step = "record", ![who].found = "unreachable"]
  /\ UNCHANGED <<row, access, previous, alarmed, twice, changes>>

\* Probe and classifyFailure: a rejected credential is told from an outage, and
\* one that may not count nodes is a good one.
Classify(answer) == CASE answer \in {"full", "narrow"} -> "valid"
                      [] answer \in {"forbidden", "rejected"} -> "invalid"
                      [] OTHER -> "unreachable"

Answer(cred) == LET server == cred.paste.contexts[cred.context]
                IN  IF server \in Servers THEN access[server] ELSE "down"

Ask(who) ==
  /\ probe[who].step = "ask"
  /\ probe' = [probe EXCEPT ![who].step = "record", ![who].found = Classify(Answer(probe[who].cred))]
  /\ UNCHANGED <<row, access, previous, alarmed, twice, changes, faults>>

\* RecordHealth: its error is dropped.
Record(who) ==
  /\ probe[who].step = "record"
  /\ \/ /\ row' = IF row = NoRow THEN row ELSE [row EXCEPT !.status = probe[who].found]
        /\ UNCHANGED faults
     \/ /\ Faults
        /\ UNCHANGED row
  /\ probe' = [probe EXCEPT ![who] = IF who = "monitor" THEN [Rest EXCEPT !.step = "reload"] ELSE Rest]
  /\ Watch
  /\ UNCHANGED <<access, previous, twice, changes>>

\* Mutant: the unchanged status is not left alone.
Reload_EverySweep ==
  /\ probe["monitor"].step = "reload"
  /\ probe' = [probe EXCEPT !["monitor"] = Rest]
  /\ previous' = NoRow
  /\ IF row # NoRow /\ row.status = "invalid"
     THEN alarmed' = TRUE /\ twice' = (twice \/ alarmed)
     ELSE UNCHANGED <<alarmed, twice>>
  /\ UNCHANGED <<row, access, changes, faults>>

\* Monitor.probe: the row is read again, and an alarm goes to the audit log
\* when it shows an invalid credential and the list did not.
Reload ==
  /\ probe["monitor"].step = "reload"
  /\ probe' = [probe EXCEPT !["monitor"] = Rest]
  /\ previous' = NoRow
  /\ IF row # NoRow /\ row.status # previous /\ row.status = "invalid"
     THEN alarmed' = TRUE /\ twice' = (twice \/ alarmed)
     ELSE UNCHANGED <<alarmed, twice>>
  /\ UNCHANGED <<row, access, changes, faults>>

\* The row could not be read again: no word of it until the next sweep.
ReloadFails ==
  /\ probe["monitor"].step = "reload"
  /\ Faults
  /\ probe' = [probe EXCEPT !["monitor"] = Rest]
  /\ previous' = NoRow
  /\ UNCHANGED <<row, access, alarmed, twice, changes>>

\* A token is revoked, expires or is granted again; a server goes away or back.
Turns(s, how) ==
  /\ access[s] # how
  /\ Changes
  /\ access' = [access EXCEPT ![s] = how]
  /\ UNCHANGED <<row, probe, previous, alarmed, twice, faults>>

Stop == row = NoRow /\ changes = MaxChanges /\ UNCHANGED vars

Probes == \/ \E who \in Probers : ReadCredential(who) \/ Ask(who) \/ Record(who)
          \/ Reload
          \/ Sweep

Next ==
  \/ Probes
  \/ Remove \/ Check \/ ReloadFails \/ Stop
  \/ \E p \in Pastes, name \in Names \cup {NoName} :
       Create(p, name) \/ Replace(p, name) \/ Refused(p, name)
  \/ \E s \in Servers, how \in {"full", "narrow", "forbidden", "rejected", "down"} : Turns(s, how)

\* Every request a probe sends has a timeout, and the monitor's ticker runs
\* while the server does.
Spec ==
  /\ Init /\ [][Next]_vars
  /\ WF_vars(Sweep) /\ WF_vars(Reload)
  /\ \A who \in Probers : WF_vars(ReadCredential(who) \/ Ask(who) \/ Record(who))

-----------------------------------------------------------------------------
(* Properties. *)

\* What the row should say: where the credential goes, and whether it works
\* there: refused is invalid, and only no answer is unreachable.
Told ==
  row # NoRow =>
    LET at == row.server
    IN  row.status = IF at = Unresolved \/ access[at] = "down" THEN "unreachable"
                     ELSE IF access[at] \in {"rejected", "forbidden"} THEN "invalid" ELSE "valid"

\* Once nothing changes, the row says of the server it shows what its
\* credential is worth there, whatever older probes were still to be recorded
\* and whichever of several contexts was chosen (service.go:240-262,
\* monitor.go:14-18, kubeconfig.go:167-183).
StatusSettles == <>[]Told

\* The monitor tells a credential that stopped working once: it says it again
\* only after the row has shown something else (monitor.go:85-92).
AlarmedOnce == ~twice

-----------------------------------------------------------------------------
(* What makes AlarmedOnce inductive. *)

\* An alarm is about a row that still shows an invalid credential, and the
\* sweep that follows it was shown that.
Alarmed ==
  alarmed => /\ row # NoRow /\ row.status = "invalid"
             /\ probe["monitor"].step # "rest" => previous = "invalid"

\* What is recorded was found.
Found == \A who \in Probers : probe[who].step = "record" => probe[who].found \in Statuses

IInv == TypeOK /\ Alarmed /\ Found /\ AlarmedOnce
=============================================================================
