----------------------------- MODULE LogFindings -----------------------------
(***************************************************************************)
(* What a sweep of a log store concludes: the stored rules made runnable   *)
(* (src/server/internal/settings/logs.go), the one aggregation asked of    *)
(* the store and the findings read from its buckets                        *)
(* (src/server/internal/logsearch: sweep.go, rules.go, mapping.go), and    *)
(* the findings gathered under the workloads that own the pods             *)
(* (src/server/internal/cluster/logs_sweeper.go).                          *)
(*                                                                         *)
(* A line is the slice of the window it was written in and its kind: a     *)
(* rule matches kinds, never text.  The name of a pod is a number, and     *)
(* pods of several namespaces may have it: the store groups lines by it.   *)
(* The store is external: a phrase query finds a substring in a field it   *)
(* indexes by terms and a wildcard in one it keeps whole, keyword or       *)
(* wildcard, and not the other way; its cap of 200 names is not reached.   *)
(***************************************************************************)
EXTENDS Naturals, Sequences, FiniteSets, FiniteSetsExt, SequencesExt, Functions

CONSTANTS Pods,     \* the names of pods: numbers, in their order
          Spaces,   \* the namespaces
          Logs,     \* what was written under a name: sequences of [slice, kind, ns]
          Stored,   \* the rule lists an administrator may have saved, <<>> for none
          Parents   \* <<namespace, name>> -> what a pod hangs from: "rs", "job" or "none"

\* There are finitely many names, there is a namespace, and lists are sequences.
\* What is written in a line, and what a rule is called, is open.
FindingsAssumption ==
  /\ IsFiniteSet(Pods) /\ Pods \subseteq Nat
  /\ Spaces # {}
  /\ \A list \in Logs \cup Stored : Len(list) \in Nat /\ DOMAIN list = 1..Len(list)

VARIABLES input,    \* the settings, the logs, the owners and the field's mappings
          answer    \* the findings, per name and per workload

Kinds == {"named", "other"}

\* DefaultRules, cut down to one named rule and the net behind it.
DefaultRules == << [name |-> "named", matches |-> {"named"}, disabled |-> FALSE],
                   [name |-> "net", matches |-> Kinds, disabled |-> FALSE] >>

DefaultMinCount == 3
SliceCount == 3

\* compileRules: what cannot run is dropped and the rest keeps its order; nothing
\* stored means the built-in set.  No two rules of a list have one name
\* (settings/logs.go:155-158), so a rule is known by its place.
Rules(stored) ==
  IF stored = <<>> THEN DefaultRules
  ELSE Restrict(stored, {i \in DOMAIN stored : ~stored[i].disabled /\ stored[i].matches # {}})

MinCount(stored) == IF stored > 0 THEN stored ELSE DefaultMinCount

-----------------------------------------------------------------------------
(* The question. *)

\* The types of the message field that are told apart: "text" stands for the
\* three that index terms, "keyword" for all that analyzedTypes does not name.
Types == {"text", "keyword", "wildcard"}
analyzedTypes == {"text", "wildcard"}

\* messageMapping over the indices of the pattern, in whatever order the map
\* is walked: one that is not analysed among them decides it.
Unread == ""
Mapping(types) == IF types = {} THEN Unread
                  ELSE IF types \subseteq analyzedTypes THEN "analyzed" ELSE "whole"

\* Mutant: a mapping that could not be read is taken for an analysed field.
Clauses_Guess(mapping) == IF mapping = "whole" THEN {"wildcard"} ELSE {"phrase"}

\* phraseQuery: how a phrase is looked for.
Clauses(mapping) == CASE mapping = "whole" -> {"wildcard"}
                      [] mapping = "analyzed" -> {"phrase"}
                      [] OTHER -> {"phrase", "wildcard"}

\* The store: the clause that finds a phrase inside a line of an index.
Finds(type) == IF type = "text" THEN "phrase" ELSE "wildcard"

\* The lines under name p that the question matches, by their place in the log.
Matching(in, p, rules) ==
  {j \in DOMAIN in.logs[p] :
     /\ Finds(in.holds) \in Clauses(Mapping(in.types))
     /\ \E i \in DOMAIN rules : in.logs[p][j].kind \in rules[i].matches}

-----------------------------------------------------------------------------
(* The findings. *)

\* The rules that one of the lines matches.
Matched(log, lines, rules) ==
  {i \in DOMAIN rules : \E j \in lines : log[j].kind \in rules[i].matches}

\* Mutant: the last declared rule wins, and the net swallows the named ones.
WinningRule_Last(log, lines, rules) == rules[Max(Matched(log, lines, rules))].name

\* winningRule: the first declared rule that any of the lines matches.
WinningRule(log, lines, rules) == rules[Min(Matched(log, lines, rules))].name

Slices(log, lines) == {log[j].slice : j \in lines}

SeverityOf(slices) == IF Cardinality(slices) >= SliceCount THEN "error" ELSE "warning"

\* The namespace that most of the lines came from: the one bucket asked for of
\* those under the name.  Which it is of equals, the store decides.
In(log, lines, n) == {j \in lines : log[j].ns = n}
Namespace(log, lines) ==
  CHOOSE n \in Spaces :
    \A m \in Spaces : Cardinality(In(log, lines, m)) <= Cardinality(In(log, lines, n))

\* One bucket of the answer made into a finding: all that was written under a
\* name, in whatever namespace.
Finding(in, p, rules) ==
  LET lines == Matching(in, p, rules)
      slices == Slices(in.logs[p], lines)
  IN  [pod |-> p, ns |-> Namespace(in.logs[p], lines),
       rule |-> WinningRule(in.logs[p], lines, rules), count |-> Cardinality(lines),
       severity |-> SeverityOf(slices), first |-> Min(slices), last |-> Max(slices), sample |-> p]

Louder(f, g) == f.count > g.count \/ (f.count = g.count /\ f.pod < g.pod)

\* The findings in the order of the list.
LoudestFirst(found) ==
  CHOOSE s \in [1..Cardinality(found) -> found] :
    \A i, j \in DOMAIN s : i < j => Louder(s[i], s[j])

\* Sweep and findings: names under which too little was said are left out.
Loud(in) ==
  {p \in Pods : LET lines == Matching(in, p, Rules(in.stored))
                IN  lines # {} /\ Cardinality(lines) >= MinCount(in.minCount)}

Sweep(in) == LoudestFirst({Finding(in, p, Rules(in.stored)) : p \in Loud(in)})

\* resolveOwners: the workloads above a pod, both rungs when both can be listed.
\* A namespace has one workload of each kind.
Owners(in, n, p) ==
  LET parent == in.parent[<<n, p>>]
  IN  IF ~in.listed \/ parent = "none" THEN {}
      ELSE {n} \X ({parent} \cup (IF parent = "rs" /\ in.above THEN {"deployment"} ELSE {}))

\* Mutant: the last pod's severity stands for the group.
Gather_LastSeverity(rolled, f) ==
  IF rolled.pods = 0 THEN [finding |-> f, pods |-> 1]
  ELSE [pods |-> rolled.pods + 1,
        finding |-> [rolled.finding EXCEPT !.count = @ + f.count, !.severity = f.severity,
                                           !.first = IF f.first < @ THEN f.first ELSE @,
                                           !.last = IF f.last > @ THEN f.last ELSE @]]

\* One finding added to what is gathered for workload w.
Gather(rolled, f) ==
  IF rolled.pods = 0 THEN [finding |-> f, pods |-> 1]
  ELSE [pods |-> rolled.pods + 1,
        finding |-> [rolled.finding EXCEPT
                       !.count = @ + f.count,
                       !.severity = IF f.severity = "error" THEN "error" ELSE @,
                       !.first = IF f.first < @ THEN f.first ELSE @,
                       !.last = IF f.last > @ THEN f.last ELSE @]]

Untold == [finding |-> <<>>, pods |-> 0]
Workloads == Spaces \X {"rs", "job", "deployment"}

\* rollUp: each workload's findings gathered into one finding.
RollUp(in, findings) ==
  [w \in Workloads |->
     FoldLeft(LAMBDA rolled, f : IF w \in Owners(in, f.ns, f.pod) THEN Gather(rolled, f) ELSE rolled,
              Untold, findings)]

-----------------------------------------------------------------------------
Pending == [done |-> FALSE]

Inputs == [stored : Stored, minCount : {0, 2}, logs : [Pods -> Logs], parent : Parents,
           listed : BOOLEAN, above : BOOLEAN,
           types : SUBSET Types, holds : Types]

Asked == {in \in Inputs : (in.types # {} => in.holds \in in.types) /\ (~in.listed => ~in.above)}

Init == input \in Asked /\ answer = Pending

\* sweepOne, once the store has answered.
Concluded(in) ==
  LET findings == Sweep(in)
  IN  [done |-> TRUE, pods |-> findings, workloads |-> RollUp(in, findings)]

Judge ==
  /\ answer = Pending
  /\ answer' = Concluded(input)
  /\ UNCHANGED input

Next == Judge

Spec == Init /\ [][Next]_<<input, answer>>

\* The answer is not there yet, or is what was concluded from what was asked.
IInv == input \in Asked /\ answer \in {Pending, Concluded(input)}

-----------------------------------------------------------------------------
(* Properties. *)

\* What a reader should be told of name p: the lines under it that some enabled
\* rule wants, when they are enough to be worth saying.
Wanted(p) == LET rules == Rules(input.stored)
             IN  {j \in DOMAIN input.logs[p] :
                    \E i \in DOMAIN rules : input.logs[p][j].kind \in rules[i].matches}
Told == {p \in Pods : Wanted(p) # {} /\ Cardinality(Wanted(p)) >= MinCount(input.minCount)}

Home(p) == Namespace(input.logs[p], Wanted(p))
Under(w) == {p \in Told : w \in Owners(input, Home(p), p)}

\* The rule a name is told by: a rule that explains one of its lines, and no rule
\* declared before it does.
Explains(name, p) ==
  LET rules == Rules(input.stored)
  IN  \E i \in DOMAIN rules :
        /\ rules[i].name = name
        /\ \E j \in DOMAIN input.logs[p] : input.logs[p][j].kind \in rules[i].matches
        /\ \A k \in DOMAIN rules, j \in DOMAIN input.logs[p] :
             k < i => input.logs[p][j].kind \notin rules[k].matches

\* The types for which what is asked finds the lines of every index: not text
\* beside one that is kept whole, which alone is then asked for, and not
\* wildcard, which analyzedTypes takes for an index of terms, unless a keyword
\* is with it.
Fits(types) == types \in {{}, {"text"}, {"keyword"}, {"keyword", "wildcard"}}

\* Exactly the names under which something was said again and again are
\* reported, each once, with all the lines, the first rule that explains them
\* and the namespace most of them are from; a workload is reported once, with
\* the lines of all names reported under it, an error if one of them is, and the
\* line of the loudest (sweep.go:149-325, logs_sweeper.go:274-309).  A name of
\* one namespace is told as that pod.  Of pods that share a name the one that
\* said most is told, with what all said; the others' workloads have nothing.
FindingsTell ==
  answer.done /\ Fits(input.types) =>
    /\ {answer.pods[i].pod : i \in DOMAIN answer.pods} = Told
    /\ Len(answer.pods) = Cardinality(Told)
    /\ \A i \in DOMAIN answer.pods :
         LET f == answer.pods[i]
         IN  /\ f.count = Cardinality(Wanted(f.pod))
             /\ Explains(f.rule, f.pod)
             /\ f.ns \in Spaces
             /\ \A n \in Spaces : Cardinality(In(input.logs[f.pod], Wanted(f.pod), n))
                                 <= Cardinality(In(input.logs[f.pod], Wanted(f.pod), f.ns))
    /\ \A w \in Workloads :
         LET rolled == answer.workloads[w]
         IN  /\ rolled.pods = Cardinality(Under(w))
             /\ Under(w) # {} =>
                  /\ rolled.finding.count = Cardinality(UNION {{p} \X Wanted(p) : p \in Under(w)})
                  /\ rolled.finding.severity = "error" <=>
                       \E p \in Under(w) : Cardinality({input.logs[p][j].slice : j \in Wanted(p)}) >= 3
                  /\ \A p \in Under(w) : Cardinality(Wanted(p)) <= Cardinality(Wanted(rolled.finding.sample))
=============================================================================
