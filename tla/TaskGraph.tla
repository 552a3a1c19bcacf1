----------------------------- MODULE TaskGraph ------------------------------
(***************************************************************************)
(* The two graph algorithms of the controller: the search for cycles that   *)
(* admits a batch of tasks (Scheduler._assert_acyclic) and the order in     *)
(* which bases are composed and commits integrated (topological_order in    *)
(* controller/runtime.py), as pure operators, beside what they should       *)
(* compute.                                                                 *)
(*                                                                          *)
(* A graph g maps each known task to the list of its dependencies, which    *)
(* may name tasks that are not known.                                       *)
(***************************************************************************)
EXTENDS Integers, FiniteSets, SequencesExt

-----------------------------------------------------------------------------
(* The depth-first search.  Its state: the tasks on the current path, the   *)
(* tasks done with, and how it has ended, if it has.                        *)

Known(g) == DOMAIN g \cup UNION {ToSet(g[t]) : t \in DOMAIN g}
Search(g) == [visiting : SUBSET Known(g), visited : SUBSET Known(g),
              verdict : {"acyclic", "cycle", "unknown"}]

EnterPath(search, t) == [search EXCEPT !.visiting = @ \cup {t}]

\* Mutant: the path is never unwound, so a task reached twice is a cycle.
StayOnPath(search, t) == [search EXCEPT !.visited = @ \cup {t}]

LeavePath(search, t) == [search EXCEPT !.visiting = @ \ {t}, !.visited = @ \cup {t}]

\* One call, where each is the loop over a list that it makes.
visit(g, each, search, t) ==
  IF t \in search.visiting THEN [search EXCEPT !.verdict = "cycle"]
  ELSE IF t \in search.visited THEN search
  ELSE IF t \notin DOMAIN g THEN [search EXCEPT !.verdict = "unknown"]        \* KeyError
  ELSE LeavePath(each[<<EnterPath(search, t), g[t]>>], t)

\* The loop over a list, as a function of the search so far and the list.
VisitEach(g) ==
  LET each[call \in Search(g) \X Seq(Known(g))] ==
        LET search == call[1]
            list == call[2]
        IN  IF list = <<>> \/ search.verdict # "acyclic" THEN search
            ELSE each[<<visit(g, each, search, Head(list)), Tail(list)>>]
  IN  each

\* "acyclic", "cycle", or "unknown" for a dependency that is not known.
assert_acyclic(g) ==
  VisitEach(g)[<<[visiting |-> {}, visited |-> {}, verdict |-> "acyclic"],
                 SetToSeq(DOMAIN g)>>].verdict

-----------------------------------------------------------------------------
(* The stable order: again and again the first task that waits for nothing  *)
(* else on the list.                                                        *)

EmitNext(g, known, s) ==
  LET free == {i \in DOMAIN s.pending :
                 \A d \in ToSet(g[s.pending[i]]) : d \in ToSet(s.ordered) \/ d \notin known}
  IN  IF free = {} THEN s
      ELSE LET i == CHOOSE i \in free : \A j \in free : i <= j
           IN  [ordered |-> Append(s.ordered, s.pending[i]), pending |-> RemoveAt(s.pending, i)]

\* What is ordered and what is pending after so many rounds.
Emitted(tasks, g) ==
  LET after[n \in Nat] == IF n = 0 THEN [ordered |-> <<>>, pending |-> tasks]
                          ELSE EmitNext(g, ToSet(tasks), after[n - 1])
  IN  after

\* tasks as listed; what stays pending at the end is the ValueError.
topological_order(tasks, g) == Emitted(tasks, g)[Len(tasks)]

-----------------------------------------------------------------------------
(* What they should compute.                                                *)

\* In every group of tasks there is one that depends on none of the group.
Acyclic(g) ==
  \A group \in SUBSET DOMAIN g :
    group # {} => \E t \in group : ToSet(g[t]) \cap group = {}

Dangling(g) == {t \in DOMAIN g : ~ (ToSet(g[t]) \subseteq DOMAIN g)}

\* order lists the tasks of g, each after those it depends on.
Follows(order, g) ==
  /\ ToSet(order) = DOMAIN g
  /\ Len(order) = Cardinality(DOMAIN g)
  /\ \A j \in DOMAIN order :
       ToSet(g[order[j]]) \cap DOMAIN g \subseteq ToSet(SubSeq(order, 1, j - 1))
=============================================================================
