-------------------------------- MODULE Ddmin --------------------------------
(***************************************************************************)
(* The minimiser (harness/minimize.py: minimize, ddmin) and the re-check   *)
(* around it (harness/campaign.py: _minimize).  Delta debugging drops      *)
(* chunks of a diff's change lines for as long as the pipeline still calls *)
(* what is left the same bypass; the pipeline is a set of accepted sets of *)
(* lines, and an analysis of it can fail.                                  *)
(***************************************************************************)
EXTENDS Naturals, Sequences

CONSTANTS
  Problem,   \* the change lines of a diff, and the sets of them accepted
  Budget,    \* archive.minimize_budget
  MaxUnits,  \* MAX_CHANGE_UNITS
  MaxFailures  \* bound on analyses that fail

Lines(s) == {s[i] : i \in DOMAIN s}
Distinct(s) == \A i, j \in DOMAIN s : s[i] = s[j] => i = j

ASSUME DdminAssumption ==
  /\ \A p \in Problem : p.units \in Seq(Nat) /\ Distinct(p.units)
  /\ Budget \in Nat /\ MaxUnits \in Nat /\ MaxFailures \in Nat

VARIABLES
  phase,        \* "begin", "search", "check" or "done"
  problem,      \* the diff being minimised
  current,      \* the change lines still kept
  granularity,  \* into how many chunks a pass cuts them
  start,        \* where the next chunk of the pass begins
  calls,        \* oracle calls the search has counted
  partial,      \* the budget ran out, or the diff was too large
  result,       \* "none" yet, "dropped", "kept", or "raised" out of it
  spend,        \* the analyses a kept result reports
  asked,        \* ghost: oracle calls really made
  failures        \* analyses failed so far, bounded by MaxFailures

searchVars == <<phase, problem, current, granularity, start, calls, partial, result,
          spend, asked, failures>>

SearchTypeOK ==
  /\ phase \in {"begin", "search", "check", "done"}
  /\ problem \in Problem
  /\ current \in Seq(Nat) /\ Distinct(current)
  /\ granularity \in Nat \ {0} /\ start \in Nat
  /\ calls \in Nat /\ asked \in Nat /\ failures \in 0..MaxFailures
  /\ partial \in BOOLEAN
  /\ result \in {"none", "dropped", "kept", "raised"} /\ spend \in Nat

SearchInit ==
  /\ phase = "begin"
  /\ problem \in Problem /\ current = problem.units
  /\ granularity = 2 /\ start = 0 /\ calls = 0 /\ partial = FALSE
  /\ result = "none" /\ spend = 0 /\ asked = 0 /\ failures = 0

-----------------------------------------------------------------------------
(* minimize and ddmin.                                                     *)

\* One change line is minimal already; above MaxUnits the diff is kept whole.
Begin ==
  /\ phase = "begin"
  /\ LET n == Len(current) IN
       /\ phase' = IF n < 2 \/ n > MaxUnits THEN "check" ELSE "search"
       /\ partial' = (n >= 2 /\ n > MaxUnits)
  /\ UNCHANGED <<problem, current, granularity, start, calls, result, spend,
                 asked, failures>>

Chunk == (Len(current) + granularity - 1) \div granularity
\* The last chunk of a pass may be shorter than the others.
Width == IF start + Chunk <= Len(current) THEN Chunk ELSE Len(current) - start
Victim == {current[i] : i \in start + 1 .. start + Width}

\* Mutant: the slice that is dropped begins one line too late.
RestLate ==
  [i \in 1 .. Len(current) - Width |->
     IF i <= start + 1 THEN current[i] ELSE current[i + Width]]
\* current without the victim, in order.
Rest ==
  [i \in 1 .. Len(current) - Width |->
     IF i <= start THEN current[i] ELSE current[i + Width]]

InPass == phase = "search" /\ Len(current) >= 2 /\ start < Len(current)
Accepts(kept) == kept \in problem.accepted

BudgetOut ==
  /\ InPass /\ calls >= Budget
  /\ partial' = TRUE /\ phase' = "check"
  /\ UNCHANGED <<problem, current, granularity, start, calls, result, spend,
                 asked, failures>>

\* The pipeline accepts the complement: it becomes the diff, and the pass
\* starts over at a coarser grain.
Reduce ==
  /\ InPass /\ calls < Budget
  /\ Accepts(Lines(current) \ Victim)
  /\ current' = Rest
  /\ granularity' = IF granularity > 2 THEN granularity - 1 ELSE 2
  /\ start' = 0
  /\ calls' = calls + 1 /\ asked' = asked + 1
  /\ UNCHANGED <<phase, problem, partial, result, spend, failures>>

\* It refuses the complement, or the analysis of it fails.
Reject ==
  /\ InPass /\ calls < Budget
  /\ \/ ~ Accepts(Lines(current) \ Victim) /\ failures' = failures
     \/ failures < MaxFailures /\ failures' = failures + 1
  /\ start' = start + Chunk
  /\ calls' = calls + 1 /\ asked' = asked + 1
  /\ UNCHANGED <<phase, problem, current, granularity, partial, result, spend>>

\* Mutant: the search stops a grain before single lines.
NextPassCoarse ==
  /\ phase = "search" /\ Len(current) >= 2 /\ start >= Len(current)
  /\ IF granularity + 1 >= Len(current)
       THEN phase' = "check" /\ UNCHANGED <<granularity, start>>
       ELSE /\ granularity' = IF 2 * granularity < Len(current)
                                THEN 2 * granularity ELSE Len(current)
            /\ start' = 0 /\ UNCHANGED phase
  /\ UNCHANGED <<problem, current, calls, partial, result, spend, asked,
                 failures>>

\* A whole pass found nothing: finer chunks, until they are single lines.
NextPass ==
  /\ phase = "search" /\ Len(current) >= 2 /\ start >= Len(current)
  /\ IF granularity >= Len(current)
       THEN phase' = "check" /\ UNCHANGED <<granularity, start>>
       ELSE /\ granularity' = IF 2 * granularity < Len(current)
                                THEN 2 * granularity ELSE Len(current)
            /\ start' = 0 /\ UNCHANGED phase
  /\ UNCHANGED <<problem, current, calls, partial, result, spend, asked,
                 failures>>

OneLeft ==
  /\ phase = "search" /\ Len(current) < 2
  /\ phase' = "check"
  /\ UNCHANGED <<problem, current, granularity, start, calls, partial, result,
                 spend, asked, failures>>

\* A validator raises inside the search: the minimisation is forgotten, and
\* what it spent with it.
Raise ==
  /\ InPass /\ calls < Budget /\ failures < MaxFailures
  /\ failures' = failures + 1 /\ asked' = asked + 1
  /\ phase' = "done" /\ result' = "dropped"
  /\ UNCHANGED <<problem, current, granularity, start, calls, partial, spend>>

-----------------------------------------------------------------------------
(* _minimize: the result replaces the representative once the pipeline has *)
(* accepted it again.                                                      *)

Unreduced ==
  /\ phase = "check" /\ current = problem.units
  /\ phase' = "done" /\ result' = "kept" /\ spend' = calls
  /\ UNCHANGED <<problem, current, granularity, start, calls, partial, asked, failures>>

Confirm ==
  /\ phase = "check" /\ current # problem.units
  /\ Accepts(Lines(current))
  /\ phase' = "done" /\ result' = "kept"
  /\ spend' = calls + 1 /\ asked' = asked + 1
  /\ UNCHANGED <<problem, current, granularity, start, calls, partial, failures>>

\* The re-check refuses, or its analysis fails: the original stands.
Refute ==
  /\ phase = "check" /\ current # problem.units
  /\ \/ ~ Accepts(Lines(current)) /\ failures' = failures
     \/ failures < MaxFailures /\ failures' = failures + 1
  /\ phase' = "done" /\ result' = "dropped" /\ asked' = asked + 1
  /\ UNCHANGED <<problem, current, granularity, start, calls, partial, spend>>

\* A validator raises in the re-check: nothing catches it, the run is lost.
RaiseInCheck ==
  /\ phase = "check" /\ current # problem.units /\ failures < MaxFailures
  /\ failures' = failures + 1 /\ asked' = asked + 1
  /\ phase' = "done" /\ result' = "raised"
  /\ UNCHANGED <<problem, current, granularity, start, calls, partial, spend>>

SearchNext ==
  \/ Begin \/ BudgetOut \/ Reduce \/ Reject \/ NextPass \/ OneLeft \/ Raise
  \/ Unreduced \/ Confirm \/ Refute \/ RaiseInCheck

SearchSpec == SearchInit /\ [][SearchNext]_searchVars

-----------------------------------------------------------------------------
(* Properties.                                                             *)

\* Whatever is kept, at any moment and however the search ends, is the diff
\* as it was or a reduction the pipeline accepted.
KeptIsAccepted == current = problem.units \/ Accepts(Lines(current))

\* A search that was neither cut short nor disturbed ends where no single
\* change line can be dropped, unless one line is all that is left.
OneMinimal ==
  result = "kept" /\ ~ partial /\ failures = 0 /\ Len(current) >= 2 =>
    \A i \in DOMAIN current : ~ Accepts(Lines(current) \ {current[i]})

\* The spend a campaign records for a minimised diff is what was spent, and
\* exceeds the budget by the re-check at most.
SpendIsTrue == result = "kept" => spend = asked /\ asked <= Budget + 1
=============================================================================
