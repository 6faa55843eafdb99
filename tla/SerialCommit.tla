---------------------------- MODULE SerialCommit ----------------------------
(***************************************************************************)
(* The commit side of the parallel redundancy remover, on concrete         *)
(* circuits: what one proposal barrier does to one work AAG.               *)
(*                                                                         *)
(* Workers propose stuck-at candidates they proved redundant one by one on *)
(* the work AAG.  Two such candidates need not be redundant together, so   *)
(* the coordinator proves every proposal again, in ordinal order, on the   *)
(* gate list that already holds the replacements accepted before it; then  *)
(* it rewrites, restructures, asks the equivalence checker about the       *)
(* original source, and only then replaces the work AAG.                   *)
(***************************************************************************)
EXTENDS AIG

CONSTANTS
  Sources,      \* the circuits a run may start from
  MaxProposals  \* bound: proposals that may wait at one barrier

ASSUME SourcesAssumption == \A c \in Sources : WellFormed(c)
ASSUME MaxProposalsAssumption == MaxProposals \in Nat \ {0}

VARIABLES
  slow,       \* whether a recheck or the equivalence check may time out
  source,     \* the AAG the campaign was started on; never written
  work,       \* current.work.aag
  found,      \* candidates the workers proved redundant on the work AAG
  proposals,  \* candidates still to be rechecked, in ordinal order
  working,    \* the gate list that carries the accepted replacements
  accepted,   \* function from gate positions to accepted constants
  candidate,  \* the restructured AAG beside the work AAG
  pc          \* "classify", "propose", "recheck", "cec", "done" or "failed"

vars == <<slow, source, work, found, proposals, working, accepted, candidate, pc>>

Working == [work EXCEPT !.gates = working]

(* A work AAG beside a source that stays.                                  *)
InitWith(first) ==
  /\ slow \in BOOLEAN
  /\ source \in Sources
  /\ work = first
  /\ found = {}
  /\ proposals = <<>>
  /\ working = work.gates
  /\ accepted = <<>>
  /\ candidate = work
  /\ pc = "classify"

Init == InitWith(source)

(* The workers' verdicts on the present work AAG.                          *)
Classify ==
  /\ pc = "classify"
  /\ found' = {k \in Candidates(work) : TfoVerdict(work, k[1], k[2]) = "UNSAT"}
  /\ pc' = IF found' = {} THEN "done" ELSE "propose"
  /\ UNCHANGED <<slow, source, work, proposals, working, accepted, candidate>>

(* Any nonempty selection of what the workers found UNSAT reaches the      *)
(* barrier, in any ordinal order.                                          *)
Propose ==
  /\ pc = "propose"
  /\ \E n \in 1 .. MaxProposals : \E s \in [1 .. n -> found] :
       /\ \A i, j \in 1 .. n : s[i] = s[j] => i = j
       /\ proposals' = s
  /\ working' = work.gates
  /\ accepted' = <<>>
  /\ pc' = "recheck"
  /\ UNCHANGED <<slow, source, work, found, candidate>>

\* Mutant of RecheckVerdict: earlier acceptances are ignored.
RecheckOnWorkAag(idx, value) == {TfoVerdict(work, idx, value)}

(* The TFO query is rebuilt on the working gates, not on the work AAG.     *)
RecheckVerdict(idx, value) ==
  {TfoVerdict(Working, idx, value)} \cup (IF slow THEN {"TIMEOUT"} ELSE {})

Recheck ==
  /\ pc = "recheck"
  /\ proposals # <<>>
  /\ LET idx   == Head(proposals)[1]
         value == Head(proposals)[2]
     IN  \/ /\ idx \in DOMAIN accepted               \* STALE_SAME_GATE
            /\ UNCHANGED <<working, accepted>>
         \/ /\ idx \notin DOMAIN accepted
            /\ \E verdict \in RecheckVerdict(idx, value) :
                 IF verdict = "UNSAT"
                 THEN /\ accepted' = With(accepted, idx, value)
                      /\ working' = ApplyAccepts(working, StuckAt(idx, value))
                 ELSE UNCHANGED <<working, accepted>>
  /\ proposals' = Tail(proposals)
  /\ UNCHANGED <<slow, source, work, found, candidate, pc>>

(* Without an accepted proposal there is no transaction: the barrier ends  *)
(* and the frontier goes on.                                               *)
Rewrite ==
  /\ pc = "recheck"
  /\ proposals = <<>>
  /\ IF accepted = <<>>
     THEN pc' = "classify" /\ UNCHANGED candidate
     ELSE /\ candidate' = Strash(Rewritten(work, accepted))
          /\ pc' = "cec"
  /\ UNCHANGED <<slow, source, work, found, proposals, working, accepted>>

CecVerdict ==
  {IF Equivalent(source, candidate) THEN "PASS" ELSE "FAIL"}
    \cup (IF slow THEN {"TIMEOUT"} ELSE {})

\* Mutant of Install: the classification of the old AAG is kept.
InstallWithoutReset ==
  work' = candidate /\ working' = candidate.gates /\ accepted' = <<>> /\ UNCHANGED found

Install ==
  work' = candidate /\ working' = candidate.gates /\ accepted' = <<>> /\ found' = {}

(* Anything but PASS drops the candidate file and stops the circuit; PASS  *)
(* replaces the work AAG, whose frontier is then classified anew.          *)
Commit ==
  /\ pc = "cec"
  /\ \E verdict \in CecVerdict :
       IF verdict = "PASS"
       THEN Install /\ pc' = "classify"
       ELSE pc' = "failed" /\ UNCHANGED <<work, found, working, accepted>>
  /\ UNCHANGED <<slow, source, proposals, candidate>>

Next == Classify \/ Propose \/ Recheck \/ Rewrite \/ Commit

Spec == Init /\ [][Next]_vars

-----------------------------------------------------------------------------
(* The variables have their types: proposals and accepted replacements are *)
(* of gates of the work AAG, and a commit leaves none of them behind       *)
(* (_serial_recheck_tfo, _cec_transaction).                                *)
TypeOK ==
  /\ slow \in BOOLEAN
  /\ pc \in {"classify", "propose", "recheck", "cec", "done", "failed"}
  /\ found \subseteq Candidates(work)
  /\ ToSet(proposals) \subseteq Candidates(work)
  /\ Len(working) = Len(work.gates)
  /\ DOMAIN accepted \subseteq DOMAIN work.gates

(* The replacements accepted so far never change the circuit, although     *)
(* each was proposed without the others (_serial_recheck_tfo proves every  *)
(* proposal on the gates that already carry the earlier ones).             *)
AcceptedTogetherSafe == pc = "recheck" => Equivalent(source, Working)

(* The equivalence checker never has a difference to report for a rewrite  *)
(* that passed the serial recheck: CEC_FAILED_ROLLBACK can only be a tool  *)
(* failure or a timeout (_cec_transaction).                                *)
CecNeverRefutes == pc = "cec" => Equivalent(source, candidate)

(* Every file an engine writes can be read back and checked again: gates   *)
(* after their fanins, so the "fanin is not defined" error of              *)
(* pure_python_forward_strash cannot occur and later strash passes and     *)
(* slices see a topological order.                                         *)
CandidateWellFormed == FaninsDefined(candidate)

(* The TFO query of a worker agrees with redundancy of the whole circuit,  *)
(* for every candidate of every work AAG a campaign reaches, and its audit *)
(* never stops an exact query.                                             *)
TfoExact ==
  pc \in {"classify", "recheck"} =>
    \A k \in Candidates(Working) :
      (TfoVerdict(Working, k[1], k[2]) = "UNSAT") = Redundant(Working, k)

(* The slice that is encoded is closed: fanout walk and fanin derivation   *)
(* agree and every affected root is inside, on the gate list with earlier  *)
(* replacements too, where fanins have been cut.                           *)
AuditNeverRaises ==
  pc \in {"classify", "recheck"} =>
    \A idx \in DOMAIN working :
      LET affected == AffectedRoots(Working, idx)
          cone     == GoodCone(Working, affected)
      IN  affected # {} =>
            AuditPasses(Working, affected, idx, cone, TfoSlice(working, idx, cone))

(* Every commit removes gates, at least the accepted ones, and no id of a  *)
(* removed gate survives: what makes the generations of a circuit finite.  *)
CommitShrinks ==
  [][work' # work =>
       /\ Len(work'.gates) + Cardinality(DOMAIN accepted) <= Len(work.gates)
       /\ \A i \in DOMAIN accepted : GateAt(work'.gates, Lhs(work.gates[i])) = {}]_vars

(* A worker's proof is not wasted: unless a query times out, every barrier *)
(* accepts a proposal, the first one at the latest.  With CommitShrinks,   *)
(* this is why the generations of a circuit come to an end.                *)
EveryBarrierCommits ==
  ~slow /\ pc = "recheck" /\ proposals = <<>> => accepted # <<>>

MeaningOf(c) == Function(c)
GatesOf(c) == Len(c.gates)
Irredundant(c) == \A k \in Candidates(c) : ~Redundant(c, k)

Removal == INSTANCE RedundancyRemoval WITH
  circuit <- work, kept <- work, complete <- pc = "done"

(* On gates, too, barriers do what RedundancyRemoval says: every install   *)
(* of _cec_transaction keeps the function and makes the AAG smaller, and   *)
(* nothing but an irredundant circuit is done.  The work AAG is what a     *)
(* restart reads.                                                          *)
ImplementsRemoval == Removal!Spec
=============================================================================
