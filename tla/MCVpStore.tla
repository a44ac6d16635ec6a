----------------------------- MODULE MCVpStore -----------------------------
(***************************************************************************)
(* Instances of VpStore for TLC.                                           *)
(***************************************************************************)
EXTENDS VpStore, TLC

CONSTANTS c1, c2, i1, i2, g1, g2

VARIABLE start      \* "flow", "writer" or "chain": what is taken from Next

(* "flow": one item, one union and one promotion with every verb, in an    *)
(* open run; the gate only ever takes assign, claim and promote_prepare    *)
(* away.                                                                   *)
FlowInit ==
  /\ run = "RUNNING" /\ stopFile = FALSE
  /\ StoreStart

FlowNext ==
  /\ \/ ItemStep(i1)
     \/ \E u \in Unions : UnionStep(u)
     \/ \E p \in Proofs : ProofStep(p)
     \/ \E m \in Promos : PromoStep(m)
  /\ group'[i1] # g2
  /\ \A u \in Unions : ustatus'[u] # "NONE" => uitems'[u] \subseteq {i1} /\ \A v \in Unions \ {u} : ustatus'[v] = "NONE"
  /\ \A p \in Proofs : pcand'[p] # c2
  /\ \A m, n \in Promos : m = n \/ "NONE" \in {mstatus'[m], mstatus'[n]}

(* "writer": one item, two groups and the run gate; no unions.             *)
WriterNext == ItemStep(i1) \/ (RunNext /\ UNCHANGED storeVars)

(* "chain": two items the senior has approved (PREPARING, each with its commit) in  *)
(* an open run: a state the verbs reach from Init.  From here only the     *)
(* verbs of the union path and the ways off it are taken.                  *)
ChainInit ==
  /\ run = "RUNNING" /\ stopFile = FALSE
  /\ status = [i \in Items |-> "PREPARING"]
  /\ group = [i \in Items |-> CHOOSE g \in Groups : TRUE]
  /\ builder = group /\ seen = group
  /\ cand = [i \in Items |-> CHOOSE c \in CommitsOf[i] : TRUE]
  /\ lastSubmit = cand
  /\ lastPlan = [i \in Items |-> CHOOSE r \in Reviewers : TRUE]
  /\ fresh = [i \in Items |-> FALSE] /\ round = [i \in Items |-> 0]
  /\ pausedFrom = [i \in Items |-> None] /\ unionOf = [i \in Items |-> None]
  /\ passed = {} /\ approvals = {}
  /\ ustatus = [u \in Unions |-> "NONE"] /\ uitems = [u \in Unions |-> {}]
  /\ ubase = [u \in Unions |-> None]
  /\ pstatus = [p \in Proofs |-> "NONE"] /\ pcand = [p \in Proofs |-> None]
  /\ mstatus = [m \in Promos |-> "NONE"] /\ mitems = [m \in Promos |-> {}]
  /\ msha = [m \in Promos |-> None]

ChainNext ==
  \/ \E i \in Items : ItemBlock(i)
  \/ \E i \in Items, r \in Reviewers, sha \in Unions, verdict \in {"APPROVED", "FINDINGS"} :
        CodeReview(i, r, sha, verdict)
  \/ \E u \in Unions : UnionStep(u)
  \/ \E p \in Proofs, sha \in Recorded : ProofRequest(p, sha)
  \/ \E p \in Proofs, new \in {"PASS", "UNKNOWN"} : ProofRecord(p, new)
  \/ \E m \in Promos : PromoStep(m)

StartIn(s) ==
  /\ start = s
  /\ CASE s = "flow" -> FlowInit [] s = "writer" -> Init [] s = "chain" -> ChainInit

NextIn ==
  /\ start' = start
  /\ \/ start = "flow" /\ FlowNext
     \/ start = "writer" /\ WriterNext
     \/ start = "chain" /\ ChainNext

Spec_Starts == (\E s \in {"flow", "writer", "chain"} : StartIn(s)) /\ [][NextIn]_<<vars, start>>

TwoItemCommits == (i1 :> {c1}) @@ (i2 :> {c2})
(* States that differ only in what no guard and no property of these runs  *)
(* reads are one: which way a proof failed, and what a live union was last *)
(* marked as.                                                              *)
ProofView(p) ==
  CASE pstatus[p] \in {"NONE", "PASS"} -> pstatus[p]
    [] pstatus[p] \in {"REQUESTED", "RUNNING"} -> "OPEN"
    [] OTHER -> "FAILED"
UnionView(u) == IF ustatus[u] \in {"NONE", "CANCELLED"} THEN ustatus[u] ELSE "LIVE"
StoreView ==
  <<start, runVars, itemVars, uitems, ubase, [u \in Unions |-> UnionView(u)],
    pcand, passed, [p \in Proofs |-> ProofView(p)], lastPlan, approvals, promoVars>>

Sym == Permutations(Unions) \cup Permutations(Proofs) \cup Permutations(Promos) \cup Permutations(Reviewers)
=============================================================================
