------------------------------- MODULE MCFib -------------------------------
EXTENDS FibTrie

CONSTANTS WriterNets, ReaderNets
VARIABLE unit
mcvars == <<unit, vars>>

DeepLeaves == {<<0, 0>>, <<16, 5>>, <<17, 5>>, <<20, 5>>}

MCInit == unit \in {"writer", "reader"} /\ Init
MCNext ==
  /\ UNCHANGED unit
  /\ \/ Carry
     \/ /\ unit = "writer"
        /\ \/ \E p \in WriterNets, f \in Fails : Insert(p, f) \/ Delete(p, f)
           \/ \E D \in SUBSET routes, f \in Fails : Flush(D, f)
     \/ /\ unit = "reader"
        /\ \/ \E p \in ReaderNets : Insert(p, 0) \/ Delete(p, 0)
           \/ Flush(ReaderNets, 0)
           \/ Read \/ Return
           \/ \E key \in Addresses : LookUp(key)
MCSpec == MCInit /\ [][MCNext]_mcvars
============================================================================
