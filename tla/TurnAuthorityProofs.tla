------------------------ MODULE TurnAuthorityProofs ------------------------
(***************************************************************************)
(* The register of TurnAuthority keeps its writes in the order of the      *)
(* tokens.  TurnLeaseProofs carries this over to the turn's record.        *)
(***************************************************************************)
EXTENDS TurnAuthority, TLAPS

LEMMA TokenInit == Init => TokenInv
  BY DEF Init, TokenInv, WritesInOrder

LEMMA OwnerWriteInv ==
  ASSUME TokenInv, OwnerWrites, UNCHANGED issued, owner' \in {0, owner}
  PROVE  TokenInv'
<1>1. writes' = Append(writes, owner) /\ owner \in Nat /\ owner # 0
  BY DEF OwnerWrites, TokenInv
<1>2. /\ writes' \in Seq(Nat) /\ Len(writes') = Len(writes) + 1
      /\ \A i \in 1 .. Len(writes) : writes'[i] = writes[i]
      /\ writes'[Len(writes) + 1] = owner
  BY <1>1 DEF TokenInv
<1>3. \A i \in 1 .. Len(writes') : writes'[i] <= owner /\ writes'[i] <= issued
  BY <1>1, <1>2 DEF TokenInv
<1>4. WritesInOrder'
  <2>1. SUFFICES ASSUME NEW i \in 1 .. Len(writes'), NEW j \in 1 .. Len(writes'), i <= j
                 PROVE  writes'[i] <= writes'[j]
    BY DEF WritesInOrder
  <2>2. CASE j = Len(writes) + 1
    BY <1>2, <1>3, <2>2
  <2>3. CASE j # Len(writes) + 1
    <3>1. i \in 1 .. Len(writes) /\ j \in 1 .. Len(writes)
      BY <1>2, <2>1, <2>3 DEF TokenInv
    <3>2. QED
      BY <1>2, <2>1, <3>1 DEF TokenInv, WritesInOrder
  <2>4. QED
    BY <2>2, <2>3
<1>5. QED
  BY <1>1, <1>2, <1>3, <1>4 DEF TokenInv

LEMMA TokenStep == TokenInv /\ [Next]_vars => TokenInv'
<1> SUFFICES ASSUME TokenInv, [Next]_vars PROVE TokenInv'
  OBVIOUS
<1>1. CASE Grant
  BY <1>1 DEF Grant, TokenInv, WritesInOrder
<1>2. CASE Release
  BY <1>2 DEF Release, TokenInv, WritesInOrder
<1>3. CASE Write
  BY <1>3, OwnerWriteInv DEF Write
<1>4. CASE Close /\ OwnerWrites
  BY <1>4, OwnerWriteInv DEF Close
<1>5. CASE Close /\ UNCHANGED writes
  BY <1>5 DEF Close, TokenInv, WritesInOrder
<1>6. CASE Reopen
  BY <1>6 DEF Reopen, TokenInv, WritesInOrder
<1>7. CASE UNCHANGED vars
  BY <1>7 DEF vars, TokenInv, WritesInOrder
<1>8. QED
  BY <1>1, <1>2, <1>3, <1>4, <1>5, <1>6, <1>7 DEF Next, Close

\* The register never takes a write of an earlier owner after a later one's.
THEOREM TokensWriteInOrder == Spec => []WritesInOrder
<1>1. Spec => []TokenInv
  BY TokenInit, TokenStep, PTL DEF Spec
<1>2. TokenInv => WritesInOrder
  BY DEF TokenInv
<1>3. QED
  BY <1>1, <1>2, PTL
=============================================================================
