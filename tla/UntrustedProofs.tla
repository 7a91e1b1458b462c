--------------------------- MODULE UntrustedProofs ---------------------------
(***************************************************************************)
(* Proofs about Untrusted, for blocks nested to any depth, any text and any *)
(* server.                                                                 *)
(*                                                                         *)
(* Two things are followed through every step.  What was done in a block   *)
(* that is not settled: a text's is inside some read-only block, which only *)
(* rolls back, and the caller's own is inside none - as long as the server  *)
(* has the blocks the driver has, and where it has not the connection is   *)
(* marked.  And what a call of run_untrusted has still to put back, by the  *)
(* step it is in.                                                          *)
(*                                                                         *)
(* Then about UntrustedText and Cypher, for every text: that what the      *)
(* driver reads in it is what the server does.                             *)
(***************************************************************************)
EXTENDS Untrusted, UntrustedText, Cypher, SequenceTheorems, WellFoundedInduction, TLAPS

(* Whether one of the outermost l blocks is read-only.                     *)
Within(l) == \E i \in 1..Depth : i <= l /\ blocks[i].kind = "others"

(* The server has the driver's blocks, or fewer and the connection is      *)
(* marked; nothing is done in a block it has not.                          *)
Levels ==
    /\ known <= Depth /\ (~cancelled => known = Depth)
    /\ \A l \in 0..MaxBlocks : l > known => pending[l] = {}

(* _agens_read_only is set while a read-only block is open, and every block *)
(* found it as those around it had left it.                                *)
Holdings ==
    /\ \A i \in 1..Depth : blocks[i].outer # NoBlock <=> Within(i - 1)
    /\ holding # NoBlock <=> Within(Depth)

(* What is not settled, and where it was done.                             *)
TextsInside ==
    ~cancelled =>
        \A l \in 0..MaxBlocks :
            pending[l] \subseteq {"own"} \/ Within(l) \/ pc = "cleaning"
OwnOutside == ~cancelled => \A l \in 1..MaxBlocks : "own" \in pending[l] => ~Within(l)

(* A call is made with no block open, by a borrower.                       *)
Calling == pc # "caller" => blocks = <<>> /\ text \in Texts /\ ~fresh

(* What the server's transaction is, by the step of the call.              *)
Transaction ==
    /\ guarded => tx # "idle"
    /\ pc \in {"asking", "confirming", "switching", "wrapped", "opening", "writing"} => ~guarded
    /\ pc = "asking" => tx = "idle"
    /\ pc = "streaming" => tx = "open"
    /\ pc \in {"confirming", "switching"} => tx = "idle" \/ ~auto

(* A write is on its way only to a server that was asked.                  *)
Checked ==
    /\ enforced = "yes" => release.enforces
    /\ pc = "switching" /\ writes => release.enforces \/ tx # "idle"

Excused == cancelled \/ slipped \cap {"streamed", "locked", "interrupted"} # {}
Cut == cancelled \/ "interrupted" \in slipped

(* What a call has still to put back.                                      *)
LockReturned == lock => ran \/ Excused \/ pc = "cleaning"
AutoReturned ==
    /\ pc \in {"caller", "asking", "confirming", "switching"} => auto = home \/ Cut
    /\ pc \in {"wrapped", "opening", "writing", "restoring"} => tx = "idle" \/ auto = home \/ Cut

FreshIsClean ==
    fresh => /\ blocks = <<>> /\ ~cancelled /\ tx = "idle"
             /\ lock => slipped \cap {"streamed", "locked", "interrupted"} # {}
             /\ auto # home => "interrupted" \in slipped

IInv ==
    /\ TypeOK /\ Levels /\ Holdings /\ TextsInside /\ OwnOutside /\ Calling /\ Transaction
    /\ Checked /\ LockReturned /\ AutoReturned /\ FreshIsClean
    /\ TheServerDecides /\ BoundaryKept

-----------------------------------------------------------------------------
LEMMA InitIInv == Init => IInv
<1> SUFFICES ASSUME Init PROVE IInv
  OBVIOUS
<1> USE UntrustedAssumption DEF UntrustedAssumption, Init
<1>1. TypeOK
  BY DEF TypeOK, Nothing, Effects
<1>2. Levels /\ Holdings /\ TextsInside /\ OwnOutside
  BY DEF Levels, Holdings, TextsInside, OwnOutside, Within, Depth, Nothing
<1>3. Calling /\ Transaction /\ Checked /\ LockReturned /\ AutoReturned /\ FreshIsClean
  BY DEF Calling, Transaction, Checked, LockReturned, AutoReturned, FreshIsClean, Excused, Cut
<1>4. TheServerDecides /\ BoundaryKept
  BY DEF TheServerDecides, HeldByTheServer, WritesWhereChecked, BoundaryKept, Unmarked, Depth
<1> QED BY <1>1, <1>2, <1>3, <1>4 DEF IInv

-----------------------------------------------------------------------------
(* What a text does to the server's transaction: it ends it, it does       *)
(* something in it, or it does something where none is open.               *)
Ended ==
    /\ tx' = "idle" /\ guarded' = FALSE /\ known' = 0 /\ pending' = Nothing
    /\ outlived' = outlived \cup (Committed \ {"own"})
DidInside ==
    /\ tx' = Begun /\ Begun = "open" /\ UNCHANGED <<guarded, known, outlived>>
    /\ \E done \in SUBSET {"write", "setting"} : pending' = [pending EXCEPT ![known] = @ \cup done]
DidOutside ==
    /\ tx = "idle" /\ tx' = "idle" /\ UNCHANGED <<guarded, known, pending>>
    /\ \E done \in SUBSET {"write", "setting"} : outlived' = outlived \cup done
Failed ==
    /\ tx' = IF Begun = "idle" THEN "idle" ELSE "failed"
    /\ UNCHANGED <<guarded, known, pending, outlived>>

LEMMA TextRuns ==
    ASSUME TypeOK, NEW t \in Texts, Runs(t)
    PROVE  (Ended \/ DidInside \/ DidOutside) /\ lock' = (lock \/ t.does = "lock")
<1>1. Begun \in {"idle", "open"} /\ (Begun = "idle" => tx = "idle")
  BY DEF Runs, Refused, Begun, TypeOK
<1>2. Change(t) \in SUBSET {"write", "setting"}
  BY DEF Change
<1>3. CASE t.does = "ending" /\ Begun = "open" /\ Settled /\ outlived' = outlived \cup (Committed \ {"own"})
  BY <1>3 DEF Runs, Settled, Ended
<1>4. CASE /\ tx' = Begun /\ UNCHANGED <<guarded, known>>
           /\ IF Begun = "open"
              THEN /\ pending' = [pending EXCEPT ![known] = @ \cup Change(t)]
                   /\ UNCHANGED outlived
              ELSE /\ outlived' = outlived \cup Change(t)
                   /\ UNCHANGED pending
  BY <1>1, <1>2, <1>4 DEF Runs, DidInside, DidOutside
<1> QED BY <1>3, <1>4 DEF Runs

LEMMA TextFails ==
    ASSUME TypeOK, NEW t \in Texts, Fails(t)
    PROVE  Failed /\ lock' \in {lock, TRUE}
BY DEF Fails, Failed, TypeOK

ServerTypes ==
    /\ tx \in {"idle", "open", "failed"} /\ guarded \in BOOLEAN
    /\ known \in 0..MaxBlocks
    /\ pending \in [0..MaxBlocks -> SUBSET Effects] /\ outlived \subseteq Effects \cup {"split"}

LEMMA NothingType == Nothing \in [0..MaxBlocks -> SUBSET Effects]
BY DEF Nothing

LEMMA CommittedType == ServerTypes => Committed \subseteq Effects
BY DEF ServerTypes, Committed

LEMMA TextTypes ==
    ASSUME ServerTypes, Ended \/ DidInside \/ DidOutside \/ Failed
    PROVE  ServerTypes'
<1> USE UntrustedAssumption DEF UntrustedAssumption, ServerTypes
<1>1. CASE Ended
  <2>1. pending' \in [0..MaxBlocks -> SUBSET Effects]
    BY <1>1, NothingType DEF Ended
  <2>2. outlived' \subseteq Effects \cup {"split"}
    BY <1>1, CommittedType DEF Ended
  <2>3. tx' = "idle" /\ guarded' = FALSE /\ known' \in 0..MaxBlocks
    BY <1>1 DEF Ended
  <2> QED BY <2>1, <2>2, <2>3
<1>2. CASE DidInside
  <2>1. PICK done \in SUBSET {"write", "setting"} : pending' = [pending EXCEPT ![known] = @ \cup done]
    BY <1>2 DEF DidInside
  <2>2. pending' \in [0..MaxBlocks -> SUBSET Effects]
    BY <2>1 DEF Effects
  <2> QED BY <1>2, <2>2 DEF DidInside, Begun
<1>3. CASE DidOutside
  BY <1>3 DEF DidOutside, Effects
<1>4. CASE Failed
  BY <1>4 DEF Failed, Begun
<1> QED BY <1>1, <1>2, <1>3, <1>4

-----------------------------------------------------------------------------
(* Blocks: what one more, and one fewer, is to the others.                 *)
LEMMA DepthType == TypeOK => Depth \in Nat /\ Depth <= MaxBlocks
BY DEF TypeOK, Depth

LEMMA BlockOpened ==
    ASSUME TypeOK, NEW b, blocks' = Append(blocks, b)
    PROVE  /\ Depth' = Depth + 1 /\ blocks'[Depth + 1] = b
           /\ \A i \in 1..Depth : blocks'[i] = blocks[i]
           /\ \A l \in Nat : Within(l)' <=> Within(l) \/ (l > Depth /\ b.kind = "others")
<1>1. /\ Depth \in Nat /\ Depth' = Depth + 1 /\ blocks'[Depth + 1] = b
      /\ \A i \in 1..Depth : blocks'[i] = blocks[i]
  BY DEF TypeOK, Depth
<1>2. ASSUME NEW l \in Nat
      PROVE  Within(l)' <=> Within(l) \/ (l > Depth /\ b.kind = "others")
  <2>1. Within(l)' <=> \E i \in 1..(Depth + 1) : i <= l /\ blocks'[i].kind = "others"
    BY <1>1 DEF Within
  <2>2. (\E i \in 1..(Depth + 1) : i <= l /\ blocks'[i].kind = "others")
          <=> (\E i \in 1..Depth : i <= l /\ blocks'[i].kind = "others")
              \/ (Depth + 1 <= l /\ blocks'[Depth + 1].kind = "others")
    <3>1. 1..(Depth + 1) = 1..Depth \cup {Depth + 1}
      BY <1>1
    <3> QED BY <3>1
  <2>3. (\E i \in 1..Depth : i <= l /\ blocks'[i].kind = "others") <=> Within(l)
    BY <1>1 DEF Within
  <2>4. Depth + 1 <= l <=> l > Depth
    BY <1>1
  <2> QED BY <1>1, <2>1, <2>2, <2>3, <2>4
<1> QED BY <1>1, <1>2

Block == [kind : {"own", "others"}, outer : {NoBlock, "kept", "refusing"}]

LEMMA BlockType == TypeOK => blocks \in Seq(Block) /\ \A i \in 1..Depth : blocks[i] \in Block
<1> SUFFICES ASSUME TypeOK PROVE blocks \in Seq(Block) /\ \A i \in 1..Depth : blocks[i] \in Block
  OBVIOUS
<1>1. blocks \in Seq(Block)
  BY DEF TypeOK, Block
<1> QED BY <1>1 DEF Depth

LEMMA Prefix ==
    ASSUME NEW S, NEW s \in Seq(S), NEW k \in Nat, k <= Len(s)
    PROVE  /\ SubSeq(s, 1, k) \in Seq(S) /\ Len(SubSeq(s, 1, k)) = k
           /\ \A i \in 1..k : SubSeq(s, 1, k)[i] = s[i]
<1>1. 1 \in Int /\ k \in Int /\ \A i \in 1..k : s[i] \in S
  OBVIOUS
<1>2. SubSeq(s, 1, k) \in Seq(S)
  BY <1>1, SubSeqProperties
<1>3. Len(SubSeq(s, 1, k)) = k
  OBVIOUS
<1>4. \A i \in 1..k : SubSeq(s, 1, k)[i] = s[i]
  OBVIOUS
<1> QED BY <1>2, <1>3, <1>4

LEMMA BlockClosed ==
    ASSUME TypeOK, Depth > 0, blocks' = SubSeq(blocks, 1, Depth - 1)
    PROVE  /\ Depth' = Depth - 1 /\ blocks' \in Seq(Block)
           /\ \A i \in 1..(Depth - 1) : blocks'[i] = blocks[i]
           /\ \A l \in 0..(Depth - 1) : Within(l)' <=> Within(l)
           /\ Within(Depth) <=> Within(Depth - 1) \/ Inner.kind = "others"
<1>1. /\ Depth \in Nat /\ Depth' = Depth - 1
      /\ \A i \in 1..(Depth - 1) : blocks'[i] = blocks[i]
      /\ blocks' \in Seq(Block)
  <2>1. blocks \in Seq(Block) /\ Depth = Len(blocks) /\ Depth \in Nat
    BY BlockType, DepthType DEF Depth
  <2>2. Depth - 1 \in Nat /\ Depth - 1 <= Len(blocks)
    BY <2>1
  <2>3. /\ blocks' \in Seq(Block) /\ Len(blocks') = Depth - 1
        /\ \A i \in 1..(Depth - 1) : blocks'[i] = blocks[i]
    BY <2>1, <2>2, Prefix
  <2> QED BY <2>1, <2>3 DEF Depth
<1>2. ASSUME NEW l \in 0..(Depth - 1) PROVE Within(l)' <=> Within(l)
  BY <1>1 DEF Within
<1>3. Within(Depth) <=> Within(Depth - 1) \/ Inner.kind = "others"
  <2>1. Within(Depth) <=> \E i \in 1..Depth : blocks[i].kind = "others"
    BY <1>1 DEF Within
  <2>2. Within(Depth - 1) <=> \E i \in 1..(Depth - 1) : blocks[i].kind = "others"
    BY <1>1 DEF Within
  <2> QED BY <1>1, <2>1, <2>2 DEF Inner
<1> QED BY <1>1, <1>2, <1>3

(* With no block open nothing is read-only, and nothing done at any level. *)
LEMMA NoBlocks ==
    ASSUME IInv, blocks = <<>>
    PROVE  /\ Depth = 0 /\ known = 0 /\ holding = NoBlock
           /\ \A l \in 0..MaxBlocks : ~Within(l) /\ (l > 0 => pending[l] = {})
<1>1. Depth = 0
  BY DEF Depth
<1> QED BY <1>1 DEF IInv, TypeOK, Levels, Holdings, Within

-----------------------------------------------------------------------------
(* The parts of TypeOK: the server's transaction, the blocks, the marks,   *)
(* and the call.                                                           *)
BlockTypes ==
    /\ blocks \in Seq(Block) /\ Len(blocks) <= MaxBlocks
    /\ holding \in {NoBlock, "kept", "refusing"}
MarkTypes ==
    /\ lock \in BOOLEAN /\ release \in Releases /\ fit \in BOOLEAN
    /\ ran \in BOOLEAN /\ cancelled \in BOOLEAN
    /\ enforced \in {"unasked", "yes", "no"} /\ asked \in BOOLEAN
    /\ auto \in BOOLEAN /\ home \in BOOLEAN
    /\ fresh \in BOOLEAN /\ slipped \subseteq {"interrupted", "streamed", "locked", "set"}
CallTypes ==
    /\ pc \in Awaiting \cup {"caller", "confirming", "switching", "restoring"}
    /\ text \in Texts \cup {NoText} /\ writes \in BOOLEAN
    /\ then \in {"answer", "raise", "stream"}

LEMMA TypeParts == TypeOK <=> ServerTypes /\ BlockTypes /\ MarkTypes /\ CallTypes
BY DEF TypeOK, ServerTypes, BlockTypes, Block, MarkTypes, CallTypes

LEMMA TypePartsNext == TypeOK' <=> (ServerTypes /\ BlockTypes /\ MarkTypes /\ CallTypes)'
BY DEF TypeOK, ServerTypes, BlockTypes, Block, MarkTypes, CallTypes

(* Where a call goes next, it leaves behind a text or the lack of one.     *)
LEMMA GoesType ==
    ASSUME CallTypes, NEW step, Goes(step),
           step \in Awaiting \cup {"caller", "confirming", "switching", "restoring"},
           then' \in {"answer", "raise", "stream"}
    PROVE  CallTypes'
BY DEF CallTypes, Goes

LEMMA BegunType == TypeOK => Begun \in {"idle", "open", "failed"}
BY DEF TypeOK, Begun

-----------------------------------------------------------------------------
(* The blocks as a step leaves them where none is open: what was done      *)
(* outside any block stays, or is settled.                                 *)
Blocks == Levels /\ Holdings /\ TextsInside /\ OwnOutside /\ HeldByTheServer

LEMMA NoBlockStep ==
    ASSUME IInv, blocks = <<>>, UNCHANGED <<blocks, holding>>,
           \/ pending' = Nothing /\ known' = 0
           \/ /\ UNCHANGED <<known, pending>> /\ (cancelled => cancelled')
              /\ pc # "cleaning" \/ pc' = "cleaning" \/ cancelled'
    PROVE  Blocks'
<1> USE UntrustedAssumption DEF UntrustedAssumption
<1>1. Depth = 0 /\ Depth' = 0 /\ holding = NoBlock /\ known' = 0
  BY NoBlocks DEF Depth
<1>2. \A l \in 0..MaxBlocks : ~Within(l)' /\ (l > 0 => pending'[l] = {})
  BY <1>1, NoBlocks DEF Within, Nothing
<1>3. Levels' /\ Holdings'
  BY <1>1, <1>2 DEF Levels, Holdings, Within
<1>4. OwnOutside' /\ HeldByTheServer'
  BY <1>1, <1>2 DEF OwnOutside, HeldByTheServer
<1>5. TextsInside'
  <2>1. CASE pending' = Nothing
    BY <2>1 DEF TextsInside, Nothing
  <2>2. CASE /\ UNCHANGED <<known, pending>> /\ (cancelled => cancelled')
             /\ pc # "cleaning" \/ pc' = "cleaning" \/ cancelled'
    BY <2>2, <1>1, NoBlocks DEF IInv, TextsInside
  <2> QED BY <2>1, <2>2
<1> QED BY <1>3, <1>4, <1>5 DEF Blocks

(* What is left to show of a step, by its parts.                           *)
LEMMA Parts ==
    ASSUME (ServerTypes /\ BlockTypes /\ MarkTypes /\ CallTypes)', Blocks',
           (Calling /\ Transaction /\ Checked)', (LockReturned /\ AutoReturned /\ FreshIsClean)',
           (WritesWhereChecked /\ BoundaryKept)'
    PROVE  IInv'
BY TypePartsNext DEF IInv, Blocks, TheServerDecides

LEMMA SettledTypes ==
    ASSUME Settled, outlived' \subseteq Effects \cup {"split"}
    PROVE  ServerTypes'
<1>1. pending' \in [0..MaxBlocks -> SUBSET Effects]
  BY NothingType DEF Settled
<1>2. tx' = "idle" /\ guarded' = FALSE /\ known' \in 0..MaxBlocks
  BY UntrustedAssumption DEF Settled, UntrustedAssumption
<1> QED BY <1>1, <1>2 DEF ServerTypes

-----------------------------------------------------------------------------
(* The steps of a call, and the pool's.                                    *)
LEMMA StepCall ==
    ASSUME IInv, NEW t \in Texts, NEW allowed \in BOOLEAN, Call(t, allowed)
    PROVE  IInv'
<1> USE DEF IInv, Call, AtTop, Used, server, given, marks, answers, call
<1>1. ServerTypes'
  BY TypeParts DEF ServerTypes
<1>2. BlockTypes'
  BY TypeParts DEF BlockTypes
<1>3. MarkTypes'
  BY TypeParts DEF MarkTypes
<1>4. CallTypes'
  BY TypeParts DEF CallTypes, Awaiting
<1>5. Blocks'
  BY NoBlockStep DEF Calling
<1>6. Calling' /\ Transaction' /\ Checked'
  BY DEF TypeOK, Calling, Transaction, Checked
<1>7. LockReturned' /\ AutoReturned' /\ FreshIsClean'
  BY DEF TypeOK, Calling, LockReturned, AutoReturned, FreshIsClean, Excused, Cut
<1>8. WritesWhereChecked' /\ BoundaryKept'
  BY DEF TypeOK, Transaction, Checked, TheServerDecides, WritesWhereChecked, BoundaryKept, Unmarked
<1> QED BY <1>1, <1>2, <1>3, <1>4, <1>5, <1>6, <1>7, <1>8, Parts

LEMMA StepAskRole ==
    ASSUME IInv, NEW accepted \in BOOLEAN, AskRole(accepted)
    PROVE  IInv'
<1> USE DEF IInv, AskRole, Goes, server, given, marks, answers, call
<1>1. ServerTypes'
  BY TypeParts DEF Begun, ServerTypes
<1>2. BlockTypes'
  BY TypeParts DEF BlockTypes
<1>3. MarkTypes'
  BY TypeParts DEF MarkTypes
<1>4. CallTypes'
  BY TypeParts DEF CallTypes, Awaiting
<1>5. Blocks'
  BY NoBlockStep DEF Begun, Calling
<1>6. Calling' /\ Transaction' /\ Checked'
  BY DEF Begun, TypeOK, Calling, Transaction, Checked
<1>7. LockReturned' /\ AutoReturned' /\ FreshIsClean'
  BY DEF Begun, TypeOK, Calling, LockReturned, AutoReturned, FreshIsClean, Excused, Cut
<1>8. WritesWhereChecked' /\ BoundaryKept'
  BY DEF Begun, TypeOK, Transaction, Checked, TheServerDecides, WritesWhereChecked, BoundaryKept, Unmarked
<1> QED BY <1>1, <1>2, <1>3, <1>4, <1>5, <1>6, <1>7, <1>8, Parts

LEMMA StepConfirm ==
    ASSUME IInv, Confirm
    PROVE  IInv'
<1> USE DEF IInv, Confirm, Probed, Goes, server, given, marks, answers, call
<1>1. ServerTypes'
  BY TypeParts DEF ServerTypes
<1>2. BlockTypes'
  BY TypeParts DEF BlockTypes
<1>3. MarkTypes'
  BY TypeParts DEF MarkTypes
<1>4. CallTypes'
  BY TypeParts DEF CallTypes, Awaiting
<1>5. Blocks'
  BY NoBlockStep DEF Calling
<1>6. Calling' /\ Transaction' /\ Checked'
  BY DEF TypeOK, Calling, Transaction, Checked
<1>7. LockReturned' /\ AutoReturned' /\ FreshIsClean'
  BY DEF TypeOK, Calling, LockReturned, AutoReturned, FreshIsClean, Excused, Cut
<1>8. WritesWhereChecked' /\ BoundaryKept'
  BY DEF TypeOK, Transaction, Checked, TheServerDecides, WritesWhereChecked, BoundaryKept, Unmarked
<1> QED BY <1>1, <1>2, <1>3, <1>4, <1>5, <1>6, <1>7, <1>8, Parts

LEMMA StepSwitch ==
    ASSUME IInv, NEW wrappable \in BOOLEAN, Switch(wrappable)
    PROVE  IInv'
<1> USE DEF IInv, Switch, Goes, server, given, marks, answers, call
<1>1. ServerTypes'
  BY TypeParts DEF ServerTypes
<1>2. BlockTypes'
  BY TypeParts DEF BlockTypes
<1>3. MarkTypes'
  BY TypeParts DEF MarkTypes
<1>4. CallTypes'
  BY TypeParts DEF CallTypes, Awaiting
<1>5. Blocks'
  BY NoBlockStep DEF Calling
<1>6. Calling' /\ Transaction' /\ Checked'
  BY DEF TypeOK, Calling, Transaction, Checked
<1>7. LockReturned' /\ AutoReturned' /\ FreshIsClean'
  BY DEF TypeOK, Calling, LockReturned, AutoReturned, FreshIsClean, Excused, Cut
<1>8. WritesWhereChecked' /\ BoundaryKept'
  BY DEF TypeOK, Transaction, Checked, TheServerDecides, WritesWhereChecked, BoundaryKept, Unmarked
<1> QED BY <1>1, <1>2, <1>3, <1>4, <1>5, <1>6, <1>7, <1>8, Parts

LEMMA StepRunWrapped ==
    ASSUME IInv, RunWrapped
    PROVE  IInv'
<1> USE DEF IInv, RunWrapped, Goes, server, given, marks, answers, call
<1>1. ServerTypes'
  BY TypeParts DEF ServerTypes
<1>2. BlockTypes'
  BY TypeParts DEF BlockTypes
<1>3. MarkTypes'
  BY TypeParts DEF MarkTypes
<1>4. CallTypes'
  BY TypeParts DEF CallTypes, Awaiting
<1>5. Blocks'
  BY NoBlockStep DEF Calling
<1>6. Calling' /\ Transaction' /\ Checked'
  BY DEF TypeOK, Calling, Transaction, Checked
<1>7. LockReturned' /\ AutoReturned' /\ FreshIsClean'
  BY DEF TypeOK, Calling, LockReturned, AutoReturned, FreshIsClean, Excused, Cut
<1>8. WritesWhereChecked' /\ BoundaryKept'
  BY DEF TypeOK, Transaction, Checked, TheServerDecides, WritesWhereChecked, BoundaryKept, Unmarked
<1> QED BY <1>1, <1>2, <1>3, <1>4, <1>5, <1>6, <1>7, <1>8, Parts

LEMMA StepOpenStream ==
    ASSUME IInv, OpenStream
    PROVE  IInv'
<1> USE DEF IInv, OpenStream, Goes, server, given, marks, answers, call
<1>1. ServerTypes'
  BY TypeParts DEF ServerTypes
<1>2. BlockTypes'
  BY TypeParts DEF BlockTypes
<1>3. MarkTypes'
  BY TypeParts DEF MarkTypes
<1>4. CallTypes'
  BY TypeParts DEF CallTypes, Awaiting
<1>5. Blocks'
  BY NoBlockStep DEF Calling
<1>6. Calling' /\ Transaction' /\ Checked'
  BY DEF TypeOK, Calling, Transaction, Checked
<1>7. LockReturned' /\ AutoReturned' /\ FreshIsClean'
  BY DEF TypeOK, Calling, LockReturned, AutoReturned, FreshIsClean, Excused, Cut
<1>8. WritesWhereChecked' /\ BoundaryKept'
  BY DEF TypeOK, Transaction, Checked, TheServerDecides, WritesWhereChecked, BoundaryKept, Unmarked
<1> QED BY <1>1, <1>2, <1>3, <1>4, <1>5, <1>6, <1>7, <1>8, Parts

LEMMA StepCleanUp ==
    ASSUME IInv, CleanUp
    PROVE  IInv'
<1> USE DEF IInv, CleanUp, Cleaned, Goes, server, given, marks, answers, call
<1>1. ServerTypes'
  BY TypeParts, SettledTypes DEF ServerTypes
<1>2. BlockTypes'
  BY TypeParts DEF BlockTypes
<1>3. MarkTypes'
  BY TypeParts DEF MarkTypes
<1>4. CallTypes'
  BY TypeParts DEF CallTypes, Awaiting
<1>5. Blocks'
  BY NoBlockStep DEF Settled, Calling
<1>6. Calling' /\ Transaction' /\ Checked'
  BY DEF Settled, TypeOK, Calling, Transaction, Checked
<1>7. LockReturned' /\ AutoReturned' /\ FreshIsClean'
  BY DEF Settled, TypeOK, Calling, LockReturned, AutoReturned, FreshIsClean, Excused, Cut
<1>8. WritesWhereChecked' /\ BoundaryKept'
  BY DEF Settled, TypeOK, Transaction, Checked, TheServerDecides, WritesWhereChecked, BoundaryKept, Unmarked
<1> QED BY <1>1, <1>2, <1>3, <1>4, <1>5, <1>6, <1>7, <1>8, Parts

LEMMA StepWrite ==
    ASSUME IInv, Write
    PROVE  IInv'
<1> USE DEF IInv, Write, Split, Change, Goes, server, given, marks, answers, call
<1>1. ServerTypes'
  <2>1. outlived' \subseteq outlived \cup {"split", "setting"}
    OBVIOUS
  <2> QED BY <2>1, TypeParts DEF ServerTypes, Effects
<1>2. BlockTypes'
  BY TypeParts DEF BlockTypes
<1>3. MarkTypes'
  BY TypeParts DEF MarkTypes
<1>4. CallTypes'
  BY TypeParts DEF CallTypes, Awaiting
<1>5. Blocks'
  BY NoBlockStep DEF Calling
<1>6. Calling' /\ Transaction' /\ Checked'
  BY DEF TypeOK, Calling, Transaction, Checked
<1>7. LockReturned' /\ AutoReturned' /\ FreshIsClean'
  BY DEF TypeOK, Calling, LockReturned, AutoReturned, FreshIsClean, Excused, Cut
<1>8. WritesWhereChecked' /\ BoundaryKept'
  BY DEF TypeOK, Transaction, Checked, TheServerDecides, WritesWhereChecked, BoundaryKept, Unmarked
<1> QED BY <1>1, <1>2, <1>3, <1>4, <1>5, <1>6, <1>7, <1>8, Parts

LEMMA StepRestore ==
    ASSUME IInv, Restore
    PROVE  IInv'
<1> USE DEF IInv, Restore, Goes, server, given, marks, answers, call
<1>1. ServerTypes'
  BY TypeParts DEF ServerTypes
<1>2. BlockTypes'
  BY TypeParts DEF BlockTypes
<1>3. MarkTypes'
  BY TypeParts DEF MarkTypes
<1>4. CallTypes'
  BY TypeParts DEF CallTypes, Awaiting
<1>5. Blocks'
  BY NoBlockStep DEF Calling
<1>6. Calling' /\ Transaction' /\ Checked'
  BY DEF TypeOK, Calling, Transaction, Checked
<1>7. LockReturned' /\ AutoReturned' /\ FreshIsClean'
  BY DEF TypeOK, Calling, LockReturned, AutoReturned, FreshIsClean, Excused, Cut
<1>8. WritesWhereChecked' /\ BoundaryKept'
  BY DEF TypeOK, Transaction, Checked, TheServerDecides, WritesWhereChecked, BoundaryKept, Unmarked
<1> QED BY <1>1, <1>2, <1>3, <1>4, <1>5, <1>6, <1>7, <1>8, Parts

LEMMA StepInterrupt ==
    ASSUME IInv, Interrupt, InterruptMarked \/ InterruptUnmarked
    PROVE  IInv'
<1> USE DEF IInv, Interrupt, Goes, server, given, marks, answers, call
<1>1. CASE InterruptMarked
  <2> USE <1>1 DEF InterruptMarked
  <2>1. ServerTypes'
    BY TypeParts DEF Begun, ServerTypes
  <2>2. BlockTypes'
    BY TypeParts DEF BlockTypes
  <2>3. MarkTypes'
    BY TypeParts DEF MarkTypes
  <2>4. CallTypes'
    BY TypeParts DEF CallTypes, Awaiting
  <2>5. Blocks'
    BY NoBlockStep DEF Begun, Calling
  <2>6. Calling' /\ Transaction' /\ Checked'
    BY DEF Begun, TypeOK, Calling, Transaction, Checked
  <2>7. LockReturned' /\ AutoReturned' /\ FreshIsClean'
    BY DEF Begun, TypeOK, Calling, LockReturned, AutoReturned, FreshIsClean, Excused, Cut
  <2>8. WritesWhereChecked' /\ BoundaryKept'
    BY DEF Begun, TypeOK, Transaction, Checked, TheServerDecides, WritesWhereChecked, BoundaryKept
  <2> QED BY <2>1, <2>2, <2>3, <2>4, <2>5, <2>6, <2>7, <2>8, Parts
<1>2. CASE InterruptUnmarked
  <2> USE <1>2 DEF InterruptUnmarked
  <2>1. /\ pc \in {"wrapped", "writing"} /\ tx' \in {"idle", "open", "failed"}
        /\ lock' \in {lock, lock \/ text.does = "lock"}
        /\ UNCHANGED outlived \/ outlived' = outlived \cup {split \in {"split"} : text.does = "ending"}
    BY DEF InterruptWrapped, InterruptWrite
  <2>2. outlived \subseteq outlived' /\ outlived' \subseteq outlived \cup {"split"}
    BY <2>1
  <2>3. ServerTypes'
    BY <2>1, <2>2, TypeParts DEF ServerTypes, Effects
  <2>4. BlockTypes'
    BY TypeParts DEF BlockTypes
  <2>5. MarkTypes'
    BY <2>1, TypeParts DEF MarkTypes
  <2>6. CallTypes'
    BY TypeParts DEF CallTypes, Awaiting
  <2>7. Blocks'
    <3>1. /\ blocks = <<>> /\ UNCHANGED <<blocks, holding, known, pending>>
          /\ cancelled => cancelled'
      <4>1. blocks = <<>> /\ UNCHANGED <<blocks, holding, known, pending>>
        BY <2>1 DEF Calling
      <4>2. cancelled' = cancelled \/ cancelled' = TRUE
        OBVIOUS
      <4> QED BY <4>1, <4>2
    <3> QED BY <2>1, <3>1, NoBlockStep
  <2>8. Calling' /\ Transaction' /\ Checked'
    BY <2>1 DEF TypeOK, Calling, Transaction, Checked
  <2>9. LockReturned' /\ AutoReturned' /\ FreshIsClean'
    BY <2>1 DEF TypeOK, Calling, LockReturned, AutoReturned, FreshIsClean, Excused, Cut
  <2>10. WritesWhereChecked'
    BY DEF WritesWhereChecked
  <2>11. BoundaryKept'
    <3>1. cancelled => cancelled'
      BY DEF TypeOK
    <3>2. Unmarked \subseteq Unmarked' /\ "split" \in Unmarked'
      BY DEF Unmarked
    <3>3. outlived \subseteq Unmarked \/ cancelled
      BY DEF BoundaryKept
    <3> QED BY <2>2, <3>1, <3>2, <3>3 DEF BoundaryKept
  <2> QED BY <2>3, <2>4, <2>5, <2>6, <2>7, <2>8, <2>9, <2>10, <2>11, Parts
<1> QED BY <1>1, <1>2

LEMMA StepLend ==
    ASSUME IInv, Lend
    PROVE  IInv'
<1> USE DEF IInv, Lend, AtTop, Unlocked, server, given, marks, answers, call
<1>1. ServerTypes'
  BY TypeParts, SettledTypes DEF ServerTypes
<1>2. BlockTypes'
  BY TypeParts DEF BlockTypes
<1>3. MarkTypes'
  BY TypeParts DEF MarkTypes
<1>4. CallTypes'
  BY TypeParts DEF CallTypes, Awaiting
<1>5. Blocks'
  BY NoBlockStep DEF Settled, Calling
<1>6. Calling' /\ Transaction' /\ Checked'
  BY DEF Settled, TypeOK, Calling, Transaction, Checked
<1>7. LockReturned' /\ AutoReturned' /\ FreshIsClean'
  BY DEF Settled, TypeOK, Calling, LockReturned, AutoReturned, FreshIsClean, Excused, Cut
<1>8. WritesWhereChecked' /\ BoundaryKept'
  BY DEF Settled, TypeOK, Transaction, Checked, TheServerDecides, WritesWhereChecked, BoundaryKept, Unmarked
<1> QED BY <1>1, <1>2, <1>3, <1>4, <1>5, <1>6, <1>7, <1>8, Parts

LEMMA StepReplace ==
    ASSUME IInv, Replace
    PROVE  IInv'
<1> USE DEF IInv, Replace, AtTop, server, given, marks, answers, call
<1>1. ServerTypes'
  BY TypeParts, SettledTypes DEF ServerTypes
<1>2. BlockTypes'
  BY TypeParts DEF BlockTypes
<1>3. MarkTypes'
  BY TypeParts DEF MarkTypes
<1>4. CallTypes'
  BY TypeParts DEF CallTypes, Awaiting
<1>5. Blocks'
  BY NoBlockStep DEF Settled, Calling
<1>6. Calling' /\ Transaction' /\ Checked'
  BY DEF Settled, TypeOK, Calling, Transaction, Checked
<1>7. LockReturned' /\ AutoReturned' /\ FreshIsClean'
  BY DEF Settled, TypeOK, Calling, LockReturned, AutoReturned, FreshIsClean, Excused, Cut
<1>8. WritesWhereChecked' /\ BoundaryKept'
  BY DEF Settled, TypeOK, Transaction, Checked, TheServerDecides, WritesWhereChecked, BoundaryKept, Unmarked
<1> QED BY <1>1, <1>2, <1>3, <1>4, <1>5, <1>6, <1>7, <1>8, Parts

-----------------------------------------------------------------------------
(* The steps that are taken with blocks open.                              *)
LEMMA StepOwnWork ==
    ASSUME IInv, OwnWork
    PROVE  IInv'
<1> USE DEF IInv, OwnWork, AtTop, Used, OpenHere, server, given, marks, answers, call
<1>1. ServerTypes'
  BY TypeParts DEF ServerTypes, Effects
<1>2. BlockTypes' /\ CallTypes'
  BY TypeParts DEF BlockTypes, CallTypes
<1>3. MarkTypes'
  BY TypeParts DEF MarkTypes
<1>4. Blocks'
  <2>1. Depth' = Depth /\ \A l \in Nat : Within(l)' <=> Within(l)
    BY DEF Depth, Within
  <2>2. /\ \A l \in 0..MaxBlocks : l # known => pending'[l] = pending[l]
        /\ pending'[known] = pending[known] \cup {"own"} /\ known \in 0..MaxBlocks
    BY DEF TypeOK
  <2>3. \A l \in 0..MaxBlocks : ~Within(l)
    BY DepthType DEF Within
  <2>4. Levels' /\ Holdings'
    BY <2>1, <2>2 DEF Levels, Holdings, Within, Depth
  <2>5. TextsInside' /\ OwnOutside'
    BY <2>1, <2>2, <2>3 DEF TextsInside, OwnOutside
  <2>6. HeldByTheServer'
    BY <2>1 DEF TheServerDecides, HeldByTheServer
  <2> QED BY <2>4, <2>5, <2>6 DEF Blocks
<1>5. Calling' /\ Transaction' /\ Checked'
  BY DEF TypeOK, Calling, Transaction, Checked
<1>6. LockReturned' /\ AutoReturned' /\ FreshIsClean'
  BY DEF TypeOK, Calling, LockReturned, AutoReturned, FreshIsClean, Excused, Cut
<1>7. WritesWhereChecked' /\ BoundaryKept'
  BY DEF TypeOK, TheServerDecides, WritesWhereChecked, BoundaryKept, Unmarked
<1> QED BY <1>1, <1>2, <1>3, <1>4, <1>5, <1>6, <1>7, Parts

LEMMA StepProbe ==
    ASSUME IInv, Probe
    PROVE  IInv'
<1> USE DEF IInv, Probe, AtTop, Used, server, given, marks, answers, call
<1>1. ServerTypes' /\ BlockTypes' /\ CallTypes'
  BY TypeParts DEF ServerTypes, BlockTypes, CallTypes
<1>2. MarkTypes'
  BY TypeParts DEF Probed, MarkTypes
<1>3. Blocks'
  BY DEF Blocks, Levels, Holdings, TextsInside, OwnOutside, Within, Depth, TheServerDecides,
         HeldByTheServer, OpenHere
<1>4. Calling' /\ Transaction' /\ Checked'
  BY DEF Probed, TypeOK, Calling, Transaction, Checked
<1>5. LockReturned' /\ AutoReturned' /\ FreshIsClean'
  BY DEF LockReturned, AutoReturned, FreshIsClean, Excused, Cut
<1>6. WritesWhereChecked' /\ BoundaryKept'
  BY DEF TheServerDecides, WritesWhereChecked, BoundaryKept, Unmarked
<1> QED BY <1>1, <1>2, <1>3, <1>4, <1>5, <1>6, Parts

-----------------------------------------------------------------------------
(* The steps that run a text.                                              *)

(* A text adds what it does to the innermost block, and neither adds an    *)
(* "own" nor takes one away.                                               *)
Adds ==
    /\ UNCHANGED <<known, guarded>>
    /\ \A l \in 0..MaxBlocks :
          /\ l # known => pending'[l] = pending[l]
          /\ "own" \in pending'[l] <=> "own" \in pending[l]

LEMMA TextAdds ==
    ASSUME TypeOK, DidInside \/ DidOutside \/ Failed
    PROVE  Adds
<1>1. CASE DidInside
  <2>1. PICK done \in SUBSET {"write", "setting"} : pending' = [pending EXCEPT ![known] = @ \cup done]
    BY <1>1 DEF DidInside
  <2>2. pending \in [0..MaxBlocks -> SUBSET Effects] /\ "own" \notin done
    BY DEF TypeOK
  <2> QED BY <1>1, <2>1, <2>2 DEF DidInside, Adds
<1> QED BY <1>1 DEF DidOutside, Failed, Adds

LEMMA StatementDoes ==
    ASSUME TypeOK, NEW t \in Texts, Statement(t)
    PROVE  (Ended /\ cancelled') \/ DidInside \/ DidOutside \/ Failed
<1>1. CASE Runs(t) /\ cancelled' = (cancelled \/ tx' = "idle")
  BY <1>1, TextRuns DEF Ended
<1>2. CASE Fails(t)
  BY <1>2, TextFails
<1>3. CASE Runs(t) /\ cancelled' = TRUE
  BY <1>3, TextRuns
<1> QED BY <1>1, <1>2, <1>3 DEF Statement

LEMMA ChunksDo ==
    ASSUME TypeOK, NEW t \in Texts, ReadInChunks(t)
    PROVE  DidInside \/ Failed
<1>1. CASE Runs(t)
  <2>1. ~(t.does = "ending") /\ tx = "open"
    BY DEF ReadInChunks, InWrap
  <2>2. Ended => FALSE
    BY <1>1, <2>1 DEF Runs, Ended, Begun
  <2> QED BY <1>1, <2>1, <2>2, TextRuns DEF DidOutside
<1>2. CASE Fails(t)
  BY <1>2, TextFails
<1> QED BY <1>1, <1>2 DEF ReadInChunks

(* A text through a cursor leaves the mark that others' text ran, and one   *)
(* read in chunks is left out of account if it took a lock.                *)
LEMMA TextMarks ==
    ASSUME IInv, NEW t \in Texts, Statement(t) \/ ReadInChunks(t)
    PROVE  /\ ran' \in BOOLEAN /\ slipped' \subseteq {"interrupted", "streamed", "locked", "set"}
           /\ slipped \subseteq slipped'
           /\ lock' \in BOOLEAN /\ (lock' => ran' \/ Excused')
           /\ cancelled' \in BOOLEAN /\ (cancelled => cancelled')
<1> USE DEF IInv, TypeOK, marks
<1>1. CASE Statement(t)
  <2>1. ran' = TRUE /\ UNCHANGED slipped
    BY <1>1 DEF Statement, RanOthers
  <2>2. cancelled' \in BOOLEAN /\ (cancelled => cancelled')
    <3>1. cancelled' = (cancelled \/ tx' = "idle") \/ cancelled' = cancelled \/ cancelled' = TRUE
      BY <1>1 DEF Statement
    <3> QED BY <3>1
  <2>3. lock' \in {lock, TRUE, lock \/ t.does = "lock"}
    BY <1>1, TextRuns, TextFails DEF Statement
  <2> QED BY <2>1, <2>2, <2>3
<1>2. CASE ReadInChunks(t)
  <2>1. UNCHANGED <<ran, cancelled>> /\ slipped' = slipped \cup {how \in {"streamed"} : t.does = "lock"}
    BY <1>2 DEF ReadInChunks
  <2>2. pc # "cleaning"
    BY <1>2 DEF ReadInChunks, AtTop
  <2>3. lock => ran \/ Excused
    BY <2>2 DEF LockReturned
  <2>4. lock' \in BOOLEAN /\ (lock' => lock \/ t.does = "lock")
    <3>1. CASE Runs(t)
      BY <3>1 DEF Runs
    <3>2. CASE Fails(t)
      BY <3>2 DEF Fails
    <3> QED BY <1>2, <3>1, <3>2 DEF ReadInChunks
  <2> QED BY <2>1, <2>3, <2>4 DEF Excused
<1> QED BY <1>1, <1>2

LEMMA StepStatement ==
    ASSUME IInv, NEW t \in Texts, Statement(t) \/ ReadInChunks(t)
    PROVE  IInv'
<1> USE DEF IInv, AtTop, Used, server, given, marks, answers, call
<1>1. (Ended /\ cancelled') \/ DidInside \/ DidOutside \/ Failed
  BY StatementDoes, ChunksDo
<1>2. /\ pc = "caller" /\ holding # NoBlock /\ fresh' = FALSE
      /\ UNCHANGED <<release, fit, home, blocks, holding, enforced, asked, auto, pc, text,
                     writes, then>>
  BY DEF Statement, ReadInChunks
<1>3. /\ ran' \in BOOLEAN /\ slipped' \subseteq {"interrupted", "streamed", "locked", "set"}
      /\ slipped \subseteq slipped'
      /\ lock' \in BOOLEAN /\ (lock' => ran' \/ Excused')
      /\ cancelled' \in BOOLEAN /\ (cancelled => cancelled')
  BY TextMarks
<1>4. Depth' = Depth /\ Within(Depth) /\ Depth \in Nat /\ Depth > 0
  BY <1>2, DepthType DEF Depth, Holdings, Within
<1>5. cancelled \/ (tx # "idle" /\ known = Depth)
  BY <1>2, <1>4 DEF Levels, TheServerDecides, HeldByTheServer
<1>6. DidInside \/ DidOutside \/ Failed => (tx # "idle" => tx' # "idle")
  BY DEF DidInside, DidOutside, Failed, Begun
<1>7. ServerTypes'
  BY <1>1, TypeParts, TextTypes
<1>8. BlockTypes' /\ CallTypes'
  BY <1>2, TypeParts DEF BlockTypes, CallTypes
<1>9. MarkTypes'
  BY <1>2, <1>3, TypeParts DEF MarkTypes
<1>10. Blocks'
  <2>1. Holdings'
    BY <1>2 DEF Holdings, Within, Depth
  <2>2. CASE Ended /\ cancelled'
    <3>1. known' = 0 /\ \A l \in 0..MaxBlocks : pending'[l] = {}
      BY <2>2 DEF Ended, Nothing
    <3>2. Levels'
      BY <1>4, <2>2, <3>1 DEF Levels
    <3> QED BY <2>1, <2>2, <3>2 DEF Blocks, TextsInside, OwnOutside, HeldByTheServer
  <2>3. CASE DidInside \/ DidOutside \/ Failed
    <3>0. Adds
      BY <2>3, TextAdds
    <3>1. known' = known /\ known \in 0..MaxBlocks /\ (~cancelled' => ~cancelled)
      BY <1>3, <3>0 DEF Adds, TypeOK
    <3>2. Levels'
      BY <1>4, <3>0, <3>1 DEF Adds, Levels
    <3>3. \A l \in Nat : Within(l)' <=> Within(l)
      BY <1>2 DEF Within, Depth
    <3>4. TextsInside' /\ OwnOutside'
      BY <1>2, <1>4, <1>5, <3>0, <3>1, <3>3 DEF Adds, TextsInside, OwnOutside
    <3>5. HeldByTheServer'
      BY <1>2, <1>3, <1>4, <1>5, <1>6, <2>3, <3>0 DEF TheServerDecides, HeldByTheServer,
           OpenHere, Depth, Adds
    <3> QED BY <2>1, <3>2, <3>4, <3>5 DEF Blocks
  <2> QED BY <1>1, <2>2, <2>3
<1>11. Calling' /\ Checked'
  BY <1>2 DEF Calling, Checked
<1>12. Transaction'
  BY <1>1, <1>2, <1>6, TextAdds DEF Transaction, Ended, Adds
<1>13. LockReturned' /\ FreshIsClean'
  BY <1>2, <1>3 DEF LockReturned, FreshIsClean
<1>14. AutoReturned'
  BY <1>2, <1>3 DEF AutoReturned, Cut
<1>15. WritesWhereChecked'
  BY <1>2 DEF WritesWhereChecked
<1>16. BoundaryKept'
  <2>0. Unmarked \subseteq Unmarked'
    BY <1>3 DEF Unmarked
  <2>1. CASE Ended /\ cancelled'
    BY <2>1 DEF BoundaryKept
  <2>2. CASE DidInside \/ Failed
    BY <1>3, <2>0, <2>2 DEF BoundaryKept, DidInside, Failed
  <2>3. CASE DidOutside
    BY <1>3, <1>5, <2>3 DEF BoundaryKept, DidOutside
  <2> QED BY <1>1, <2>1, <2>2, <2>3
<1> QED BY <1>7, <1>8, <1>9, <1>10, <1>11, <1>12, <1>13, <1>14, <1>15, <1>16, Parts

LEMMA StepStream ==
    ASSUME IInv, Stream \/ (Interrupt /\ InterruptStream)
    PROVE  IInv'
<1> USE DEF IInv
<1>1. pc = "streaming" /\ pc' = "cleaning" /\ blocks = <<>> /\ text \in Texts /\ ~fresh
  BY DEF Stream, InterruptStream, Goes, Calling
<1>2. Ended \/ DidInside \/ Failed
  <2>1. CASE Runs(text)
    <3>1. tx = "open"
      BY <1>1 DEF Transaction
    <3> QED BY <1>1, <2>1, <3>1, TextRuns DEF DidOutside
  <2>2. CASE Fails(text)
    BY <1>1, <2>2, TextFails
  <2> QED BY <2>1, <2>2 DEF Stream, InterruptStream
<1>3. UNCHANGED <<release, fit, home, blocks, holding, ran, enforced, asked, auto, fresh,
                  text, writes, slipped>>
  BY DEF Stream, Interrupt, InterruptStream, Goes, given, answers
<1>4. cancelled' \in BOOLEAN /\ (cancelled => cancelled')
  <2>1. cancelled \in BOOLEAN
    BY DEF TypeOK
  <2>2. cancelled' = (cancelled \/ tx' = "idle") \/ cancelled' = cancelled
    BY DEF Stream, InterruptStream
  <2> QED BY <2>1, <2>2
<1>5. lock' \in BOOLEAN
  <2>1. lock' \in {lock, TRUE, lock \/ text.does = "lock"}
    BY <1>1, TextRuns, TextFails DEF Stream, InterruptStream
  <2> QED BY <2>1 DEF TypeOK
<1>6. ServerTypes'
  BY <1>2, TypeParts, TextTypes
<1>7. BlockTypes' /\ MarkTypes'
  BY <1>3, <1>4, <1>5, TypeParts DEF BlockTypes, MarkTypes
<1>8. CallTypes'
  BY GoesType, TypeParts DEF Stream, InterruptStream, Awaiting
<1>9. Depth = 0 /\ Depth' = 0 /\ known = 0 /\ holding = NoBlock /\ \A l \in Nat : ~Within(l)'
  BY <1>1, <1>3, NoBlocks DEF Depth, Within
<1>10. known' = 0 /\ \A l \in 0..MaxBlocks : l > 0 => pending'[l] = {}
  <2>1. CASE Ended
    BY <2>1 DEF Ended, Nothing
  <2>2. CASE Adds
    BY <1>1, <1>9, <2>2, NoBlocks DEF Adds
  <2> QED BY <1>2, <2>1, <2>2, TextAdds
<1>11. Blocks'
  <2>1. Levels' /\ Holdings'
    BY <1>3, <1>9, <1>10 DEF Levels, Holdings, Within
  <2>2. TextsInside' /\ OwnOutside' /\ HeldByTheServer'
    BY <1>1, <1>9, <1>10 DEF TextsInside, OwnOutside, HeldByTheServer
  <2> QED BY <2>1, <2>2 DEF Blocks
<1>12. Calling' /\ Checked'
  BY <1>1, <1>3 DEF Calling, Checked
<1>13. Transaction'
  BY <1>1, <1>2, <1>3, TextAdds DEF Transaction, Ended, Adds, DidInside, DidOutside, Failed, Begun
<1>14. LockReturned' /\ AutoReturned' /\ FreshIsClean' /\ WritesWhereChecked'
  BY <1>1, <1>3 DEF LockReturned, AutoReturned, FreshIsClean, WritesWhereChecked
<1>15. BoundaryKept'
  <2>1. CASE cancelled \/ DidInside \/ Failed
    BY <1>2, <1>3, <1>4, <2>1 DEF BoundaryKept, Unmarked, DidInside, Failed
  <2>2. CASE ~cancelled /\ Ended
    <3>1. \A l \in 0..MaxBlocks : ~Within(l)
      BY <1>1, NoBlocks
    <3>2. Committed \subseteq {"own"}
      BY <1>1, <2>2, <3>1 DEF TextsInside, Committed
    <3>3. outlived' = outlived
      BY <2>2, <3>2 DEF Ended
    <3> QED BY <1>3, <2>2, <3>3 DEF BoundaryKept, Unmarked
  <2> QED BY <1>2, <2>1, <2>2
<1> QED BY <1>6, <1>7, <1>8, <1>11, <1>12, <1>13, <1>14, <1>15, Parts

-----------------------------------------------------------------------------
(* The steps that open a block and close one.                              *)
LEMMA OpenHereWithin ==
    TypeOK => Depth \in Nat /\ (OpenHere <=> Within(Depth)) /\ (Depth = 0 => ~OpenHere)
<1> SUFFICES ASSUME TypeOK
             PROVE  Depth \in Nat /\ (OpenHere <=> Within(Depth)) /\ (Depth = 0 => ~OpenHere)
  OBVIOUS
<1>1. Depth \in Nat
  BY DepthType
<1> QED BY <1>1 DEF OpenHere, Within

LEMMA BlocksOpened ==
    ASSUME IInv, AtTop, UNCHANGED <<pending, cancelled, pc>>, known = Depth, known' = known + 1,
           tx = "idle" <=> Depth = 0, tx' = "open", TypeOK',
           NEW b \in Block, blocks' = Append(blocks, b), b.outer = holding,
           holding' # NoBlock <=> holding # NoBlock \/ b.kind = "others",
           guarded' <=> guarded \/ b.kind = "others"
    PROVE  Blocks'
<1> USE DEF IInv
<1>1. /\ Depth \in Nat /\ Depth' = Depth + 1 /\ blocks'[Depth + 1] = b
      /\ \A i \in 1..Depth : blocks'[i] = blocks[i]
      /\ \A l \in Nat : Within(l)' <=> Within(l) \/ (l > Depth /\ b.kind = "others")
  BY BlockOpened, DepthType
<1>2. Within(Depth + 1) <=> Within(Depth)
  BY <1>1 DEF Within
<1>3. Within(Depth)' <=> Within(Depth) \/ b.kind = "others"
  <2>1. Depth' \in Nat /\ Depth' > Depth /\ Depth' = Depth + 1
    BY <1>1
  <2> QED BY <1>1, <1>2, <2>1 DEF Within
<1>4. Levels'
  BY <1>1 DEF Levels, TypeOK
<1>5. Holdings'
  <2>1. ASSUME NEW i \in 1..Depth' PROVE blocks'[i].outer # NoBlock <=> Within(i - 1)'
    <3>1. i \in 1..Depth \/ i = Depth + 1
      BY <1>1
    <3>2. i - 1 \in Nat /\ ~(i - 1 > Depth)
      BY <1>1
    <3>3. Within(i - 1)' <=> Within(i - 1)
      BY <1>1, <3>2
    <3>4. CASE i \in 1..Depth
      BY <1>1, <3>3, <3>4 DEF Holdings
    <3>5. CASE i = Depth + 1
      <4>1. i - 1 = Depth
        BY <1>1, <3>5
      <4>2. holding # NoBlock <=> Within(i - 1)
        BY <4>1 DEF Holdings
      <4> QED BY <1>1, <3>3, <3>5, <4>2
    <3> QED BY <3>1, <3>4, <3>5
  <2>2. holding' # NoBlock <=> Within(Depth)'
    BY <1>3 DEF Holdings
  <2> QED BY <2>1, <2>2 DEF Holdings
<1>6. TextsInside'
  BY <1>1 DEF TextsInside, AtTop
<1>7. OwnOutside'
  <2>1. ASSUME NEW l \in 1..MaxBlocks, "own" \in pending[l], ~cancelled PROVE ~Within(l)'
    <3>1. l \in 0..MaxBlocks /\ l \in Nat /\ l <= Depth
      BY <1>1, <2>1, UntrustedAssumption DEF Levels, UntrustedAssumption
    <3> QED BY <1>1, <2>1, <3>1 DEF OwnOutside
  <2> QED BY <2>1 DEF OwnOutside
<1>8. HeldByTheServer'
  <2>1. OpenHere <=> Within(Depth)
    BY OpenHereWithin
  <2>2. OpenHere' <=> Within(Depth)'
    <3>1. Depth' \in Nat
      BY <1>1
    <3>2. \A i \in 1..Depth' : i <= Depth'
      BY <3>1
    <3> QED BY <3>2 DEF OpenHere, Within
  <2>3. ~cancelled => (guarded <=> OpenHere) /\ (holding # NoBlock <=> OpenHere)
    <3>1. CASE Depth = 0
      BY <2>1, <3>1, OpenHereWithin DEF Transaction, Holdings
    <3>2. CASE Depth > 0
      BY <2>1, <3>2 DEF TheServerDecides, HeldByTheServer, TypeOK
    <3> QED BY <1>1, <3>1, <3>2
  <2>4. ~cancelled => (guarded' <=> OpenHere') /\ (holding' # NoBlock <=> OpenHere')
    BY <1>3, <2>1, <2>2, <2>3
  <2>5. tx' # "idle" /\ guarded' \in BOOLEAN
    BY DEF TypeOK
  <2>6. OpenHere' \in BOOLEAN
    BY DEF OpenHere
  <2>7. ~cancelled' => (holding' # NoBlock) = OpenHere' /\ guarded' = OpenHere'
    BY <2>4, <2>5, <2>6
  <2> QED BY <2>5, <2>7 DEF HeldByTheServer
<1> QED BY <1>4, <1>5, <1>6, <1>7, <1>8 DEF Blocks

LEMMA StepOpenOwn ==
    ASSUME IInv, OpenOwn
    PROVE  IInv'
<1> USE DEF IInv, OpenOwn, Used, server, given, marks, answers, call
<1>1. PICK b \in Block : /\ blocks' = Append(blocks, b)
                         /\ b.kind = "own" /\ b.outer = holding
  BY DEF TypeOK, Block
<1>2. tx' = "open" /\ known' = known + 1 /\ known = Depth /\ Depth \in Nat /\ Depth < MaxBlocks
  BY DepthType DEF Opened
<1>3. ServerTypes'
  <2>1. known' \in 0..MaxBlocks
    BY <1>2, UntrustedAssumption DEF UntrustedAssumption
  <2> QED BY <1>2, <2>1, TypeParts DEF ServerTypes
<1>4. BlockTypes'
  <2>1. blocks' \in Seq(Block) /\ Len(blocks') = Len(blocks) + 1
    BY <1>1, TypeParts, AppendProperties DEF BlockTypes
  <2>2. Len(blocks') <= MaxBlocks
    BY <1>2, <2>1, UntrustedAssumption DEF Depth, UntrustedAssumption
  <2>3. holding' \in {NoBlock, "kept", "refusing"}
    BY TypeParts DEF BlockTypes
  <2> QED BY <2>1, <2>2, <2>3 DEF BlockTypes
<1>5. MarkTypes' /\ CallTypes'
  <2>1. MarkTypes'
    BY TypeParts DEF MarkTypes
  <2>2. CallTypes'
    BY TypeParts DEF CallTypes
  <2> QED BY <2>1, <2>2
<1>6. Blocks'
  <2>1. holding' # NoBlock <=> holding # NoBlock \/ "own" = "others"
    OBVIOUS
  <2>2. guarded' <=> guarded \/ "own" = "others"
    OBVIOUS
  <2>3. TypeOK'
    BY <1>3, <1>4, <1>5, TypePartsNext
  <2> QED BY <1>1, <1>2, <2>1, <2>2, <2>3, BlocksOpened
<1>7. Calling' /\ Checked' /\ LockReturned' /\ AutoReturned' /\ FreshIsClean'
  BY DEF AtTop, Calling, Checked, LockReturned, AutoReturned, FreshIsClean, Excused, Cut
<1>8. Transaction' /\ WritesWhereChecked' /\ BoundaryKept'
  BY <1>2 DEF AtTop, Transaction, WritesWhereChecked, BoundaryKept, Unmarked
<1> QED BY <1>3, <1>4, <1>5, <1>6, <1>7, <1>8, Parts

LEMMA StepOpenReadOnly ==
    ASSUME IInv, OpenReadOnly
    PROVE  IInv'
<1> USE DEF IInv, OpenReadOnly, Used, server, given, marks, answers, call
<1>1. PICK b \in Block : /\ blocks' = Append(blocks, b)
                         /\ b.kind = "others" /\ b.outer = holding
  BY DEF TypeOK, Block
<1>2. tx' = "open" /\ known' = known + 1 /\ known = Depth /\ Depth \in Nat /\ Depth < MaxBlocks
  BY DepthType DEF Opened
<1>3. ServerTypes'
  <2>1. known' \in 0..MaxBlocks
    BY <1>2, UntrustedAssumption DEF UntrustedAssumption
  <2> QED BY <1>2, <2>1, TypeParts DEF ServerTypes
<1>4. BlockTypes'
  <2>1. blocks' \in Seq(Block) /\ Len(blocks') = Len(blocks) + 1
    BY <1>1, TypeParts, AppendProperties DEF BlockTypes
  <2>2. Len(blocks') <= MaxBlocks
    BY <1>2, <2>1, UntrustedAssumption DEF Depth, UntrustedAssumption
  <2>3. holding' \in {NoBlock, "kept", "refusing"}
    BY TypeParts DEF BlockTypes
  <2> QED BY <2>1, <2>2, <2>3 DEF BlockTypes
<1>5. MarkTypes' /\ CallTypes'
  <2>1. MarkTypes'
    BY TypeParts DEF MarkTypes
  <2>2. CallTypes'
    BY TypeParts DEF CallTypes
  <2> QED BY <2>1, <2>2
<1>6. Blocks'
  <2>1. holding' # NoBlock <=> holding # NoBlock \/ "others" = "others"
    BY UntrustedAssumption DEF UntrustedAssumption
  <2>2. guarded' <=> guarded \/ "others" = "others"
    OBVIOUS
  <2>3. TypeOK'
    BY <1>3, <1>4, <1>5, TypePartsNext
  <2> QED BY <1>1, <1>2, <2>1, <2>2, <2>3, BlocksOpened
<1>7. Calling' /\ Checked' /\ LockReturned' /\ AutoReturned' /\ FreshIsClean'
  BY DEF AtTop, Calling, Checked, LockReturned, AutoReturned, FreshIsClean, Excused, Cut
<1>8. Transaction' /\ WritesWhereChecked' /\ BoundaryKept'
  BY <1>2 DEF AtTop, Transaction, WritesWhereChecked, BoundaryKept, Unmarked
<1> QED BY <1>3, <1>4, <1>5, <1>6, <1>7, <1>8, Parts

(* One block fewer: everything is settled, or what was done in the block   *)
(* is dropped or becomes the next one's, or the server had lost it.        *)
Joined(l) == l = Depth - 1 /\ Inner.kind = "own" /\ pending'[l] = pending[l] \cup pending[Depth]
Popped ==
    /\ known = Depth /\ known' = Depth - 1 /\ tx' = "open"
    /\ guarded' \in BOOLEAN /\ (~cancelled => (guarded' <=> Within(Depth - 1)))
    /\ pending'[Depth] = {}
    /\ \A l \in 0..MaxBlocks : l # Depth => pending'[l] = pending[l] \/ Joined(l)

LEMMA BlocksClosed ==
    ASSUME IInv, AtTop, UNCHANGED <<cancelled, pc>>, Depth > 0, Closed,
           \/ Depth = 1 /\ known' = 0 /\ pending' = Nothing
           \/ Depth > 1 /\ Popped
           \/ Depth > 1 /\ known < Depth /\ UNCHANGED <<known, pending>>
    PROVE  Blocks'
<1> USE DEF IInv
<1>1. /\ Depth \in Nat /\ Depth' = Depth - 1 /\ Depth - 1 \in Nat /\ Depth <= MaxBlocks
      /\ \A i \in 1..(Depth - 1) : blocks'[i] = blocks[i]
      /\ \A l \in 0..(Depth - 1) : Within(l)' <=> Within(l)
      /\ Within(Depth) <=> Within(Depth - 1) \/ Inner.kind = "others"
  <2>1. Depth \in Nat /\ Depth - 1 \in Nat /\ Depth <= MaxBlocks
    BY DepthType
  <2> QED BY <2>1, BlockClosed DEF Closed
<1>2. Within(Depth)' <=> Within(Depth - 1)
  <2>1. Depth' \in Nat /\ Depth' = Depth - 1
    BY <1>1
  <2>2. Within(Depth)' <=> \E i \in 1..(Depth - 1) : blocks[i].kind = "others"
    BY <1>1, <2>1 DEF Within
  <2>3. Within(Depth - 1) <=> \E i \in 1..(Depth - 1) : blocks[i].kind = "others"
    BY <1>1 DEF Within
  <2> QED BY <2>2, <2>3
<1>3. Holdings'
  <2>1. ASSUME NEW i \in 1..Depth' PROVE blocks'[i].outer # NoBlock <=> Within(i - 1)'
    <3>1. i \in 1..(Depth - 1) /\ i - 1 \in 0..(Depth - 1) /\ i \in 1..Depth
      BY <1>1
    <3> QED BY <1>1, <3>1 DEF Holdings
  <2>2. holding' # NoBlock <=> Within(Depth)'
    <3>1. Depth \in 1..Depth
      BY <1>1
    <3>2. blocks[Depth].outer # NoBlock <=> Within(Depth - 1)
      BY <3>1 DEF Holdings
    <3> QED BY <1>2, <3>2 DEF Closed, Inner
  <2> QED BY <2>1, <2>2 DEF Holdings
<1>4. \A l \in 0..MaxBlocks : l > Depth => pending[l] = {}
  BY <1>1 DEF Levels, TypeOK
<1>5. CASE Depth = 1 /\ known' = 0 /\ pending' = Nothing
  <2>1. Depth' = 0 /\ \A l \in 0..MaxBlocks : pending'[l] = {}
    BY <1>1, <1>5 DEF Nothing
  <2> QED BY <1>3, <1>5, <2>1 DEF Blocks, Levels, TextsInside, OwnOutside, HeldByTheServer
<1>6. CASE Depth > 1 /\ Popped
  <2>1. ASSUME NEW l \in 0..MaxBlocks
        PROVE  \/ l > Depth - 1 /\ pending'[l] = {}
               \/ l \in 0..(Depth - 1) /\ (pending'[l] = pending[l] \/ Joined(l))
    <3>1. CASE l > Depth
      BY <1>1, <1>4, <1>6, <3>1 DEF Popped, Joined
    <3>2. CASE l = Depth
      BY <1>1, <1>6, <3>2 DEF Popped
    <3>3. CASE l \in 0..(Depth - 1)
      BY <1>1, <1>6, <3>3 DEF Popped
    <3> QED BY <1>1, <3>1, <3>2, <3>3
  <2>2. Levels'
    <3>1. known' = Depth' /\ known' = Depth - 1
      BY <1>1, <1>6 DEF Popped
    <3>2. \A l \in 0..MaxBlocks : l > known' => pending'[l] = {}
      BY <1>1, <2>1, <3>1
    <3> QED BY <1>1, <3>1, <3>2 DEF Levels
  <2>3. TextsInside'
    <3>1. ASSUME NEW l \in 0..MaxBlocks, ~cancelled
          PROVE  pending'[l] \subseteq {"own"} \/ Within(l)'
      <4>1. CASE l \in 0..(Depth - 1) /\ pending'[l] = pending[l]
        BY <1>1, <3>1, <4>1 DEF TextsInside, AtTop
      <4>2. CASE l \in 0..(Depth - 1) /\ Joined(l)
        <5>1. pending[l] \subseteq {"own"} \/ Within(l)
          BY <3>1 DEF TextsInside, AtTop
        <5>2. pending[Depth] \subseteq {"own"} \/ Within(Depth)
          BY <1>1, <3>1 DEF TextsInside, AtTop
        <5>3. Within(Depth) => Within(l)
          BY <1>1, <4>2 DEF Joined
        <5> QED BY <1>1, <4>2, <5>1, <5>2, <5>3 DEF Joined
      <4> QED BY <2>1, <4>1, <4>2
    <3> QED BY <3>1 DEF TextsInside
  <2>4. OwnOutside'
    <3>1. ASSUME NEW l \in 1..MaxBlocks, "own" \in pending'[l], ~cancelled
          PROVE  ~Within(l)'
      <4>1. l \in 0..MaxBlocks /\ Depth \in 1..MaxBlocks
        BY <1>1, UntrustedAssumption DEF UntrustedAssumption
      <4>2. CASE l \in 0..(Depth - 1) /\ pending'[l] = pending[l]
        BY <1>1, <3>1, <4>2 DEF OwnOutside
      <4>3. CASE l \in 0..(Depth - 1) /\ Joined(l)
        <5>1. "own" \in pending[l] => ~Within(l)
          BY <3>1 DEF OwnOutside
        <5>2. "own" \in pending[Depth] => ~Within(Depth)
          BY <3>1, <4>1 DEF OwnOutside
        <5>3. Within(l) => Within(Depth)
          BY <1>1, <4>3 DEF Joined
        <5> QED BY <1>1, <3>1, <4>3, <5>1, <5>2, <5>3 DEF Joined
      <4> QED BY <2>1, <3>1, <4>1, <4>2, <4>3
    <3> QED BY <3>1 DEF OwnOutside
  <2>5. HeldByTheServer'
    <3>1. OpenHere' <=> Within(Depth - 1)
      <4>1. OpenHere' <=> \E i \in 1..(Depth - 1) : blocks[i].kind = "others"
        BY <1>1 DEF OpenHere
      <4>2. Within(Depth - 1) <=> \E i \in 1..(Depth - 1) : blocks[i].kind = "others"
        BY <1>1 DEF Within
      <4> QED BY <4>1, <4>2
    <3>2. ~cancelled' => (holding' # NoBlock) = OpenHere' /\ guarded' = OpenHere'
      <4>1. holding' # NoBlock <=> Within(Depth - 1)
        BY <1>2, <1>3 DEF Holdings
      <4>2. guarded' \in BOOLEAN /\ (~cancelled' => (guarded' <=> Within(Depth - 1)))
        BY <1>6 DEF Popped
      <4>3. OpenHere' \in BOOLEAN
        BY DEF OpenHere
      <4> QED BY <3>1, <4>1, <4>2, <4>3
    <3>3. tx' # "idle"
      BY <1>6 DEF Popped
    <3> QED BY <3>2, <3>3 DEF HeldByTheServer
  <2> QED BY <1>3, <2>2, <2>3, <2>4, <2>5 DEF Blocks
<1>7. CASE Depth > 1 /\ known < Depth /\ UNCHANGED <<known, pending>>
  <2>1. cancelled /\ cancelled'
    BY <1>1, <1>7 DEF Levels, TypeOK
  <2>2. Levels'
    BY <1>1, <1>7, <2>1 DEF Levels, TypeOK
  <2> QED BY <1>3, <2>1, <2>2 DEF Blocks, TextsInside, OwnOutside, HeldByTheServer
<1> QED BY <1>5, <1>6, <1>7

LEMMA RolledBackPops ==
    ASSUME IInv, Depth > 0, RolledBack
    PROVE  \/ Depth = 1 /\ known' = 0 /\ pending' = Nothing
           \/ Depth > 1 /\ Popped
           \/ Depth > 1 /\ known < Depth /\ UNCHANGED <<known, pending>>
<1> USE DEF IInv
<1>1. Depth \in Nat /\ Depth <= MaxBlocks
  BY DepthType
<1>2. CASE /\ Depth > 1 /\ known = Depth
           /\ tx' = "open" /\ known' = Depth - 1
           /\ pending' = [pending EXCEPT ![Depth] = {}]
           /\ guarded' = \E i \in 1..(Depth - 1) : blocks[i].kind = "others"
  <2>1. guarded' \in BOOLEAN /\ (guarded' <=> Within(Depth - 1))
    <3>1. Within(Depth - 1) <=> \E i \in 1..(Depth - 1) : blocks[i].kind = "others"
      BY <1>1 DEF Within
    <3> QED BY <1>2, <3>1
  <2>2. /\ pending'[Depth] = {}
        /\ \A l \in 0..MaxBlocks : l # Depth => pending'[l] = pending[l]
    BY <1>1, <1>2 DEF TypeOK
  <2> QED BY <1>2, <2>1, <2>2 DEF Popped
<1> QED BY <1>2 DEF RolledBack, Settled

LEMMA RolledBackTypes ==
    ASSUME IInv, Depth > 0, RolledBack, UNCHANGED outlived
    PROVE  ServerTypes' /\ (guarded' => tx' # "idle")
<1> USE DEF IInv
<1>1. Depth \in Nat /\ Depth <= MaxBlocks /\ ServerTypes
  BY DepthType, TypeParts
<1>2. CASE Settled
  BY <1>1, <1>2, SettledTypes DEF Settled, ServerTypes
<1>3. CASE /\ Depth > 1 /\ known = Depth
           /\ tx' = "open" /\ known' = Depth - 1
           /\ pending' = [pending EXCEPT ![Depth] = {}]
           /\ guarded' = \E i \in 1..(Depth - 1) : blocks[i].kind = "others"
  <2>1. guarded' \in BOOLEAN
    BY <1>3
  <2>2. known' \in 0..MaxBlocks /\ pending' \in [0..MaxBlocks -> SUBSET Effects]
    <3>1. known' \in 0..MaxBlocks
      BY <1>1, <1>3, UntrustedAssumption DEF UntrustedAssumption
    <3>2. pending' \in [0..MaxBlocks -> SUBSET Effects]
      BY <1>1, <1>3 DEF ServerTypes
    <3> QED BY <3>1, <3>2
  <2> QED BY <1>1, <1>3, <2>1, <2>2 DEF ServerTypes
<1>4. CASE /\ Depth > 1 /\ known < Depth
           /\ tx' = IF tx = "idle" THEN "idle" ELSE "failed"
           /\ UNCHANGED <<guarded, known, pending>>
  BY <1>1, <1>4 DEF ServerTypes, Transaction
<1> QED BY <1>2, <1>3, <1>4 DEF RolledBack

LEMMA ClosedType ==
    ASSUME IInv, Depth > 0, Closed
    PROVE  BlockTypes'
<1>1. Depth \in Nat /\ Depth <= MaxBlocks
  BY DepthType DEF IInv
<1>2. Depth' = Depth - 1 /\ blocks' \in Seq(Block)
  BY BlockClosed DEF Closed, IInv
<1>3. Len(blocks') <= MaxBlocks
  BY <1>1, <1>2, UntrustedAssumption DEF Depth, UntrustedAssumption
<1>4. Inner \in Block
  <2>1. Depth \in 1..Depth
    BY <1>1
  <2> QED BY <2>1, BlockType DEF Inner, IInv
<1>5. holding' \in {NoBlock, "kept", "refusing"}
  BY <1>4 DEF Closed, Block
<1> QED BY <1>2, <1>3, <1>5 DEF BlockTypes

LEMMA StepCloseReadOnly ==
    ASSUME IInv, CloseReadOnly
    PROVE  IInv'
<1> USE DEF IInv, CloseReadOnly, Used, given, marks, answers, call
<1>1. ServerTypes' /\ (guarded' => tx' # "idle")
  BY RolledBackTypes
<1>2. BlockTypes'
  BY ClosedType
<1>3. MarkTypes'
  BY TypeParts DEF MarkTypes
<1>4. CallTypes'
  BY TypeParts DEF CallTypes
<1>5. Blocks'
  BY BlocksClosed, RolledBackPops
<1>6. Calling' /\ Checked' /\ LockReturned' /\ AutoReturned' /\ FreshIsClean'
  BY DEF AtTop, Calling, Checked, LockReturned, AutoReturned, FreshIsClean, Excused, Cut
<1>7. Transaction' /\ WritesWhereChecked' /\ BoundaryKept'
  BY <1>1 DEF AtTop, Transaction, WritesWhereChecked, BoundaryKept, Unmarked
<1> QED BY <1>1, <1>2, <1>3, <1>4, <1>5, <1>6, <1>7, Parts

LEMMA ReleasedKeeps ==
    ASSUME IInv, AtTop, Depth > 0, Inner.kind = "own", Released, UNCHANGED <<cancelled, slipped>>
    PROVE  /\ ServerTypes' /\ (guarded' => tx' # "idle") /\ BoundaryKept'
           /\ \/ Depth = 1 /\ known' = 0 /\ pending' = Nothing
              \/ Depth > 1 /\ Popped
<1> USE DEF IInv
<1>1. Depth \in Nat /\ Depth <= MaxBlocks /\ ServerTypes
  BY DepthType, TypeParts
<1>2. CASE Depth = 1 /\ tx # "failed" /\ outlived' = outlived \cup (Committed \ {"own"}) /\ Settled
  <2>1. outlived' \subseteq Effects \cup {"split"}
    BY <1>1, <1>2, CommittedType DEF ServerTypes
  <2>2. ~cancelled => Committed \subseteq {"own"}
    <3>1. \A l \in Nat : ~Within(l)
      <4>1. blocks[1].kind = "own" /\ 1..Depth = {1}
        BY <1>2 DEF Inner
      <4> QED BY <4>1 DEF Within
    <3>2. \A l \in 0..MaxBlocks : l \in Nat
      BY UntrustedAssumption DEF UntrustedAssumption
    <3> QED BY <3>1, <3>2 DEF TextsInside, AtTop, Committed
  <2>3. BoundaryKept'
    BY <1>2, <2>2 DEF BoundaryKept, Unmarked
  <2> QED BY <1>2, <2>1, <2>3, SettledTypes DEF Settled
<1>3. CASE Depth = 1 /\ tx = "failed" /\ UNCHANGED outlived /\ Settled
  <2>1. BoundaryKept'
    BY <1>3 DEF BoundaryKept, Unmarked
  <2> QED BY <1>1, <1>3, <2>1, SettledTypes DEF Settled, ServerTypes
<1>4. CASE /\ Depth > 1 /\ known = Depth /\ tx = "open" /\ known' = Depth - 1
           /\ pending' = [pending EXCEPT ![Depth] = {}, ![Depth - 1] = @ \cup pending[Depth]]
           /\ UNCHANGED <<tx, guarded, outlived>>
  <2>1. Depth \in 0..MaxBlocks /\ Depth - 1 \in 0..MaxBlocks /\ Depth - 1 # Depth
    BY <1>1, <1>4, UntrustedAssumption DEF UntrustedAssumption
  <2>2. /\ pending' \in [0..MaxBlocks -> SUBSET Effects] /\ pending'[Depth] = {}
        /\ pending'[Depth - 1] = pending[Depth - 1] \cup pending[Depth]
        /\ \A l \in 0..MaxBlocks : l # Depth /\ l # Depth - 1 => pending'[l] = pending[l]
    BY <1>1, <1>4, <2>1 DEF ServerTypes
  <2>3. ServerTypes'
    BY <1>1, <1>4, <2>1, <2>2 DEF ServerTypes
  <2>4. guarded' \in BOOLEAN /\ (~cancelled => (guarded' <=> Within(Depth - 1)))
    <3>1. Within(Depth) <=> Within(Depth - 1)
      <4>1. 1..Depth = 1..(Depth - 1) \cup {Depth} /\ Depth - 1 \in Nat
        BY <1>1, <1>4
      <4>2. Within(Depth) <=> \E i \in 1..Depth : blocks[i].kind = "others"
        BY <1>1 DEF Within
      <4>3. Within(Depth - 1) <=> \E i \in 1..(Depth - 1) : blocks[i].kind = "others"
        BY <1>1 DEF Within
      <4>4. blocks[Depth].kind # "others"
        BY DEF Inner
      <4> QED BY <4>1, <4>2, <4>3, <4>4
    <3>2. ~cancelled => guarded = OpenHere
      BY <1>4 DEF TheServerDecides, HeldByTheServer
    <3> QED BY <1>4, <3>1, <3>2, OpenHereWithin DEF TypeOK
  <2>5. Popped
    BY <1>4, <2>1, <2>2, <2>4 DEF Popped, Joined
  <2>6. BoundaryKept' /\ (guarded' => tx' # "idle")
    BY <1>4 DEF BoundaryKept, Unmarked, Transaction
  <2> QED BY <1>4, <2>3, <2>5, <2>6
<1> QED BY <1>2, <1>3, <1>4 DEF Released

LEMMA StepCloseOwn ==
    ASSUME IInv, CloseOwn
    PROVE  IInv'
<1> USE DEF IInv, CloseOwn, Used, given, marks, answers, call
<1>1. /\ ServerTypes' /\ (guarded' => tx' # "idle") /\ BoundaryKept'
      /\ \/ Depth = 1 /\ known' = 0 /\ pending' = Nothing
         \/ Depth > 1 /\ Popped
         \/ Depth > 1 /\ known < Depth /\ UNCHANGED <<known, pending>>
  <2>1. CASE RolledBack /\ UNCHANGED outlived
    <3>1. BoundaryKept'
      BY <2>1 DEF BoundaryKept, Unmarked
    <3> QED BY <2>1, <3>1, RolledBackTypes, RolledBackPops
  <2>2. CASE Released
    BY <2>2, ReleasedKeeps
  <2> QED BY <2>1, <2>2
<1>2. BlockTypes'
  BY ClosedType
<1>3. MarkTypes'
  BY TypeParts DEF MarkTypes
<1>4. CallTypes'
  BY TypeParts DEF CallTypes
<1>5. Blocks'
  BY <1>1, BlocksClosed
<1>6. Calling' /\ Checked' /\ LockReturned' /\ AutoReturned' /\ FreshIsClean'
  BY DEF AtTop, Calling, Checked, LockReturned, AutoReturned, FreshIsClean, Excused, Cut
<1>7. Transaction' /\ WritesWhereChecked'
  BY <1>1 DEF AtTop, Transaction, WritesWhereChecked
<1> QED BY <1>1, <1>2, <1>3, <1>4, <1>5, <1>6, <1>7, Parts

-----------------------------------------------------------------------------
LEMMA StepIInv == IInv /\ [Next]_vars => IInv'
<1> SUFFICES ASSUME IInv, [Next]_vars
             PROVE  IInv'
  OBVIOUS
<1>1. CASE UNCHANGED vars
  <2>1. UNCHANGED <<tx, guarded, known, pending, outlived, lock, release, fit, home, blocks,
                    holding, ran,
                    cancelled, enforced, asked, auto, pc, text, writes, then, fresh, slipped>>
    BY <1>1 DEF vars, server, given, marks, answers, call
  <2>2. TypeOK'
    BY <2>1 DEF IInv, TypeOK
  <2>3. (Levels /\ Holdings /\ TextsInside /\ OwnOutside)'
    BY <2>1 DEF IInv, Levels, Holdings, TextsInside, OwnOutside, Within, Depth
  <2>4. (Calling /\ Transaction /\ Checked /\ LockReturned /\ AutoReturned /\ FreshIsClean)'
    BY <2>1 DEF IInv, Calling, Transaction, Checked, LockReturned, AutoReturned,
         FreshIsClean, Excused, Cut
  <2>5. (TheServerDecides /\ BoundaryKept)'
    BY <2>1 DEF IInv, TheServerDecides, HeldByTheServer, WritesWhereChecked, AtTop, OpenHere,
         Depth, BoundaryKept, Unmarked
  <2> QED BY <2>2, <2>3, <2>4, <2>5 DEF IInv
<1>2. CASE OpenOwn \/ OwnWork \/ OpenReadOnly \/ CloseReadOnly \/ CloseOwn \/ Probe
  BY <1>2, StepOpenOwn, StepOwnWork, StepOpenReadOnly, StepCloseReadOnly, StepCloseOwn, StepProbe
<1>3. ASSUME NEW t \in Texts, Statement(t) \/ ReadInChunks(t) PROVE IInv'
  BY <1>3, StepStatement
<1>4. ASSUME NEW t \in Texts, NEW allowed \in BOOLEAN, Call(t, allowed) PROVE IInv'
  BY <1>4, StepCall
<1>5. ASSUME NEW accepted \in BOOLEAN, AskRole(accepted) PROVE IInv'
  BY <1>5, StepAskRole
<1>6. ASSUME NEW wrappable \in BOOLEAN, Switch(wrappable) PROVE IInv'
  BY <1>6, StepSwitch
<1>7. CASE Confirm \/ RunWrapped \/ OpenStream \/ Stream \/ CleanUp
  BY <1>7, StepConfirm, StepRunWrapped, StepOpenStream, StepStream, StepCleanUp
<1>8. CASE Interrupt
  BY <1>8, StepStream, StepInterrupt DEF Interrupt
<1>9. CASE Write \/ Restore \/ Lend \/ Replace
  BY <1>9, StepWrite, StepRestore, StepLend, StepReplace
<1> QED BY <1>1, <1>2, <1>3, <1>4, <1>5, <1>6, <1>7, <1>8, <1>9 DEF Next

(* The invariant holds in every state.                                     *)
THEOREM Invariance == Spec => []IInv
<1> QED BY InitIInv, StepIInv, PTL DEF Spec

(* Every variable has its type, in every state.                            *)
THEOREM TypeCorrect == Spec => []TypeOK
<1>1. IInv => TypeOK
  BY DEF IInv
<1> QED BY <1>1, Invariance, PTL

(* However deep the blocks are nested and whatever the texts do, nothing a *)
(* text did outlasts its transaction on a connection that is not marked    *)
(* (_check_read_only_kept, _boundary_lost), but for an end to the          *)
(* transaction of an allowed write cancelled at its pipeline's end and for *)
(* a setting that an allowed write commits.                                *)
THEOREM NothingOutlives == Spec => []BoundaryKept
<1>1. IInv => BoundaryKept
  BY DEF IInv
<1> QED BY <1>1, Invariance, PTL

(* A borrower is lent a connection with no transaction, no block, nothing   *)
(* outlived, no lock and its own autocommit; the locks of a result read in  *)
(* chunks, of an allowed write and of a pipeline cancelled at its end, and  *)
(* the autocommit of the last, are what the code does not mark (_reset).   *)
THEOREM LentClean == Spec => []NextStartsClean
<1>1. IInv => NextStartsClean
  <2> SUFFICES ASSUME IInv, fresh PROVE NextStartsClean
    BY DEF NextStartsClean
  <2>1. /\ blocks = <<>> /\ ~cancelled /\ tx = "idle"
        /\ lock => slipped \cap {"streamed", "locked", "interrupted"} # {}
        /\ auto # home => "interrupted" \in slipped
    BY DEF IInv, FreshIsClean
  <2>2. holding = NoBlock
    BY <2>1, NoBlocks
  <2>3. outlived \subseteq Unmarked
    BY <2>1 DEF IInv, BoundaryKept
  <2> QED BY <2>1, <2>2, <2>3 DEF NextStartsClean
<1> QED BY <1>1, Invariance, PTL

(* While a read-only block is open its statements run in a transaction the *)
(* server holds read-only, or the connection is marked, and a text that    *)
(* may write runs only on a server that checks what it writes              *)
(* (read_only_transaction, read_only_is_enforced).                         *)
THEOREM ServerHolds == Spec => []TheServerDecides
<1>1. IInv => TheServerDecides
  BY DEF IInv
<1> QED BY <1>1, Invariance, PTL

-----------------------------------------------------------------------------
(* One step, and one level of the blocks around, of OuterDecides.          *)
LEMMA StepOuterDecides ==
    ASSUME IInv, [Next]_vars, NEW level \in 1..MaxBlocks, "own" \in pending[level],
           \A l \in 0..MaxBlocks : "own" \notin pending'[l]
    PROVE  Depth > 0 /\ (Inner.kind = "own" \/ cancelled')
<1>1. Depth \in Nat /\ level \in 0..MaxBlocks /\ level <= known /\ known <= Depth /\ level > 0
  BY DepthType, UntrustedAssumption DEF UntrustedAssumption, IInv, TypeOK, Levels
<1>2. Depth > 0 /\ blocks # <<>>
  <2>1. Depth > 0
    BY <1>1 DEF IInv, TypeOK
  <2> QED BY <2>1 DEF Depth
<1>3. pc = "caller"
  BY <1>2 DEF IInv, Calling
<1>4. pending'[level] # pending[level]
  BY <1>1
<1>5. Inner.kind \in {"own", "others"} /\ (Inner.kind = "others" => Within(Depth))
  <2>1. Depth \in 1..Depth
    BY <1>1, <1>2
  <2> QED BY <2>1, BlockType, <1>1 DEF Inner, Block, Within, IInv
<1>6. CASE CloseReadOnly
  <2>1. CASE cancelled
    BY <1>2, <2>1, <1>6 DEF CloseReadOnly, marks
  <2>2. CASE ~cancelled
    <3>1. known = Depth /\ Within(Depth) /\ ~Within(level)
      BY <1>5, <1>6, <2>2 DEF CloseReadOnly, IInv, Levels, OwnOutside
    <3>2. level # Depth /\ Depth > 1
      BY <1>1, <3>1
    <3>3. pending' = [pending EXCEPT ![Depth] = {}]
      <4>1. Depth # 1 /\ ~(known < Depth)
        BY <1>1, <3>1, <3>2
      <4> QED BY <1>6, <4>1 DEF CloseReadOnly, RolledBack
    <3> QED BY <1>1, <1>4, <3>2, <3>3 DEF IInv, TypeOK
  <2> QED BY <2>1, <2>2 DEF IInv, TypeOK
<1>7. ASSUME NEW t \in Texts, Statement(t) PROVE cancelled'
  <2>1. (Ended /\ cancelled') \/ DidInside \/ DidOutside \/ Failed
    BY <1>7, StatementDoes DEF IInv
  <2>2. ~Adds
    BY <1>1 DEF Adds
  <2> QED BY <2>1, <2>2, TextAdds DEF IInv
<1>8. CASE UNCHANGED pending
  BY <1>4, <1>8
<1>9. CASE OwnWork
  <2>1. pending'[level] = pending[level] \/ pending'[level] = pending[level] \cup {"own"}
    BY <1>1, <1>9 DEF OwnWork, IInv, TypeOK
  <2> QED BY <1>1, <2>1
<1>10. CASE OpenOwn \/ OpenReadOnly \/ Probe \/ UNCHANGED vars
  BY <1>8, <1>10 DEF OpenOwn, OpenReadOnly, Probe, server, vars
<1>11. ASSUME NEW t \in Texts, ReadInChunks(t) PROVE FALSE
  <2>1. DidInside \/ Failed
    BY <1>11, ChunksDo DEF IInv
  <2>2. ~Adds
    BY <1>1 DEF Adds
  <2> QED BY <2>1, <2>2, TextAdds DEF IInv
<1>12. CASE CloseOwn
  BY <1>2, <1>12 DEF CloseOwn
<1>13. /\ \A t \in Texts, allowed \in BOOLEAN : ~Call(t, allowed)
       /\ \A accepted \in BOOLEAN : ~AskRole(accepted)
       /\ \A wrappable \in BOOLEAN : ~Switch(wrappable)
  BY <1>2, <1>3 DEF Call, AskRole, Switch
<1>14. ~(Confirm \/ RunWrapped \/ OpenStream \/ Stream \/ CleanUp \/ Write \/ Restore \/ Interrupt)
  BY <1>3 DEF Confirm, RunWrapped, OpenStream, Stream, CleanUp, Write, Restore, Interrupt,
       InterruptMarked, InterruptStream, InterruptUnmarked, InterruptWrapped, InterruptWrite
<1>15. ~(Lend \/ Replace)
  BY <1>2 DEF Lend, Replace
<1> QED BY <1>2, <1>6, <1>7, <1>8, <1>9, <1>10, <1>11, <1>12, <1>13, <1>14, <1>15 DEF Next

(* The end of a read-only block leaves what the caller did in the blocks   *)
(* around it to those blocks' own end, however deep they are nested        *)
(* (RollbackTo, read_only_transaction's finally).                          *)
THEOREM OutsideDecides == Spec => OuterDecides
<1>1. ASSUME IInv, [Next]_vars, NEW level \in 1..MaxBlocks, "own" \in pending[level],
             "own" \notin UNION {pending'[l] : l \in 0..MaxBlocks}
      PROVE  Depth > 0 /\ (Inner.kind = "own" \/ cancelled')
  <2>1. \A l \in 0..MaxBlocks : "own" \notin pending'[l]
    BY <1>1
  <2> QED BY <1>1, <2>1, StepOuterDecides
<1>2. IInv /\ [Next]_vars =>
        [\A level \in 1..MaxBlocks :
            "own" \in pending[level] /\ "own" \notin UNION {pending'[l] : l \in 0..MaxBlocks}
              => Depth > 0 /\ (Inner.kind = "own" \/ cancelled')]_vars
  BY <1>1
<1> QED BY <1>2, Invariance, PTL DEF Spec, OuterDecides

-----------------------------------------------------------------------------
(***************************************************************************)
(* The text itself, for every text of any length and either way of reading *)
(* backslashes: how the driver reads it, and how the server does.  Both are *)
(* recursive functions over the places of the text, each place defined from *)
(* those further on.                                                       *)
(***************************************************************************)

(* What a set of places has, has a first place; the library's theorem of it *)
(* needs no operator as a parameter, as its induction does.                *)
LEMMA FirstPlace ==
    ASSUME NEW T \in SUBSET Nat, T # {}
    PROVE  \E i \in T : \A j \in T : i <= j
<1>1. \E i \in T : \A j \in T : ~(<<j, i>> \in OpToRel(<, Nat))
  BY WFMin, NatLessThanWellFounded
<1>2. PICK i \in T : \A j \in T : ~(<<j, i>> \in OpToRel(<, Nat))
  BY <1>1
<1>3. \A j \in T : ~(j < i)
  BY <1>2 DEF OpToRel
<1> QED BY <1>3

(* Counting up from 0 reaches every number.                                *)
LEMMA Upwards ==
    ASSUME NEW S \in SUBSET Nat, 0 \in S, \A n \in S : n + 1 \in S
    PROVE  S = Nat
<1>1. SUFFICES ASSUME Nat \ S # {} PROVE FALSE
  OBVIOUS
<1>2. PICK i \in Nat \ S : \A j \in Nat \ S : i <= j
  BY <1>1, FirstPlace
<1>3. i # 0 /\ i - 1 \in Nat /\ i - 1 \notin Nat \ S
  BY <1>2
<1> QED BY <1>2, <1>3

(* A function defined at each place from what it is further on.            *)
Causal(N, V, G) ==
    /\ N \in Nat /\ V # {}
    /\ G \in [1..N -> [[1..N -> V] -> V]]
    /\ \A x \in 1..N : \A f, g \in [1..N -> V] :
           (\A y \in (x + 1)..N : f[y] = g[y]) => G[x][f] = G[x][g]
Solvable(N, V, G) == \E f \in [1..N -> V] : \A x \in 1..N : f[x] = G[x][f]

(* Such a function exists, so the one the model chooses is one.            *)
LEMMA Recursion ==
    ASSUME NEW N, NEW V, NEW G, Causal(N, V, G)
    PROVE  Solvable(N, V, G)
<1> USE DEF Causal
<1> PICK none \in V : TRUE
  OBVIOUS
<1> DEFINE S == {n \in Nat : \E f \in [1..N -> V] : \A x \in 1..N : x > N - n => f[x] = G[x][f]}
<1>1. 0 \in S
  <2>1. [x \in 1..N |-> none] \in [1..N -> V]
    OBVIOUS
  <2>2. \A x \in 1..N : ~(x > N - 0)
    OBVIOUS
  <2> QED BY <2>1, <2>2
<1>2. ASSUME NEW n \in S PROVE n + 1 \in S
  <2>1. PICK f \in [1..N -> V] : \A x \in 1..N : x > N - n => f[x] = G[x][f]
    OBVIOUS
  <2> SUFFICES \E h \in [1..N -> V] : \A x \in 1..N : x > N - (n + 1) => h[x] = G[x][h]
    OBVIOUS
  <2>2. CASE N - n \in 1..N
    <3> DEFINE z == N - n
               g == [f EXCEPT ![z] = G[z][f]]
    <3>1. g \in [1..N -> V]
      BY <2>2
    <3>2. ASSUME NEW x \in 1..N, x > N - (n + 1) PROVE g[x] = G[x][g]
      <4>1. \A y \in (x + 1)..N : f[y] = g[y]
        BY <2>2, <3>2
      <4>2. G[x][f] = G[x][g]
        <5> HIDE DEF g
        <5> QED BY <4>1, <3>1
      <4>3. CASE x = z
        <5>1. g[x] = G[x][f]
          BY <4>3, <2>2
        <5> QED BY <5>1, <4>2
      <4>4. CASE x # z
        <5>1. x > N - n /\ g[x] = f[x]
          BY <4>4, <3>2, <2>2
        <5> QED BY <4>2, <2>1, <5>1
      <4> QED BY <4>3, <4>4
    <3> HIDE DEF g
    <3> QED BY <3>1, <3>2
  <2>3. CASE N - n \notin 1..N
    <3>1. \A x \in 1..N : x > N - (n + 1) => x > N - n
      BY <2>3
    <3> QED BY <2>1, <3>1
  <2> QED BY <2>2, <2>3
<1>3. S = Nat
  <2> HIDE DEF S
  <2>1. S \subseteq Nat 
    BY DEF S
  <2> QED BY <1>1, <1>2, <2>1, Upwards
<1>4. N \in S
  BY <1>3
<1>5. \A x \in 1..N : x > N - N
  OBVIOUS
<1> QED BY <1>4, <1>5 DEF Solvable

(* A set with every place whose later places it has.                       *)
ClosedDown(N, S) ==
    N \in Nat /\ \A x \in 1..N : (\A y \in (x + 1)..N : y \in S) => x \in S
(* What holds of a place when it holds of all further on, holds of all.    *)
LEMMA Downwards ==
    ASSUME NEW N, NEW S, ClosedDown(N, S)
    PROVE  \A x \in 1..N : x \in S
<1> USE DEF ClosedDown
<1>1. SUFFICES ASSUME NEW x \in 1..N, x \notin S PROVE FALSE
  OBVIOUS
<1> DEFINE T == {n \in Nat : n < N /\ N - n \notin S}
<1>2. N - x \in T
  BY <1>1
<1>3. PICK n \in T : \A m \in T : n <= m
  BY <1>2, FirstPlace
<1>4. \A y \in ((N - n) + 1)..N : y \in S
  <2>1. \A y \in ((N - n) + 1)..N : N - y \in Nat /\ N - y < n /\ N - y < N /\ N - (N - y) = y
    BY <1>3
  <2> QED BY <1>3, <2>1
<1>5. N - n \in 1..N /\ N - n \notin S
  BY <1>3
<1> QED BY <1>4, <1>5

-----------------------------------------------------------------------------
(* The least of a set is in it, where it is not empty.                     *)
LEMMA LeastIsThere ==
    ASSUME NEW S \in SUBSET Nat, NEW none
    PROVE  /\ S = {} => LeastOf(S, none) = none
           /\ S # {} => LeastOf(S, none) \in S /\ \A x \in S : LeastOf(S, none) <= x
<1>1. CASE S = {}
  BY <1>1 DEF LeastOf
<1>2. CASE S # {}
  <2>1. \E x \in S : \A y \in S : x <= y
    BY <1>2, FirstPlace
  <2> QED BY <1>2, <2>1 DEF LeastOf
<1> QED BY <1>1, <1>2

(* Any text: a sequence of symbols.                                        *)
Text == Seq(STRING)
Quotes == {"q", "Q"}

(* A symbol past either end of the text is "end".                          *)
LEMMA SymAt ==
    ASSUME NEW t \in Text, NEW i \in Int
    PROVE  /\ Len(t) \in Nat
           /\ i \in 1..Len(t) => Sym(t, i) = t[i] /\ t[i] \in STRING
           /\ i \notin 1..Len(t) => Sym(t, i) = "end"
BY DEF Sym, Text

(* The end of what is quoted, as the server finds it.                      *)
LEMMA QuotedEndsRecurs ==
    ASSUME NEW t \in Text, NEW quote \in Quotes, NEW escaping \in BOOLEAN, NEW p \in 1..(Len(t) + 1)
    PROVE  QuotedEnds(t, quote, escaping)[p] =
              IF p > Len(t) THEN p
              ELSE IF t[p] = "b" /\ escaping THEN IF p = Len(t) THEN p + 1 ELSE QuotedEnds(t, quote, escaping)[p + 2]
              ELSE IF t[p] # quote THEN QuotedEnds(t, quote, escaping)[p + 1]
              ELSE IF Sym(t, p + 1) = quote THEN QuotedEnds(t, quote, escaping)[p + 2] ELSE p + 1
<1> DEFINE N == Len(t) + 1
           e(x, f) == IF x > Len(t) THEN x
              ELSE IF t[x] = "b" /\ escaping THEN IF x = Len(t) THEN x + 1 ELSE f[x + 2]
              ELSE IF t[x] # quote THEN f[x + 1]
              ELSE IF Sym(t, x + 1) = quote THEN f[x + 2] ELSE x + 1
           G == [x \in 1..N |-> [f \in [1..N -> Nat] |-> e(x, f)]]
<1>1. N \in Nat
  BY DEF Text
<1>2. ASSUME NEW x \in 1..N, NEW f \in [1..N -> Nat]
      PROVE  e(x, f) \in Nat /\ \A g \in [1..N -> Nat] : (\A y \in (x + 1)..N : f[y] = g[y]) => e(x, f) = e(x, g)
  <2>1. Sym(t, x + 1) = quote => x + 1 \in 1..Len(t)
    BY SymAt DEF Quotes, Text
  <2> QED BY <1>1, <2>1 DEF Text
<1>3. G \in [1..N -> [[1..N -> Nat] -> Nat]]
  BY <1>2
<1>4. \A x \in 1..N : \A f, g \in [1..N -> Nat] :
         (\A y \in (x + 1)..N : f[y] = g[y]) => G[x][f] = G[x][g]
  BY <1>2
<1>5. PICK f \in [1..N -> Nat] : \A x \in 1..N : f[x] = G[x][f]
  <2> HIDE DEF G, N
  <2>1. Causal(N, Nat, G)
    BY <1>1, <1>3, <1>4 DEF Causal
  <2> QED BY <2>1, Recursion DEF Solvable
<1>6. f = [x \in 1..N |-> e(x, f)]
  BY <1>5
<1>7. QuotedEnds(t, quote, escaping) = [x \in 1..N |-> e(x, QuotedEnds(t, quote, escaping))]
  BY <1>6 DEF QuotedEnds
<1> QED BY <1>7

(* It is further on and at most past the text, behind a quote if not.      *)
LEMMA QuotedEndsRange ==
    ASSUME NEW t \in Text, NEW quote \in Quotes, NEW escaping \in BOOLEAN, NEW p \in 1..(Len(t) + 1)
    PROVE  /\ QuotedEnds(t, quote, escaping)[p] \in p..(Len(t) + 1)
           /\ \/ QuotedEnds(t, quote, escaping)[p] = Len(t) + 1
              \/ t[QuotedEnds(t, quote, escaping)[p] - 1] = quote
<1> DEFINE E == QuotedEnds(t, quote, escaping)
           S == {x \in 1..(Len(t) + 1) : E[x] \in x..(Len(t) + 1) /\ (E[x] = Len(t) + 1 \/ t[E[x] - 1] = quote)}
<1>1. Len(t) \in Nat
  BY DEF Text
<1>2. ASSUME NEW x \in 1..(Len(t) + 1), \A y \in (x + 1)..(Len(t) + 1) : y \in S
      PROVE  x \in S
  <2>1. Sym(t, x + 1) = quote => x + 1 \in 1..Len(t)
    BY SymAt DEF Quotes, Text
  <2>2. \A y \in (x + 1)..(Len(t) + 1) : E[y] \in y..(Len(t) + 1) /\ (E[y] = Len(t) + 1 \/ t[E[y] - 1] = quote)
    BY <1>2
  <2>3. E[x] = IF x > Len(t) THEN x
              ELSE IF t[x] = "b" /\ escaping THEN IF x = Len(t) THEN x + 1 ELSE E[x + 2]
              ELSE IF t[x] # quote THEN E[x + 1]
              ELSE IF Sym(t, x + 1) = quote THEN E[x + 2] ELSE x + 1
    BY QuotedEndsRecurs
  <2> HIDE DEF E
  <2>4. E[x] \in x..(Len(t) + 1) /\ (E[x] = Len(t) + 1 \/ t[E[x] - 1] = quote)
    <3>1. CASE x > Len(t)
      BY <1>1, <2>3, <3>1
    <3>2. CASE x <= Len(t) /\ t[x] = "b" /\ escaping
      BY <1>1, <2>2, <2>3, <3>2
    <3>3. CASE x <= Len(t) /\ ~(t[x] = "b" /\ escaping) /\ t[x] # quote
      BY <1>1, <2>2, <2>3, <3>3
    <3>4. CASE x <= Len(t) /\ ~(t[x] = "b" /\ escaping) /\ t[x] = quote
      BY <1>1, <2>1, <2>2, <2>3, <3>4
    <3> QED BY <1>1, <3>1, <3>2, <3>3, <3>4
  <2> QED BY <2>4
<1>3. \A x \in 1..(Len(t) + 1) : x \in S
  <2> HIDE DEF S
  <2>1. ClosedDown(Len(t) + 1, S)
    BY <1>1, <1>2 DEF ClosedDown
  <2> QED BY <2>1, Downwards
<1> QED BY <1>3

(* The same for nested comments, by the depth reached.                     *)
LEMMA CommentEndsRecurs ==
    ASSUME NEW t \in Text, NEW p \in 1..(Len(t) + 1), NEW depth \in Int
    PROVE  CommentEnds(t)[p][depth] =
              IF p > Len(t) THEN Len(t) + 1
              ELSE IF Holds(t, p, <<"/", "*">>) THEN CommentEnds(t)[p + 2][depth + 1]
              ELSE IF Holds(t, p, <<"*", "/">>) THEN IF depth = 1 THEN p + 2 ELSE CommentEnds(t)[p + 2][depth - 1]
              ELSE CommentEnds(t)[p + 1][depth]
<1> DEFINE N == Len(t) + 1
           V == [Int -> Nat]
           e(x, f) == [d \in Int |-> IF x > Len(t) THEN Len(t) + 1
              ELSE IF Holds(t, x, <<"/", "*">>) THEN f[x + 2][d + 1]
              ELSE IF Holds(t, x, <<"*", "/">>) THEN IF d = 1 THEN x + 2 ELSE f[x + 2][d - 1]
              ELSE f[x + 1][d]]
           G == [x \in 1..N |-> [f \in [1..N -> V] |-> e(x, f)]]
<1>1. N \in Nat
  BY DEF Text
<1>2. ASSUME NEW x \in 1..N, NEW f \in [1..N -> V]
      PROVE  e(x, f) \in V /\ \A g \in [1..N -> V] : (\A y \in (x + 1)..N : f[y] = g[y]) => e(x, f) = e(x, g)
  <2>1. /\ Holds(t, x, <<"/", "*">>) => x + 1 \in 1..Len(t)
        /\ Holds(t, x, <<"*", "/">>) => x + 1 \in 1..Len(t)
    <3>1. Sym(t, x + 1) \in {"*", "/"} => x + 1 \in 1..Len(t)
      BY SymAt DEF Text
    <3> QED BY <3>1 DEF Holds
  <2>2. e(x, f) \in V
    <3>1. ASSUME NEW d \in Int
          PROVE  e(x, f)[d] \in Nat
      <4>1. \A y \in 1..N : \A k \in Int : f[y][k] \in Nat
        OBVIOUS
      <4>2. CASE x > Len(t)
        BY <1>1, <4>2
      <4>3. CASE x <= Len(t) /\ Holds(t, x, <<"/", "*">>)
        BY <1>1, <2>1, <4>1, <4>3
      <4>4. CASE x <= Len(t) /\ ~Holds(t, x, <<"/", "*">>) /\ Holds(t, x, <<"*", "/">>)
        BY <1>1, <2>1, <4>1, <4>4
      <4>5. CASE x <= Len(t) /\ ~Holds(t, x, <<"/", "*">>) /\ ~Holds(t, x, <<"*", "/">>)
        BY <1>1, <4>1, <4>5
      <4> QED BY <1>1, <4>2, <4>3, <4>4, <4>5
    <3> QED BY <3>1
  <2>3. ASSUME NEW g \in [1..N -> V], \A y \in (x + 1)..N : f[y] = g[y]
        PROVE  e(x, f) = e(x, g)
    <3>1. ASSUME NEW d \in Int
          PROVE  e(x, f)[d] = e(x, g)[d]
      <4>1. CASE x > Len(t)
        BY <4>1
      <4>2. CASE x <= Len(t) /\ Holds(t, x, <<"/", "*">>)
        <5>1. x + 2 \in (x + 1)..N
          BY <1>1, <2>1, <4>2
        <5>2. f[x + 2] = g[x + 2]
          BY <2>3, <5>1
        <5> QED BY <4>2, <5>2
      <4>3. CASE x <= Len(t) /\ ~Holds(t, x, <<"/", "*">>) /\ Holds(t, x, <<"*", "/">>)
        <5>1. x + 2 \in (x + 1)..N
          BY <1>1, <2>1, <4>3
        <5>2. f[x + 2] = g[x + 2]
          BY <2>3, <5>1
        <5> QED BY <4>3, <5>2
      <4>4. CASE x <= Len(t) /\ ~Holds(t, x, <<"/", "*">>) /\ ~Holds(t, x, <<"*", "/">>)
        <5>1. x + 1 \in (x + 1)..N
          BY <1>1, <4>4
        <5>2. f[x + 1] = g[x + 1]
          BY <2>3, <5>1
        <5> QED BY <4>4, <5>2
      <4> QED BY <1>1, <4>1, <4>2, <4>3, <4>4
    <3> QED BY <3>1
  <2> QED BY <2>2, <2>3
<1>3. G \in [1..N -> [[1..N -> V] -> V]]
  <2> HIDE DEF V
  <2> QED BY <1>2
<1>4. \A x \in 1..N : \A f, g \in [1..N -> V] :
         (\A y \in (x + 1)..N : f[y] = g[y]) => G[x][f] = G[x][g]
  <2> HIDE DEF V
  <2> QED BY <1>2
<1>5. PICK f \in [1..N -> V] : \A x \in 1..N : f[x] = G[x][f]
  <2>0. V # {}
    <3>1. [d \in Int |-> 0] \in V
      OBVIOUS
    <3> QED BY <3>1
  <2> HIDE DEF G, N, V
  <2>1. Causal(N, V, G)
    BY <1>1, <1>3, <1>4, <2>0 DEF Causal
  <2> QED BY <2>1, Recursion DEF Solvable
<1>6. f = [x \in 1..N |-> e(x, f)]
  BY <1>5
<1>7. CommentEnds(t) = [x \in 1..N |-> e(x, CommentEnds(t))]
  BY <1>6 DEF CommentEnds
<1> QED BY <1>7

(* It is further on and at most past the text, behind a slash if not.      *)
LEMMA CommentEndsRange ==
    ASSUME NEW t \in Text, NEW p \in 1..(Len(t) + 1), NEW depth \in Int
    PROVE  /\ CommentEnds(t)[p][depth] \in p..(Len(t) + 1)
           /\ CommentEnds(t)[p][depth] = Len(t) + 1 \/ t[CommentEnds(t)[p][depth] - 1] = "/"
<1> DEFINE E == CommentEnds(t)
           S == {x \in 1..(Len(t) + 1) : \A d \in Int :
                    E[x][d] \in x..(Len(t) + 1) /\ (E[x][d] = Len(t) + 1 \/ t[E[x][d] - 1] = "/")}
<1>1. Len(t) \in Nat
  BY DEF Text
<1>2. ASSUME NEW x \in 1..(Len(t) + 1), \A y \in (x + 1)..(Len(t) + 1) : y \in S
      PROVE  x \in S
  <2>1. /\ Holds(t, x, <<"/", "*">>) => x + 1 \in 1..Len(t)
        /\ Holds(t, x, <<"*", "/">>) => x + 1 \in 1..Len(t) /\ t[x + 1] = "/"
    <3>1. Sym(t, x + 1) \in {"*", "/"} => x + 1 \in 1..Len(t) /\ Sym(t, x + 1) = t[x + 1]
      BY SymAt DEF Text
    <3> QED BY <3>1 DEF Holds
  <2>2. \A y \in (x + 1)..(Len(t) + 1) : \A d \in Int :
           E[y][d] \in y..(Len(t) + 1) /\ (E[y][d] = Len(t) + 1 \/ t[E[y][d] - 1] = "/")
    BY <1>2
  <2>3. ASSUME NEW d \in Int
        PROVE  E[x][d] \in x..(Len(t) + 1) /\ (E[x][d] = Len(t) + 1 \/ t[E[x][d] - 1] = "/")
    <3>1. E[x][d] = IF x > Len(t) THEN Len(t) + 1
              ELSE IF Holds(t, x, <<"/", "*">>) THEN E[x + 2][d + 1]
              ELSE IF Holds(t, x, <<"*", "/">>) THEN IF d = 1 THEN x + 2 ELSE E[x + 2][d - 1]
              ELSE E[x + 1][d]
      BY CommentEndsRecurs
    <3> HIDE DEF E
    <3>2. CASE x > Len(t)
      BY <1>1, <3>1, <3>2
    <3>3. CASE x <= Len(t) /\ Holds(t, x, <<"/", "*">>)
      BY <1>1, <2>1, <2>2, <3>1, <3>3
    <3>4. CASE x <= Len(t) /\ ~Holds(t, x, <<"/", "*">>) /\ Holds(t, x, <<"*", "/">>)
      BY <1>1, <2>1, <2>2, <3>1, <3>4
    <3>5. CASE x <= Len(t) /\ ~Holds(t, x, <<"/", "*">>) /\ ~Holds(t, x, <<"*", "/">>)
      BY <1>1, <2>2, <3>1, <3>5
    <3> QED BY <1>1, <3>2, <3>3, <3>4, <3>5
  <2> QED BY <2>3
<1>3. \A x \in 1..(Len(t) + 1) : x \in S
  <2> HIDE DEF S
  <2>1. ClosedDown(Len(t) + 1, S)
    BY <1>1, <1>2 DEF ClosedDown
  <2> QED BY <2>1, Downwards
<1> QED BY <1>3

(* The driver's counting of nested comments is the server's.               *)
LEMMA SameComments == ASSUME NEW t PROVE BlockCommentsEnd(t) = CommentEnds(t)
BY DEF BlockCommentsEnd, CommentEnds

-----------------------------------------------------------------------------
(* What the driver skips from quote to quote, counting backslashes, ends   *)
(* where the server, reading symbol by symbol, ends it.                    *)
First(t, p, quote) == LeastOf({j \in p..Len(t) : t[j] = quote}, 0)

(* The next quote, or 0 where none is left.                                *)
LEMMA FirstIsFirst ==
    ASSUME NEW t \in Text, NEW quote, NEW p \in 1..(Len(t) + 1)
    PROVE  \/ First(t, p, quote) = 0 /\ \A x \in p..Len(t) : t[x] # quote
           \/ /\ First(t, p, quote) \in p..Len(t) /\ t[First(t, p, quote)] = quote
              /\ \A x \in p..(First(t, p, quote) - 1) : t[x] # quote
<1> DEFINE S == {j \in p..Len(t) : t[j] = quote}
<1>1. Len(t) \in Nat /\ S \in SUBSET Nat
  BY DEF Text
<1>2. /\ S = {} => First(t, p, quote) = 0
      /\ S # {} => First(t, p, quote) \in S /\ \A x \in S : First(t, p, quote) <= x
  BY <1>1, LeastIsThere DEF First
<1> QED BY <1>1, <1>2

(* The end of what is quoted, as the driver finds it.                      *)
LEMMA QuotesEndRecurs ==
    ASSUME NEW t \in Text, NEW quote \in Quotes, NEW escapes \in BOOLEAN, NEW p \in 1..(Len(t) + 1)
    PROVE  QuotesEnd(t, quote, escapes)[p] =
              IF First(t, p, quote) = 0 THEN Len(t) + 1
              ELSE IF escapes /\ Odd(t, First(t, p, quote)) THEN QuotesEnd(t, quote, escapes)[First(t, p, quote) + 1]
              ELSE IF Sym(t, First(t, p, quote) + 1) = quote THEN QuotesEnd(t, quote, escapes)[First(t, p, quote) + 2]
              ELSE First(t, p, quote) + 1
<1> DEFINE N == Len(t) + 1
           e(x, f) == IF First(t, x, quote) = 0 THEN Len(t) + 1
              ELSE IF escapes /\ Odd(t, First(t, x, quote)) THEN f[First(t, x, quote) + 1]
              ELSE IF Sym(t, First(t, x, quote) + 1) = quote THEN f[First(t, x, quote) + 2]
              ELSE First(t, x, quote) + 1
           G == [x \in 1..N |-> [f \in [1..N -> Nat] |-> e(x, f)]]
<1>1. N \in Nat
  BY DEF Text
<1>2. ASSUME NEW x \in 1..N, NEW f \in [1..N -> Nat]
      PROVE  e(x, f) \in Nat /\ \A g \in [1..N -> Nat] : (\A y \in (x + 1)..N : f[y] = g[y]) => e(x, f) = e(x, g)
  <2>1. First(t, x, quote) = 0 \/ First(t, x, quote) \in x..Len(t)
    BY FirstIsFirst
  <2>2. First(t, x, quote) # 0 =>
           (Sym(t, First(t, x, quote) + 1) = quote => First(t, x, quote) + 1 \in 1..Len(t))
    BY <1>1, <2>1, SymAt DEF Quotes
  <2> QED BY <1>1, <2>1, <2>2 DEF Text
<1>3. G \in [1..N -> [[1..N -> Nat] -> Nat]]
  BY <1>2
<1>4. \A x \in 1..N : \A f, g \in [1..N -> Nat] :
         (\A y \in (x + 1)..N : f[y] = g[y]) => G[x][f] = G[x][g]
  BY <1>2
<1>5. PICK f \in [1..N -> Nat] : \A x \in 1..N : f[x] = G[x][f]
  <2> HIDE DEF G, N
  <2>1. Causal(N, Nat, G)
    BY <1>1, <1>3, <1>4 DEF Causal
  <2> QED BY <2>1, Recursion DEF Solvable
<1>6. f = [x \in 1..N |-> e(x, f)]
  BY <1>5
<1>7. QuotesEnd(t, quote, escapes) = [x \in 1..N |-> e(x, QuotesEnd(t, quote, escapes))]
  BY <1>6 DEF QuotesEnd, First
<1> QED BY <1>7

(* Up to the first quote the server passes over everything but an odd      *)
(* backslash, which takes the quote along.                                 *)
LEMMA ToTheQuote ==
    ASSUME NEW t \in Text, NEW quote \in Quotes, NEW escapes \in BOOLEAN,
           NEW p \in 2..Len(t), t[p - 1] # "b", NEW f \in p..Len(t), t[f] = quote,
           \A x \in p..(f - 1) : t[x] # quote
    PROVE  QuotedEnds(t, quote, escapes)[p] =
              IF escapes /\ Odd(t, f) THEN QuotedEnds(t, quote, escapes)[f + 1]
              ELSE QuotedEnds(t, quote, escapes)[f]
<1> DEFINE E == QuotedEnds(t, quote, escapes)
           B == {x \in 1..f : \A j \in x..(f - 1) : t[j] = "b"}
           r == LeastOf(B, f)
<1>1. Len(t) \in Nat
  BY DEF Text
<1>2. f \in B /\ B \in SUBSET Nat
  BY <1>1
<1>3. r \in B /\ \A x \in B : r <= x
  BY <1>2, LeastIsThere
<1>4. r \in p..f /\ (r > p => t[r - 1] # "b") /\ \A j \in r..(f - 1) : t[j] = "b"
  <2> HIDE DEF r
  <2>1. r \in 1..f /\ \A j \in r..(f - 1) : t[j] = "b"
    BY <1>3
  <2>2. r >= p
    BY <2>1, <1>1
  <2>3. ASSUME r > p, t[r - 1] = "b" PROVE FALSE
    <3>1. r - 1 \in B
      BY <2>1, <2>2, <2>3, <1>1
    <3> HIDE DEF B
    <3> QED BY <3>1, <1>3, <2>1
  <2> QED BY <2>1, <2>2, <2>3
<1>5. Odd(t, f) <=> (f - 1 - r) % 2 = 0 /\ r < f
  <2>1. Odd(t, f) <=> (f - 1 - r) % 2 = 0 /\ Sym(t, f - 1) = "b"
    BY DEF Odd
  <2>2. Sym(t, f - 1) = t[f - 1]
    BY <1>1, SymAt
  <2> HIDE DEF r
  <2>3. CASE r < f
    BY <1>4, <2>1, <2>2, <2>3
  <2>4. CASE r = f
    BY <1>4, <2>1, <2>2, <2>4
  <2> QED BY <1>4, <2>3, <2>4
<1>6. ASSUME NEW x \in p..Len(t)
      PROVE  /\ t[x] = "b" /\ escapes /\ x # Len(t) => E[x] = E[x + 2]
             /\ ~(t[x] = "b" /\ escapes) /\ t[x] # quote => E[x] = E[x + 1]
  BY <1>1, QuotedEndsRecurs
<1> HIDE DEF E, r, B
<1>7. ASSUME ~escapes PROVE E[p] = E[f]
  <2> DEFINE S == {x \in 1..f : x >= p => E[x] = E[f]}
  <2>1. ClosedDown(f, S)
    BY <1>1, <1>6, <1>7 DEF ClosedDown
  <2>2. p \in S
    <3> HIDE DEF S
    <3> QED BY <2>1, Downwards, <1>1
  <2> QED BY <2>2
<1>8. ASSUME escapes PROVE E[r] = IF Odd(t, f) THEN E[f + 1] ELSE E[f]
  <2> DEFINE S == {x \in 1..f : x >= r => E[x] = IF (f - x) % 2 = 0 THEN E[f] ELSE E[f + 1]}
  <2>1. ASSUME NEW x \in 1..f, \A y \in (x + 1)..f : y \in S, x >= r
        PROVE  E[x] = IF (f - x) % 2 = 0 THEN E[f] ELSE E[f + 1]
    <3>1. CASE x = f
      BY <3>1, <1>1
    <3>2. CASE x = f - 1
      <4>1. (f - x) % 2 = 1 /\ x # Len(t) /\ t[x] = "b" /\ x \in p..Len(t) /\ x + 2 = f + 1
        BY <3>2, <1>1, <1>4, <2>1
      <4> QED BY <4>1, <1>6, <1>8
    <3>3. CASE x < f - 1
      <4>1. x # Len(t) /\ t[x] = "b" /\ x \in p..Len(t) /\ x + 2 \in (x + 1)..f /\ x + 2 >= r
        BY <3>3, <1>1, <1>4, <2>1
      <4>2. E[x] = E[x + 2]
        BY <4>1, <1>6, <1>8
      <4>3. E[x + 2] = IF (f - (x + 2)) % 2 = 0 THEN E[f] ELSE E[f + 1]
        BY <4>1, <2>1
      <4>4. (f - (x + 2)) % 2 = (f - x) % 2
        BY <1>1
      <4> QED BY <4>2, <4>3, <4>4
    <3> QED BY <3>1, <3>2, <3>3, <1>1
  <2>2. ClosedDown(f, S)
    BY <1>1, <2>1 DEF ClosedDown
  <2>3. r \in S
    <3> HIDE DEF S
    <3> QED BY <2>2, Downwards, <1>1, <1>4
  <2>4. E[r] = IF (f - r) % 2 = 0 THEN E[f] ELSE E[f + 1]
    BY <2>3, <1>1, <1>4
  <2>5. (f - r) % 2 = 0 <=> ~((f - 1 - r) % 2 = 0 /\ r < f)
    BY <1>1, <1>4
  <2> QED BY <2>4, <2>5, <1>5
<1>9. ASSUME escapes PROVE E[p] = E[r]
  <2> DEFINE S == {x \in 1..r : x >= p => E[x] = E[r]}
  <2>1. ASSUME NEW x \in 1..r, \A y \in (x + 1)..r : y \in S, x >= p, x < r
        PROVE  E[x] = E[r]
    <3>1. CASE t[x] = "b"
      <4>1. x # r - 1 /\ x + 2 \in (x + 1)..r /\ x # Len(t) /\ x \in p..Len(t)
        BY <3>1, <2>1, <1>1, <1>4
      <4> QED BY <4>1, <3>1, <1>6, <1>9, <2>1
    <3>2. CASE t[x] # "b"
      <4>1. x + 1 \in (x + 1)..r /\ x \in p..Len(t) /\ t[x] # quote
        BY <2>1, <1>1, <1>4
      <4> QED BY <4>1, <3>2, <1>6, <2>1
    <3> QED BY <3>1, <3>2
  <2>2. ClosedDown(r, S)
    BY <1>1, <1>4, <2>1 DEF ClosedDown
  <2>3. p \in S
    <3> HIDE DEF S
    <3> QED BY <2>2, Downwards, <1>1, <1>4
  <2> QED BY <2>3, <1>4
<1> QED BY <1>7, <1>8, <1>9 DEF E

(* Where no quote is left, what is quoted goes to the end.                 *)
LEMMA NoQuoteLeft ==
    ASSUME NEW t \in Text, NEW quote \in Quotes, NEW escapes \in BOOLEAN,
           NEW p \in 1..(Len(t) + 1), \A x \in p..Len(t) : t[x] # quote
    PROVE  QuotedEnds(t, quote, escapes)[p] = Len(t) + 1
<1> DEFINE E == QuotedEnds(t, quote, escapes)
           S == {x \in 1..(Len(t) + 1) : x >= p => E[x] = Len(t) + 1}
<1>1. Len(t) \in Nat
  BY DEF Text
<1>2. ASSUME NEW x \in 1..(Len(t) + 1), \A y \in (x + 1)..(Len(t) + 1) : y \in S, x >= p
      PROVE  E[x] = Len(t) + 1
  <2>1. E[x] = IF x > Len(t) THEN x
              ELSE IF t[x] = "b" /\ escapes THEN IF x = Len(t) THEN x + 1 ELSE E[x + 2]
              ELSE IF t[x] # quote THEN E[x + 1]
              ELSE IF Sym(t, x + 1) = quote THEN E[x + 2] ELSE x + 1
    BY QuotedEndsRecurs
  <2> HIDE DEF E
  <2>2. \A y \in (x + 1)..(Len(t) + 1) : E[y] = Len(t) + 1
    BY <1>2, <1>1
  <2>3. CASE x > Len(t)
    BY <1>1, <2>1, <2>3
  <2>4. CASE x <= Len(t)
    BY <1>1, <1>2, <2>1, <2>2, <2>4
  <2> QED BY <1>1, <2>3, <2>4
<1>3. ClosedDown(Len(t) + 1, S)
  <2> HIDE DEF E
  <2> QED BY <1>1, <1>2 DEF ClosedDown
<1>4. p \in S
  <2> HIDE DEF S
  <2> QED BY <1>3, Downwards
<1> QED BY <1>4, <1>1

(* From any place behind no backslash both find the same end.              *)
LEMMA QuotesEndAlike ==
    ASSUME NEW t \in Text, NEW quote \in Quotes, NEW escapes \in BOOLEAN,
           NEW p \in 2..(Len(t) + 1), t[p - 1] = quote
    PROVE  QuotesEnd(t, quote, escapes)[p] = QuotedEnds(t, quote, escapes)[p]
<1> DEFINE E == QuotedEnds(t, quote, escapes)
           F == QuotesEnd(t, quote, escapes)
           S == {x \in 1..(Len(t) + 1) : x > 1 /\ t[x - 1] = quote => F[x] = E[x]}
<1>1. Len(t) \in Nat
  BY DEF Text
<1>2. ASSUME NEW x \in 1..(Len(t) + 1), \A y \in (x + 1)..(Len(t) + 1) : y \in S,
             x > 1, t[x - 1] = quote
      PROVE  F[x] = E[x]
  <2> DEFINE f == First(t, x, quote)
  <2>1. F[x] = IF f = 0 THEN Len(t) + 1
              ELSE IF escapes /\ Odd(t, f) THEN F[f + 1]
              ELSE IF Sym(t, f + 1) = quote THEN F[f + 2] ELSE f + 1
    BY QuotesEndRecurs
  <2>2. \A y \in (x + 1)..(Len(t) + 1) : t[y - 1] = quote => F[y] = E[y]
    <3> HIDE DEF E, F
    <3> QED BY <1>1, <1>2
  <2>3. CASE f = 0
    <3>1. E[x] = Len(t) + 1
      BY <2>3, FirstIsFirst, NoQuoteLeft
    <3> QED BY <2>1, <2>3, <3>1
  <2>4. CASE f # 0
    <3>1. f \in x..Len(t) /\ t[f] = quote /\ \A y \in x..(f - 1) : t[y] # quote
      BY <2>4, FirstIsFirst
    <3> HIDE DEF f
    <3>2. t[x - 1] # "b" /\ x \in 2..Len(t)
      BY <1>1, <1>2, <3>1 DEF Quotes
    <3>3. E[x] = IF escapes /\ Odd(t, f) THEN E[f + 1] ELSE E[f]
      BY <3>1, <3>2, ToTheQuote
    <3>4. E[f] = IF Sym(t, f + 1) = quote THEN E[f + 2] ELSE f + 1
      <4>1. f \in 1..(Len(t) + 1) /\ ~(f > Len(t)) /\ t[f] # "b"
        BY <1>1, <3>1 DEF Quotes
      <4> QED BY <3>1, <4>1, QuotedEndsRecurs
    <3>5. Sym(t, f + 1) = quote => f + 1 \in 1..Len(t) /\ t[f + 1] = quote
      BY <1>1, <3>1, SymAt DEF Quotes
    <3>6. F[f + 1] = E[f + 1]
      <4>1. f + 1 \in (x + 1)..(Len(t) + 1) /\ (f + 1) - 1 = f
        BY <1>1, <3>1
      <4> QED BY <2>2, <3>1, <4>1
    <3>7. Sym(t, f + 1) = quote => F[f + 2] = E[f + 2]
      <4>1. Sym(t, f + 1) = quote => f + 2 \in (x + 1)..(Len(t) + 1) /\ (f + 2) - 1 = f + 1
        BY <1>1, <3>1, <3>5
      <4> QED BY <2>2, <3>5, <4>1
    <3> HIDE DEF E, F
    <3> QED BY <2>1, <2>4, <3>3, <3>4, <3>6, <3>7
  <2> QED BY <2>3, <2>4
<1>3. ClosedDown(Len(t) + 1, S)
  <2>1. ASSUME NEW x \in 1..(Len(t) + 1), \A y \in (x + 1)..(Len(t) + 1) : y \in S
        PROVE  x \in S
    <3>1. (x > 1 /\ t[x - 1] = quote) => F[x] = E[x]
      <4> HIDE DEF S, E, F
      <4> QED BY <1>2, <2>1
    <3> HIDE DEF E, F
    <3> QED BY <3>1
  <2> HIDE DEF S
  <2> QED BY <1>1, <2>1 DEF ClosedDown
<1>4. p \in S
  <2> HIDE DEF S
  <2> QED BY <1>3, Downwards, <1>1
<1> QED BY <1>4, <1>1

-----------------------------------------------------------------------------
(* Where the other tokens end.                                             *)
LEMMA NameRunEnds ==
    ASSUME NEW t \in Text, NEW i \in 1..(Len(t) + 1)
    PROVE  /\ NameRunEnd(t, i) \in i..(Len(t) + 1)
           /\ \A x \in i..(NameRunEnd(t, i) - 1) : IsNameChar(t[x])
           /\ NameRunEnd(t, i) <= Len(t) => ~IsNameChar(t[NameRunEnd(t, i)])
<1> DEFINE S == {x \in i..Len(t) : ~IsNameChar(t[x])}
<1>1. Len(t) \in Nat
  BY DEF Text
<1>2. S \in SUBSET Nat
  BY <1>1
<1>3. NameRunEnd(t, i) = LeastOf(S, Len(t) + 1)
  BY DEF NameRunEnd
<1>4. /\ S = {} => NameRunEnd(t, i) = Len(t) + 1
      /\ S # {} => NameRunEnd(t, i) \in S /\ \A x \in S : NameRunEnd(t, i) <= x
  <2> HIDE DEF S
  <2> QED BY <1>2, <1>3, LeastIsThere
<1> QED BY <1>1, <1>4

(* A comment to the end of its line ends there.                            *)
LEMMA LineEnds ==
    ASSUME NEW t \in Text, NEW i \in 1..Len(t), t[i] # "nl"
    PROVE  /\ LineEnd(t, i) \in (i + 1)..(Len(t) + 1)
           /\ LineEnd(t, i) <= Len(t) => t[LineEnd(t, i)] = "nl"
<1> DEFINE S == {x \in i..Len(t) : t[x] = "nl"}
<1>1. Len(t) \in Nat
  BY DEF Text
<1>2. S \in SUBSET Nat
  BY <1>1
<1>3. LineEnd(t, i) = LeastOf(S, Len(t) + 1)
  BY DEF LineEnd
<1>4. /\ S = {} => LineEnd(t, i) = Len(t) + 1
      /\ S # {} => LineEnd(t, i) \in S
  <2> HIDE DEF S
  <2> QED BY <1>2, <1>3, LeastIsThere
<1> QED BY <1>1, <1>4

(* A dollar tag ends behind its second dollar, past where it begins.       *)
LEMMA TagEnds ==
    ASSUME NEW t \in Text, NEW i \in 1..Len(t), TagEnd(t, i) # 0
    PROVE  /\ TagEnd(t, i) \in (i + 2)..(Len(t) + 1)
           /\ t[TagEnd(t, i) - 1] = "$"
<1>1. Len(t) \in Nat
  BY DEF Text
<1>2. NameRunEnd(t, i + 1) \in (i + 1)..(Len(t) + 1)
  BY <1>1, NameRunEnds
<1>3. TagEnd(t, i) = NameRunEnd(t, i + 1) + 1 /\ Sym(t, NameRunEnd(t, i + 1)) = "$"
  BY DEF TagEnd
<1>4. NameRunEnd(t, i + 1) \in 1..Len(t) /\ t[NameRunEnd(t, i + 1)] = "$"
  BY <1>1, <1>2, <1>3, SymAt
<1> QED BY <1>1, <1>2, <1>3, <1>4

(* A dollar-quoted body ends past its tag, behind a dollar.                *)
LEMMA BodyEnds ==
    ASSUME NEW t \in Text, NEW i \in 1..Len(t), TagEnd(t, i) # 0
    PROVE  /\ BodyEnd(t, i, TagEnd(t, i) - i) \in (i + 1)..(Len(t) + 1)
           /\ \/ BodyEnd(t, i, TagEnd(t, i) - i) = Len(t) + 1
              \/ t[BodyEnd(t, i, TagEnd(t, i) - i) - 1] = "$"
<1> DEFINE n == TagEnd(t, i) - i
           tag == SubSeq(t, i, i + n - 1)
           S == {p + n : p \in {p \in (i + n)..Len(t) : Holds(t, p, tag)}}
<1>1. Len(t) \in Nat
  BY DEF Text
<1>2. n \in Nat /\ n >= 2 /\ i + n <= Len(t) + 1 /\ t[i + n - 1] = "$"
  BY <1>1, TagEnds
<1> HIDE DEF n
<1>3. n \in DOMAIN tag /\ tag[n] = "$"
  <2>1. t \in Seq(STRING) /\ i \in 1..Len(t) /\ i + n - 1 \in i..Len(t)
    BY <1>1, <1>2 DEF Text
  <2>2. Len(tag) = n /\ DOMAIN tag = 1..n /\ tag[n] = t[i + n - 1]
    BY <1>1, <1>2, <2>1
  <2> QED BY <1>2, <2>2
<1> HIDE DEF tag
<1>4. ASSUME NEW p \in (i + n)..Len(t), Holds(t, p, tag)
      PROVE  p + n - 1 \in 1..Len(t) /\ t[p + n - 1] = "$"
  <2>1. Sym(t, p + n - 1) = "$"
    BY <1>3, <1>4 DEF Holds
  <2>2. p + n - 1 \in Int
    BY <1>1, <1>2
  <2> QED BY <2>1, <2>2, SymAt
<1>5. \A x \in S : x \in (i + 1)..(Len(t) + 1) /\ t[x - 1] = "$"
  BY <1>1, <1>2, <1>4
<1>6. S \in SUBSET Nat
  BY <1>1, <1>5
<1>7. BodyEnd(t, i, n) = LeastOf(S, Len(t) + 1)
  BY DEF BodyEnd, tag
<1>8. /\ S = {} => BodyEnd(t, i, n) = Len(t) + 1
      /\ S # {} => BodyEnd(t, i, n) \in S
  <2> HIDE DEF S
  <2> QED BY <1>6, <1>7, LeastIsThere
<1>9. BodyEnd(t, i, n) = Len(t) + 1
      \/ (BodyEnd(t, i, n) \in (i + 1)..(Len(t) + 1) /\ t[BodyEnd(t, i, n) - 1] = "$")
  <2> HIDE DEF S
  <2> DEFINE e == BodyEnd(t, i, n)
  <2> SUFFICES e = Len(t) + 1 \/ (e \in (i + 1)..(Len(t) + 1) /\ t[e - 1] = "$")
    OBVIOUS
  <2>1. (S = {} => e = Len(t) + 1) /\ (S # {} => e \in S)
    BY <1>8
  <2> HIDE DEF e
  <2>2. e = Len(t) + 1 \/ (e \in (i + 1)..(Len(t) + 1) /\ t[e - 1] = "$")
    <3>1. CASE S = {}
      BY <2>1, <3>1
    <3>2. CASE S # {}
      BY <1>5, <2>1, <3>2
    <3> QED BY <3>1, <3>2
  <2> QED BY <2>2
<1> QED BY <1>1, <1>9 DEF n

(* No name goes on where a token begins, and no string after an E.         *)
Boundary(t, k) ==
    k > 1 /\ k <= Len(t) =>
        /\ ~(IsNameChar(t[k - 1]) /\ IsNameChar(t[k]))
        /\ t[k] = "q" /\ t[k - 1] = "E" => k > 2 /\ IsNameChar(t[k - 2])

(* A run of symbols stands at a place only where its first does.           *)
LEMMA HoldsFirst ==
    ASSUME NEW t \in Text, NEW i \in 1..Len(t)
    PROVE  /\ Holds(t, i, <<"-", "-">>) => t[i] = "-" /\ t[i] # "nl"
           /\ Holds(t, i, <<"/", "*">>) => t[i] = "/" /\ i + 1 \in 1..Len(t)
           /\ Holds(t, i, <<"*", "/">>) => t[i] = "*" /\ i + 1 \in 1..Len(t)
<1>1. Len(t) \in Nat /\ Sym(t, i) = t[i] /\ i + 1 - 1 = i /\ i + 2 - 1 = i + 1
  BY SymAt DEF Text
<1>2. Sym(t, i + 1) \in {"*", "/"} => i + 1 \in 1..Len(t)
  BY <1>1, SymAt
<1>3. ASSUME NEW a, NEW b, Holds(t, i, <<a, b>>) PROVE t[i] = a /\ Sym(t, i + 1) = b
  <2>1. \A j \in DOMAIN <<a, b>> : Sym(t, i + j - 1) = <<a, b>>[j]
    BY <1>3 DEF Holds
  <2>2. Sym(t, i + 1 - 1) = a /\ Sym(t, i + 2 - 1) = b
    BY <2>1
  <2> QED BY <1>1, <2>2
<1> QED BY <1>2, <1>3

(* A comment that begins at a place ends past it.                          *)
LEMMA CommentEndsAfter ==
    ASSUME NEW t \in Text, NEW i \in 1..Len(t), Holds(t, i, <<"/", "*">>)
    PROVE  /\ CommentEnds(t)[i][0] \in (i + 1)..(Len(t) + 1)
           /\ CommentEnds(t)[i][0] = Len(t) + 1 \/ t[CommentEnds(t)[i][0] - 1] = "/"
<1> DEFINE e == CommentEnds(t)[i][0]
<1>1. Len(t) \in Nat
  BY DEF Text
<1>2. i + 1 \in 1..Len(t)
  BY HoldsFirst
<1>3. i + 2 \in 1..(Len(t) + 1) /\ i \in 1..(Len(t) + 1) /\ ~(i > Len(t)) /\ 0 + 1 = 1
  BY <1>1, <1>2
<1>4. e = CommentEnds(t)[i + 2][0 + 1]
  <2>1. 0 \in Int /\ i \in 1..(Len(t) + 1)
    BY <1>3
  <2>2. e = IF i > Len(t) THEN Len(t) + 1
              ELSE IF Holds(t, i, <<"/", "*">>) THEN CommentEnds(t)[i + 2][0 + 1]
              ELSE IF Holds(t, i, <<"*", "/">>) THEN IF 0 = 1 THEN i + 2 ELSE CommentEnds(t)[i + 2][0 - 1]
              ELSE CommentEnds(t)[i + 1][0]
    BY <2>1, CommentEndsRecurs
  <2> QED BY <1>3, <2>2
<1>5. e \in (i + 2)..(Len(t) + 1) /\ (e = Len(t) + 1 \/ t[e - 1] = "/")
  BY <1>3, <1>4, CommentEndsRange
<1> HIDE DEF e
<1>6. e \in (i + 1)..(Len(t) + 1)
  BY <1>1, <1>5
<1> QED BY <1>5, <1>6 DEF e

(* The kinds of token the server has.                                      *)
KnownKinds == {"string", "quoted", "comment", "space", "word", "number", "punct"}

(* What is no part of a name.                                              *)
LEMMA NoName ==
    /\ ~IsNameChar("q") /\ ~IsNameChar("Q") /\ ~IsNameChar("$") /\ ~IsNameChar("/")
    /\ ~IsNameChar("-") /\ ~IsNameChar("nl") /\ ~IsNameChar(" ") /\ ~IsNameChar("end")
    /\ IsNameChar("E") /\ IsNameStart("E")
BY DEF IsNameChar, IsNameStart, Marks, Digits

(* A name goes on with what may start one, or a digit.                     *)
LEMMA NameStarts == ASSUME NEW x PROVE IsNameChar(x) <=> IsNameStart(x) \/ x \in Digits
BY DEF IsNameChar, IsNameStart, Marks, Digits

(* Past what cannot be cut short, a token begins.                          *)
LEMMA BoundaryAt ==
    ASSUME NEW t \in Text, NEW x \in 1..(Len(t) + 1),
           x = Len(t) + 1 \/ ~IsNameChar(t[x - 1]) \/ t[x] = "nl"
    PROVE  Boundary(t, x)
<1>1. Len(t) \in Nat
  BY DEF Text
<1>2. CASE x = Len(t) + 1
  BY <1>1, <1>2 DEF Boundary
<1>3. CASE ~IsNameChar(t[x - 1])
  <2>1. t[x - 1] # "E"
    BY <1>3, NoName
  <2> QED BY <1>3, <2>1 DEF Boundary
<1>4. CASE t[x] = "nl"
  <2>1. ~IsNameChar(t[x]) /\ t[x] # "q"
    BY <1>4, NoName
  <2> QED BY <2>1 DEF Boundary
<1> QED BY <1>2, <1>3, <1>4

(* A token ends past its beginning, where another begins.                  *)
LEMMA TokenEnds ==
    ASSUME NEW t \in Text, NEW i \in 1..Len(t), NEW escaping \in BOOLEAN
    PROVE  /\ Token(t, i, escaping).kind \in KnownKinds
           /\ Token(t, i, escaping).to \in (i + 1)..(Len(t) + 1)
           /\ Boundary(t, Token(t, i, escaping).to)
<1> DEFINE k == Token(t, i, escaping)
           Good(to) == /\ to \in (i + 1)..(Len(t) + 1)
                       /\ to \in 1..(Len(t) + 1)
                       /\ to = Len(t) + 1 \/ ~IsNameChar(t[to - 1]) \/ t[to] = "nl"
<1> SUFFICES k.kind \in KnownKinds /\ k.to \in (i + 1)..(Len(t) + 1) /\ Boundary(t, k.to)
  OBVIOUS
<1>1. Len(t) \in Nat /\ i + 1 \in 1..(Len(t) + 1) /\ (i + 1) - 1 = i /\ Sym(t, i) = t[i]
  BY SymAt DEF Text
<1>2. "q" \in Quotes /\ "Q" \in Quotes /\ TRUE \in BOOLEAN /\ FALSE \in BOOLEAN
  BY DEF Quotes
<1>3. CASE BeginsEscaping(t, i)
  <2>1. i + 1 \in 1..Len(t) /\ i + 2 \in 1..(Len(t) + 1)
    <3>1. Sym(t, i + 1) = "q"
      BY <1>3 DEF BeginsEscaping
    <3> QED BY <1>1, <3>1, SymAt
  <2>2. k = [kind |-> "string", to |-> QuotedEnds(t, "q", TRUE)[i + 2]]
    BY <1>3 DEF Token
  <2> DEFINE e == QuotedEnds(t, "q", TRUE)[i + 2]
  <2>3. e \in (i + 2)..(Len(t) + 1) /\ (e = Len(t) + 1 \/ t[e - 1] = "q")
    BY <1>2, <2>1, QuotedEndsRange
  <2> HIDE DEF e
  <2>4. Good(e)
    <3>1. e = Len(t) + 1 \/ ~IsNameChar(t[e - 1])
      BY <2>3, NoName
    <3>2. e \in (i + 1)..(Len(t) + 1) /\ e \in 1..(Len(t) + 1)
      BY <1>1, <2>3
    <3> QED BY <3>1, <3>2
  <2>5. k.kind = "string" /\ k.to = e
    BY <2>2 DEF e
  <2> HIDE DEF k
  <2> QED BY <2>4, <2>5, BoundaryAt DEF KnownKinds
<1>4. CASE ~BeginsEscaping(t, i) /\ t[i] = "q"
  <2>2. k = [kind |-> "string", to |-> QuotedEnds(t, "q", escaping)[i + 1]]
    BY <1>4 DEF Token, BeginsEscaping
  <2> DEFINE e == QuotedEnds(t, "q", escaping)[i + 1]
  <2>3. e \in (i + 1)..(Len(t) + 1) /\ (e = Len(t) + 1 \/ t[e - 1] = "q")
    BY <1>1, <1>2, <1>4, QuotedEndsRange
  <2> HIDE DEF e
  <2>4. Good(e)
    <3>1. e = Len(t) + 1 \/ ~IsNameChar(t[e - 1])
      BY <2>3, NoName
    <3>2. e \in (i + 1)..(Len(t) + 1) /\ e \in 1..(Len(t) + 1)
      BY <1>1, <2>3
    <3> QED BY <3>1, <3>2
  <2>5. k.kind = "string" /\ k.to = e
    BY <2>2 DEF e
  <2> HIDE DEF k
  <2> QED BY <2>4, <2>5, BoundaryAt DEF KnownKinds
<1>5. CASE t[i] = "Q"
  <2>2. k = [kind |-> "quoted", to |-> QuotedEnds(t, "Q", FALSE)[i + 1]]
    BY <1>5 DEF Token, BeginsEscaping
  <2> DEFINE e == QuotedEnds(t, "Q", FALSE)[i + 1]
  <2>3. e \in (i + 1)..(Len(t) + 1) /\ (e = Len(t) + 1 \/ t[e - 1] = "Q")
    BY <1>1, <1>2, <1>5, QuotedEndsRange
  <2> HIDE DEF e
  <2>4. Good(e)
    <3>1. e = Len(t) + 1 \/ ~IsNameChar(t[e - 1])
      BY <2>3, NoName
    <3>2. e \in (i + 1)..(Len(t) + 1) /\ e \in 1..(Len(t) + 1)
      BY <1>1, <2>3
    <3> QED BY <3>1, <3>2
  <2>5. k.kind = "quoted" /\ k.to = e
    BY <2>2 DEF e
  <2> HIDE DEF k
  <2> QED BY <2>4, <2>5, BoundaryAt DEF KnownKinds
<1>6. CASE t[i] = "$" /\ TagEnd(t, i) > 0
  <2>2. k = [kind |-> "string", to |-> BodyEnd(t, i, TagEnd(t, i) - i)]
    BY <1>6 DEF Token, BeginsEscaping
  <2> DEFINE e == BodyEnd(t, i, TagEnd(t, i) - i)
  <2>3. e \in (i + 1)..(Len(t) + 1) /\ (e = Len(t) + 1 \/ t[e - 1] = "$")
    BY <1>1, <1>2, <1>6, BodyEnds
  <2> HIDE DEF e
  <2>4. Good(e)
    <3>1. e = Len(t) + 1 \/ ~IsNameChar(t[e - 1])
      BY <2>3, NoName
    <3>2. e \in (i + 1)..(Len(t) + 1) /\ e \in 1..(Len(t) + 1)
      BY <1>1, <2>3
    <3> QED BY <3>1, <3>2
  <2>5. k.kind = "string" /\ k.to = e
    BY <2>2 DEF e
  <2> HIDE DEF k
  <2> QED BY <2>4, <2>5, BoundaryAt DEF KnownKinds
<1> DEFINE Rest == ~BeginsEscaping(t, i) /\ t[i] \notin {"q", "Q"} /\ ~(t[i] = "$" /\ TagEnd(t, i) > 0)
<1>7. CASE Rest /\ Holds(t, i, <<"-", "-">>)
  <2>1. t[i] = "-" /\ t[i] # "nl"
    BY <1>7, HoldsFirst
  <2>2. k = [kind |-> "comment", to |-> LineEnd(t, i)]
    BY <1>7 DEF Token
  <2> DEFINE e == LineEnd(t, i)
  <2>3. e \in (i + 1)..(Len(t) + 1) /\ (e = Len(t) + 1 \/ t[e] = "nl")
    BY <1>1, <2>1, LineEnds
  <2> HIDE DEF e
  <2>4. Good(e)
    BY <1>1, <2>3
  <2>5. k.kind = "comment" /\ k.to = e
    BY <2>2 DEF e
  <2> HIDE DEF k
  <2> QED BY <2>4, <2>5, BoundaryAt DEF KnownKinds
<1>8. CASE Rest /\ ~Holds(t, i, <<"-", "-">>) /\ Holds(t, i, <<"/", "*">>)
  <2>2. k = [kind |-> "comment", to |-> CommentEnds(t)[i][0]]
    BY <1>8 DEF Token
  <2> DEFINE e == CommentEnds(t)[i][0]
  <2>4. e \in (i + 1)..(Len(t) + 1) /\ (e = Len(t) + 1 \/ t[e - 1] = "/")
    BY <1>8, CommentEndsAfter
  <2> HIDE DEF e
  <2>5. Good(e)
    <3>1. e = Len(t) + 1 \/ ~IsNameChar(t[e - 1])
      BY <2>4, NoName
    <3>2. e \in (i + 1)..(Len(t) + 1) /\ e \in 1..(Len(t) + 1)
      BY <1>1, <2>4
    <3> QED BY <3>1, <3>2
  <2>6. k.kind = "comment" /\ k.to = e
    BY <2>2 DEF e
  <2> HIDE DEF k
  <2> QED BY <2>5, <2>6, BoundaryAt DEF KnownKinds
<1> DEFINE Plainly == Rest /\ ~Holds(t, i, <<"-", "-">>) /\ ~Holds(t, i, <<"/", "*">>)
<1>9. CASE Plainly /\ t[i] \in {" ", "nl"}
  <2>1. k.kind = "space" /\ k.to = i + 1
    BY <1>9 DEF Token
  <2>2. Good(i + 1)
    <3>1. ~IsNameChar(t[i])
      BY <1>9, NoName
    <3> QED BY <1>1, <3>1
  <2> HIDE DEF k
  <2> QED BY <2>1, <2>2, BoundaryAt DEF KnownKinds
<1>10. CASE Plainly /\ t[i] \notin {" ", "nl"} /\ IsNameChar(t[i])
  <2>0. IsNameStart(t[i]) \/ t[i] \in Digits
    BY <1>10, NameStarts
  <2>1. k.kind \in {"word", "number"} /\ k.to = NameRunEnd(t, i)
    BY <1>10, <2>0 DEF Token
  <2> HIDE DEF k
  <2>2. /\ k.to \in i..(Len(t) + 1) /\ \A x \in i..(k.to - 1) : IsNameChar(t[x])
        /\ k.to <= Len(t) => ~IsNameChar(t[k.to])
    BY <1>1, <2>1, NameRunEnds
  <2>3. k.to > i
    <3>1. k.to <= Len(t) => k.to # i
      BY <1>10, <2>2
    <3> QED BY <1>1, <2>2, <3>1
  <2>4. ASSUME k.to <= Len(t), t[k.to] = "q", t[k.to - 1] = "E"
        PROVE  k.to > 2 /\ IsNameChar(t[k.to - 2])
    <3>1. CASE k.to = i + 1
      <4>1. Sym(t, i + 1) = t[i + 1]
        BY <1>1, <2>4, <3>1, SymAt
      <4>2. t[i] = "E" /\ t[i + 1] = "q"
        BY <1>1, <2>4, <3>1
      <4> QED BY <4>1, <4>2, <1>10 DEF BeginsEscaping
    <3>2. CASE k.to > i + 1
      BY <1>1, <2>2, <3>2
    <3> QED BY <1>1, <2>2, <2>3, <3>1, <3>2
  <2>5. Boundary(t, k.to)
    BY <2>2, <2>4 DEF Boundary
  <2>6. k.to \in (i + 1)..(Len(t) + 1)
    BY <1>1, <2>2, <2>3
  <2> QED BY <2>1, <2>5, <2>6 DEF KnownKinds
<1>11. CASE Plainly /\ t[i] \notin {" ", "nl"} /\ ~IsNameChar(t[i])
  <2>0. ~IsNameStart(t[i]) /\ t[i] \notin Digits
    BY <1>11, NameStarts
  <2>1. k.kind = "punct" /\ k.to = i + 1
    BY <1>11, <2>0 DEF Token
  <2>2. Good(i + 1)
    <3>1. ~IsNameChar(t[i])
      BY <1>11
    <3> QED BY <1>1, <3>1
  <2> HIDE DEF k
  <2> QED BY <2>1, <2>2, BoundaryAt DEF KnownKinds
<1> QED BY <1>3, <1>4, <1>5, <1>6, <1>7, <1>8, <1>9, <1>10, <1>11

(* What the driver takes for a literal at a place.                         *)
LEMMA LiteralEndIs ==
    ASSUME NEW t \in Text, NEW i \in 1..Len(t), NEW escaping \in BOOLEAN
    PROVE  /\ t[i] = "q" => LiteralEnd(t, i, escaping) = QuotedEnds(t, "q", Escapes(t, i, escaping))[i + 1]
           /\ t[i] = "Q" => LiteralEnd(t, i, escaping) = QuotedEnds(t, "Q", FALSE)[i + 1]
           /\ t[i] = "$" => LiteralEnd(t, i, escaping) =
                               IF TagEnd(t, i) = 0 THEN 0 ELSE BodyEnd(t, i, TagEnd(t, i) - i)
           /\ t[i] \notin {"q", "Q", "$"} =>
                 LiteralEnd(t, i, escaping) = IF Holds(t, i, <<"-", "-">>) THEN LineEnd(t, i)
                                              ELSE IF Holds(t, i, <<"/", "*">>) THEN CommentEnds(t)[i][0] ELSE 0
<1>1. Len(t) \in Nat /\ i + 1 \in 2..(Len(t) + 1) /\ (i + 1) - 1 = i
  BY DEF Text
<1>2. "q" \in Quotes /\ "Q" \in Quotes /\ FALSE \in BOOLEAN
  BY DEF Quotes
<1>3. Escapes(t, i, escaping) \in BOOLEAN
  BY DEF Escapes
<1>4. CASE t[i] = "q"
  <2>1. LiteralEnd(t, i, escaping) = QuotesEnd(t, "q", Escapes(t, i, escaping))[i + 1]
    BY <1>4 DEF LiteralEnd, EndOfQuoted
  <2>2. QuotesEnd(t, "q", Escapes(t, i, escaping))[i + 1] = QuotedEnds(t, "q", Escapes(t, i, escaping))[i + 1]
    BY <1>1, <1>2, <1>3, <1>4, QuotesEndAlike
  <2> QED BY <1>4, <2>1, <2>2
<1>5. CASE t[i] = "Q"
  <2>1. Escapes(t, i, escaping) = FALSE
    BY <1>5 DEF Escapes
  <2>2. LiteralEnd(t, i, escaping) = QuotesEnd(t, "Q", FALSE)[i + 1]
    BY <1>5, <2>1 DEF LiteralEnd, EndOfQuoted
  <2>3. QuotesEnd(t, "Q", FALSE)[i + 1] = QuotedEnds(t, "Q", FALSE)[i + 1]
    BY <1>1, <1>2, <1>5, QuotesEndAlike
  <2> QED BY <1>5, <2>2, <2>3
<1>6. CASE t[i] = "$"
  <2>1. DollarTagEnd(t, i) = TagEnd(t, i)
    BY DEF DollarTagEnd, TagEnd, NameRunEnd
  <2>2. EndOfBody(t, i, TagEnd(t, i) - i) = BodyEnd(t, i, TagEnd(t, i) - i)
    BY DEF EndOfBody, BodyEnd
  <2>3. LiteralEnd(t, i, escaping) =
           IF DollarTagEnd(t, i) = 0 THEN 0 ELSE EndOfBody(t, i, DollarTagEnd(t, i) - i)
    BY <1>6 DEF LiteralEnd
  <2> QED BY <1>6, <2>1, <2>2, <2>3
<1>7. CASE t[i] \notin {"q", "Q", "$"}
  <2>1. LiteralEnd(t, i, escaping) = IF Holds(t, i, <<"-", "-">>) THEN LineEnd(t, i)
                                     ELSE IF Holds(t, i, <<"/", "*">>) THEN BlockCommentsEnd(t)[i][0] ELSE 0
    BY <1>7 DEF LiteralEnd, LineEnd
  <2> QED BY <1>7, <2>1, SameComments
<1> QED BY <1>4, <1>5, <1>6, <1>7

(* A literal ends past its beginning.                                      *)
LEMMA LiteralEndRange ==
    ASSUME NEW t \in Text, NEW i \in 1..Len(t), NEW escaping \in BOOLEAN
    PROVE  LiteralEnd(t, i, escaping) = 0 \/ LiteralEnd(t, i, escaping) \in (i + 1)..(Len(t) + 1)
<1> DEFINE e == LiteralEnd(t, i, escaping)
<1>1. Len(t) \in Nat /\ i + 1 \in 1..(Len(t) + 1) /\ i \in 1..(Len(t) + 1)
  BY DEF Text
<1>2. "q" \in Quotes /\ "Q" \in Quotes /\ FALSE \in BOOLEAN
  BY DEF Quotes
<1>3. Escapes(t, i, escaping) \in BOOLEAN
  BY DEF Escapes
<1>4. CASE t[i] = "q"
  <2>1. QuotedEnds(t, "q", Escapes(t, i, escaping))[i + 1] \in (i + 1)..(Len(t) + 1)
    BY <1>1, <1>2, <1>3, QuotedEndsRange
  <2> QED BY <1>4, <2>1, LiteralEndIs
<1>5. CASE t[i] = "Q"
  <2>1. QuotedEnds(t, "Q", FALSE)[i + 1] \in (i + 1)..(Len(t) + 1)
    BY <1>1, <1>2, QuotedEndsRange
  <2> QED BY <1>5, <2>1, LiteralEndIs
<1>6. CASE t[i] = "$"
  <2>1. TagEnd(t, i) # 0 => BodyEnd(t, i, TagEnd(t, i) - i) \in (i + 1)..(Len(t) + 1)
    BY BodyEnds
  <2>2. e = IF TagEnd(t, i) = 0 THEN 0 ELSE BodyEnd(t, i, TagEnd(t, i) - i)
    BY <1>6, LiteralEndIs
  <2> QED BY <2>1, <2>2
<1>7. CASE t[i] \notin {"q", "Q", "$"}
  <2>1. e = IF Holds(t, i, <<"-", "-">>) THEN LineEnd(t, i)
            ELSE IF Holds(t, i, <<"/", "*">>) THEN CommentEnds(t)[i][0] ELSE 0
    BY <1>7, LiteralEndIs
  <2>2. Holds(t, i, <<"-", "-">>) => LineEnd(t, i) \in (i + 1)..(Len(t) + 1)
    BY HoldsFirst, LineEnds
  <2>3. Holds(t, i, <<"/", "*">>) => CommentEnds(t)[i][0] \in (i + 1)..(Len(t) + 1)
    BY CommentEndsAfter
  <2> QED BY <2>1, <2>2, <2>3
<1> QED BY <1>4, <1>5, <1>6, <1>7

(* At a place where a token begins the two begin the same.                 *)
LEMMA NoLiteralInAName ==
    ASSUME NEW t \in Text, NEW i \in 1..Len(t), NEW escaping \in BOOLEAN, IsNameChar(t[i])
    PROVE  LiteralEnd(t, i, escaping) = 0
<1>1. t[i] \notin {"q", "Q", "$", "-", "/"}
  BY NoName
<1>2. ~Holds(t, i, <<"-", "-">>) /\ ~Holds(t, i, <<"/", "*">>)
  BY <1>1, HoldsFirst
<1> QED BY <1>1, <1>2, LiteralEndIs

(* A quote where the server has no E before it escapes only as every       *)
(* string does.                                                            *)
LEMMA EscapesAsTheServer ==
    ASSUME NEW t \in Text, NEW i \in 1..Len(t), NEW escaping \in BOOLEAN, Boundary(t, i), t[i] = "q"
    PROVE  Escapes(t, i, escaping) = escaping
<1>1. Len(t) \in Nat
  BY DEF Text
<1>2. ~(Sym(t, i - 1) = "E" /\ ~IsNameChar(Sym(t, i - 2)))
  <2>1. SUFFICES ASSUME Sym(t, i - 1) = "E" PROVE IsNameChar(Sym(t, i - 2))
    OBVIOUS
  <2>2. i - 1 \in 1..Len(t) /\ t[i - 1] = "E"
    BY <1>1, <2>1, SymAt
  <2>3. i > 1 /\ i <= Len(t)
    BY <1>1, <2>2
  <2>4. i > 2 /\ IsNameChar(t[i - 2])
    BY <2>2, <2>3 DEF Boundary
  <2>5. Sym(t, i - 2) = t[i - 2]
    BY <1>1, <2>4, SymAt
  <2> QED BY <2>4, <2>5
<1> QED BY <1>2 DEF Escapes

(* A quote behind an E that begins a token escapes.                        *)
LEMMA EscapesBehindE ==
    ASSUME NEW t \in Text, NEW i \in 1..Len(t), NEW escaping \in BOOLEAN, Boundary(t, i), BeginsEscaping(t, i)
    PROVE  /\ i + 1 \in 1..Len(t) /\ t[i + 1] = "q" /\ t[i] = "E"
           /\ Escapes(t, i + 1, escaping) = TRUE
<1>1. Len(t) \in Nat
  BY DEF Text
<1>2. t[i] = "E" /\ Sym(t, i + 1) = "q"
  BY DEF BeginsEscaping
<1>3. i + 1 \in 1..Len(t) /\ t[i + 1] = "q"
  BY <1>1, <1>2, SymAt
<1>4. ~IsNameChar(Sym(t, i - 1))
  <2>1. CASE i = 1
    <3>1. Sym(t, i - 1) = "end"
      BY <1>1, <2>1, SymAt
    <3> QED BY <3>1, NoName
  <2>2. CASE i > 1
    <3>1. Sym(t, i - 1) = t[i - 1] /\ i <= Len(t)
      BY <1>1, <2>2, SymAt
    <3>2. ~(IsNameChar(t[i - 1]) /\ IsNameChar(t[i]))
      BY <2>2, <3>1 DEF Boundary
    <3> QED BY <1>2, <3>1, <3>2, NoName
  <2> QED BY <1>1, <2>1, <2>2
<1>5. (i + 1) - 1 = i /\ (i + 1) - 2 = i - 1 /\ Sym(t, i) = t[i]
  BY <1>1, SymAt
<1>6. Escapes(t, i + 1, escaping) <=>
         t[i + 1] = "q" /\ (escaping \/ (Sym(t, (i + 1) - 1) = "E" /\ ~IsNameChar(Sym(t, (i + 1) - 2))))
  BY DEF Escapes
<1>7. Escapes(t, i + 1, escaping) \in BOOLEAN
  BY DEF Escapes
<1>8. Escapes(t, i + 1, escaping)
  BY <1>2, <1>3, <1>4, <1>5, <1>6
<1> QED BY <1>2, <1>3, <1>7, <1>8

(* At a token of the server's, the driver takes the same for a literal.    *)
LEMMA LiteralAlike ==
    ASSUME NEW t \in Text, NEW i \in 1..Len(t), NEW escaping \in BOOLEAN, Boundary(t, i)
    PROVE  /\ BeginsEscaping(t, i) =>
                 /\ Token(t, i, escaping).kind = "string"
                 /\ LiteralEnd(t, i, escaping) = 0 /\ i + 1 \in 1..Len(t)
                 /\ LiteralEnd(t, i + 1, escaping) = Token(t, i, escaping).to
           /\ ~BeginsEscaping(t, i) /\ Token(t, i, escaping).kind \in Literals =>
                 LiteralEnd(t, i, escaping) = Token(t, i, escaping).to
           /\ Token(t, i, escaping).kind \notin Literals =>
                 \A x \in i..(Token(t, i, escaping).to - 1) : LiteralEnd(t, x, escaping) = 0
<1> DEFINE k == Token(t, i, escaping)
           e == LiteralEnd(t, i, escaping)
<1>1. Len(t) \in Nat /\ i \in 1..(Len(t) + 1)
  BY DEF Text
<1>2. CASE BeginsEscaping(t, i)
  <2>1. i + 1 \in 1..Len(t) /\ t[i + 1] = "q" /\ t[i] = "E" /\ Escapes(t, i + 1, escaping) = TRUE
    BY <1>2, EscapesBehindE
  <2>2. k = [kind |-> "string", to |-> QuotedEnds(t, "q", TRUE)[i + 2]]
    BY <1>2 DEF Token
  <2>3. LiteralEnd(t, i + 1, escaping) = QuotedEnds(t, "q", TRUE)[(i + 1) + 1]
    BY <2>1, LiteralEndIs
  <2>4. (i + 1) + 1 = i + 2
    BY <1>1
  <2>5. e = 0
    <3>1. IsNameChar(t[i])
      BY <2>1, NoName
    <3> QED BY <3>1, NoLiteralInAName
  <2>6. k.kind = "string" /\ k.to = QuotedEnds(t, "q", TRUE)[i + 2]
    BY <2>2
  <2>7. "string" \in Literals
    BY DEF Literals
  <2> HIDE DEF k, e
  <2>8. k.kind = "string" /\ e = 0 /\ i + 1 \in 1..Len(t) /\ LiteralEnd(t, i + 1, escaping) = k.to
    BY <2>1, <2>3, <2>4, <2>5, <2>6
  <2> QED BY <1>2, <2>7, <2>8 DEF k, e
<1>3. CASE ~BeginsEscaping(t, i) /\ t[i] = "q"
  <2>1. Escapes(t, i, escaping) = escaping
    BY <1>3, EscapesAsTheServer
  <2>2. e = QuotedEnds(t, "q", escaping)[i + 1]
    BY <1>3, <2>1, LiteralEndIs
  <2>3. k = [kind |-> "string", to |-> QuotedEnds(t, "q", escaping)[i + 1]]
    BY <1>3 DEF Token
  <2> QED BY <1>3, <2>2, <2>3 DEF Literals
<1>4. CASE t[i] = "Q"
  <2>1. ~BeginsEscaping(t, i)
    BY <1>4 DEF BeginsEscaping
  <2>2. e = QuotedEnds(t, "Q", FALSE)[i + 1]
    BY <1>4, LiteralEndIs
  <2>3. k = [kind |-> "quoted", to |-> QuotedEnds(t, "Q", FALSE)[i + 1]]
    BY <1>4, <2>1 DEF Token
  <2> QED BY <2>1, <2>2, <2>3 DEF Literals
<1>5. CASE t[i] = "$" /\ TagEnd(t, i) # 0
  <2>1. ~BeginsEscaping(t, i)
    BY <1>5 DEF BeginsEscaping
  <2>2. e = BodyEnd(t, i, TagEnd(t, i) - i)
    BY <1>5, LiteralEndIs
  <2>3. TagEnd(t, i) > 0
    BY <1>1, <1>5, TagEnds
  <2>4. k = [kind |-> "string", to |-> BodyEnd(t, i, TagEnd(t, i) - i)]
    BY <1>5, <2>1, <2>3 DEF Token
  <2> QED BY <2>1, <2>2, <2>4 DEF Literals
<1> DEFINE Rest == ~BeginsEscaping(t, i) /\ t[i] \notin {"q", "Q"} /\ ~(t[i] = "$" /\ TagEnd(t, i) # 0)
<1>6. CASE Rest /\ Holds(t, i, <<"-", "-">>)
  <2>1. t[i] = "-"
    BY <1>6, HoldsFirst
  <2>2. e = LineEnd(t, i)
    BY <1>6, <2>1, LiteralEndIs
  <2>3. k = [kind |-> "comment", to |-> LineEnd(t, i)]
    BY <1>6, <2>1 DEF Token
  <2> QED BY <1>6, <2>2, <2>3 DEF Literals
<1>7. CASE Rest /\ ~Holds(t, i, <<"-", "-">>) /\ Holds(t, i, <<"/", "*">>)
  <2>1. t[i] = "/"
    BY <1>7, HoldsFirst
  <2>2. e = CommentEnds(t)[i][0]
    BY <1>7, <2>1, LiteralEndIs
  <2>3. k = [kind |-> "comment", to |-> CommentEnds(t)[i][0]]
    BY <1>7, <2>1 DEF Token
  <2> QED BY <1>7, <2>2, <2>3 DEF Literals
<1> DEFINE Plainly == Rest /\ ~Holds(t, i, <<"-", "-">>) /\ ~Holds(t, i, <<"/", "*">>)
<1>8. CASE Plainly /\ IsNameChar(t[i])
  <2>0. t[i] \notin {"$", " ", "nl"} /\ (IsNameStart(t[i]) \/ t[i] \in Digits)
    BY <1>8, NameStarts, NoName
  <2>1. k.kind \in {"word", "number"} /\ k.to = NameRunEnd(t, i)
    BY <1>8, <2>0 DEF Token
  <2>2. ASSUME NEW x \in i..(NameRunEnd(t, i) - 1)
        PROVE  LiteralEnd(t, x, escaping) = 0
    <3>1. NameRunEnd(t, i) \in i..(Len(t) + 1) /\ IsNameChar(t[x])
      BY <1>1, NameRunEnds
    <3>2. x \in 1..Len(t)
      BY <1>1, <3>1
    <3> QED BY <3>1, <3>2, NoLiteralInAName
  <2>3. k.kind \notin Literals
    BY <2>1 DEF Literals
  <2> QED BY <1>8, <2>1, <2>2, <2>3
<1>9. CASE Plainly /\ ~IsNameChar(t[i])
  <2>0. ~IsNameStart(t[i]) /\ t[i] \notin Digits
    BY <1>9, NameStarts
  <2>1. ~(t[i] = "$" /\ TagEnd(t, i) > 0)
    BY <1>9
  <2>2. k.kind \in {"space", "punct"} /\ k.to = i + 1
    BY <1>9, <2>0, <2>1 DEF Token
  <2>3. e = 0
    BY <1>9, LiteralEndIs
  <2>4. k.kind \notin Literals
    BY <2>2 DEF Literals
  <2>5. \A x \in i..(k.to - 1) : x = i
    <3> HIDE DEF k
    <3> QED BY <1>1, <2>2
  <2> QED BY <1>9, <2>3, <2>4, <2>5
<1> QED BY <1>2, <1>3, <1>4, <1>5, <1>6, <1>7, <1>8, <1>9

(* What the server takes for no syntax, from a place on.                   *)
LEMMA NoSyntaxRecurs ==
    ASSUME NEW t \in Text, NEW escaping \in BOOLEAN, NEW i \in 1..(Len(t) + 1)
    PROVE  NoSyntaxFrom(t, escaping)[i] =
              IF i > Len(t) THEN {}
              ELSE (IF Token(t, i, escaping).kind \in Literals THEN Opens(t, i)..(Token(t, i, escaping).to - 1) ELSE {})
                   \cup NoSyntaxFrom(t, escaping)[Token(t, i, escaping).to]
<1> DEFINE N == Len(t) + 1
           V == SUBSET Int
           blank(x) == IF Token(t, x, escaping).kind \in Literals THEN Opens(t, x)..(Token(t, x, escaping).to - 1) ELSE {}
           e(x, f) == IF x > Len(t) THEN {} ELSE blank(x) \cup f[Token(t, x, escaping).to]
           G == [x \in 1..N |-> [f \in [1..N -> V] |-> e(x, f)]]
<1>1. N \in Nat
  BY DEF Text
<1>2. ASSUME NEW x \in 1..N, NEW f \in [1..N -> V]
      PROVE  e(x, f) \in V /\ \A g \in [1..N -> V] : (\A y \in (x + 1)..N : f[y] = g[y]) => e(x, f) = e(x, g)
  <2>1. CASE x > Len(t)
    BY <2>1
  <2>2. CASE x <= Len(t)
    <3>1. Token(t, x, escaping).to \in (x + 1)..N
      BY <1>1, <2>2, TokenEnds
    <3>2. Token(t, x, escaping).to \in 1..N
      BY <1>1, <3>1
    <3>3. blank(x) \in V
      OBVIOUS
    <3>4. e(x, f) = blank(x) \cup f[Token(t, x, escaping).to] /\ ~(x > Len(t))
      BY <1>1, <2>2
    <3>5. e(x, f) \in V
      <4>1. f[Token(t, x, escaping).to] \in V
        BY <3>2
      <4> HIDE DEF blank
      <4> QED BY <3>3, <3>4, <4>1
    <3>6. ASSUME NEW g \in [1..N -> V], \A y \in (x + 1)..N : f[y] = g[y]
          PROVE  e(x, f) = e(x, g)
      <4>1. f[Token(t, x, escaping).to] = g[Token(t, x, escaping).to]
        BY <3>1, <3>6
      <4> HIDE DEF blank, V
      <4> QED BY <4>1
    <3> HIDE DEF e, V
    <3> QED BY <3>5, <3>6
  <2>3. x > Len(t) \/ x <= Len(t)
    BY <1>1
  <2> HIDE DEF e, V
  <2> QED BY <2>1, <2>2, <2>3
<1>3. G \in [1..N -> [[1..N -> V] -> V]]
  <2> HIDE DEF V, e
  <2> QED BY <1>2
<1>4. \A x \in 1..N : \A f, g \in [1..N -> V] :
         (\A y \in (x + 1)..N : f[y] = g[y]) => G[x][f] = G[x][g]
  <2> HIDE DEF V, e
  <2> QED BY <1>2
<1>5. PICK f \in [1..N -> V] : \A x \in 1..N : f[x] = G[x][f]
  <2>0. V # {}
    OBVIOUS
  <2> HIDE DEF G, N, V
  <2>1. Causal(N, V, G)
    BY <1>1, <1>3, <1>4, <2>0 DEF Causal
  <2> QED BY <2>1, Recursion DEF Solvable
<1>6. f = [x \in 1..N |-> e(x, f)]
  <2> HIDE DEF e, V
  <2> QED BY <1>5
<1>7. NoSyntaxFrom(t, escaping) = [x \in 1..N |-> e(x, NoSyntaxFrom(t, escaping))]
  BY <1>6 DEF NoSyntaxFrom
<1> QED BY <1>7

(* What the driver blanks, from a place on.                                *)
LEMMA BlankedRecurs ==
    ASSUME NEW t \in Text, NEW escaping \in BOOLEAN, NEW p \in 1..(Len(t) + 1)
    PROVE  BlankedFrom(t, escaping)[p] =
              IF p > Len(t) THEN {}
              ELSE IF LiteralEnd(t, p, escaping) = 0 THEN BlankedFrom(t, escaping)[p + 1]
              ELSE (p..(LiteralEnd(t, p, escaping) - 1)) \cup BlankedFrom(t, escaping)[LiteralEnd(t, p, escaping)]
<1> DEFINE N == Len(t) + 1
           V == SUBSET Int
           blank(x) == x..(LiteralEnd(t, x, escaping) - 1)
           e(x, f) == IF x > Len(t) THEN {}
                      ELSE IF LiteralEnd(t, x, escaping) = 0 THEN f[x + 1]
                      ELSE blank(x) \cup f[LiteralEnd(t, x, escaping)]
           G == [x \in 1..N |-> [f \in [1..N -> V] |-> e(x, f)]]
<1>1. N \in Nat
  BY DEF Text
<1>2. ASSUME NEW x \in 1..N, NEW f \in [1..N -> V]
      PROVE  e(x, f) \in V /\ \A g \in [1..N -> V] : (\A y \in (x + 1)..N : f[y] = g[y]) => e(x, f) = e(x, g)
  <2>1. CASE x > Len(t)
    BY <2>1
  <2>2. CASE x <= Len(t)
    <3>1. LiteralEnd(t, x, escaping) = 0 \/ LiteralEnd(t, x, escaping) \in (x + 1)..N
      BY <1>1, <2>2, LiteralEndRange
    <3>2. x + 1 \in (x + 1)..N /\ \A y \in (x + 1)..N : y \in 1..N
      BY <1>1, <2>2
    <3>3. blank(x) \in V
      OBVIOUS
    <3>4. ~(x > Len(t))
      BY <1>1, <2>2
    <3>5. CASE LiteralEnd(t, x, escaping) = 0
      <4>1. e(x, f) = f[x + 1] /\ \A g : e(x, g) = g[x + 1]
        BY <3>4, <3>5
      <4>2. f[x + 1] \in V
        BY <3>2
      <4> HIDE DEF e, V
      <4> QED BY <3>2, <4>1, <4>2
    <3>6. CASE LiteralEnd(t, x, escaping) # 0
      <4> DEFINE y == LiteralEnd(t, x, escaping)
      <4>1. e(x, f) = blank(x) \cup f[y] /\ \A g : e(x, g) = blank(x) \cup g[y]
        BY <3>4, <3>6
      <4>2. f[y] \in V /\ y \in (x + 1)..N
        BY <3>1, <3>2, <3>6
      <4> HIDE DEF blank, y, e
      <4>3. e(x, f) \in V
        BY <3>3, <4>1, <4>2
      <4> HIDE DEF V
      <4> QED BY <4>1, <4>2, <4>3
    <3> QED BY <3>5, <3>6
  <2>3. x > Len(t) \/ x <= Len(t)
    BY <1>1
  <2> HIDE DEF e, V
  <2> QED BY <2>1, <2>2, <2>3
<1>3. G \in [1..N -> [[1..N -> V] -> V]]
  <2> HIDE DEF V, e
  <2> QED BY <1>2
<1>4. \A x \in 1..N : \A f, g \in [1..N -> V] :
         (\A y \in (x + 1)..N : f[y] = g[y]) => G[x][f] = G[x][g]
  <2> HIDE DEF V, e
  <2> QED BY <1>2
<1>5. PICK f \in [1..N -> V] : \A x \in 1..N : f[x] = G[x][f]
  <2>0. V # {}
    OBVIOUS
  <2> HIDE DEF G, N, V
  <2>1. Causal(N, V, G)
    BY <1>1, <1>3, <1>4, <2>0 DEF Causal
  <2> QED BY <2>1, Recursion DEF Solvable
<1>6. f = [x \in 1..N |-> e(x, f)]
  <2> HIDE DEF e, V
  <2> QED BY <1>5
<1>7. BlankedFrom(t, escaping) = [x \in 1..N |-> e(x, BlankedFrom(t, escaping))]
  BY <1>6 DEF BlankedFrom
<1> QED BY <1>7

(* What is no literal is passed over, symbol by symbol.                    *)
LEMMA PassedOver ==
    ASSUME NEW t \in Text, NEW escaping \in BOOLEAN,
           NEW i \in 1..Len(t), NEW j \in (i + 1)..(Len(t) + 1),
           \A x \in i..(j - 1) : LiteralEnd(t, x, escaping) = 0
    PROVE  BlankedFrom(t, escaping)[i] = BlankedFrom(t, escaping)[j]
<1> DEFINE B == BlankedFrom(t, escaping)
           S == {x \in 1..j : x >= i => B[x] = B[j]}
<1>1. Len(t) \in Nat
  BY DEF Text
<1>2. ASSUME NEW x \in 1..j, \A y \in (x + 1)..j : y \in S, x >= i
      PROVE  B[x] = B[j]
  <2>1. CASE x = j
    BY <2>1
  <2>2. CASE x < j
    <3>1. x \in 1..(Len(t) + 1) /\ ~(x > Len(t)) /\ LiteralEnd(t, x, escaping) = 0
      BY <1>1, <1>2, <2>2
    <3>2. B[x] = B[x + 1]
      BY <3>1, BlankedRecurs
    <3>3. x + 1 \in (x + 1)..j /\ x + 1 >= i
      BY <1>1, <1>2, <2>2
    <3>4. B[x + 1] = B[j]
      <4> HIDE DEF B
      <4> QED BY <1>2, <3>3
    <3> QED BY <3>2, <3>4
  <2> QED BY <1>1, <2>1, <2>2
<1>3. ClosedDown(j, S)
  <2> HIDE DEF B
  <2> QED BY <1>1, <1>2 DEF ClosedDown
<1>4. i \in S
  <2>1. i \in 1..j
    BY <1>1
  <2> HIDE DEF S
  <2> QED BY <1>3, <2>1, Downwards
<1> QED BY <1>1, <1>4

(* From wherever a token begins the two are the same.                      *)
LEMMA BlankedFromABoundary ==
    ASSUME NEW t \in Text, NEW escaping \in BOOLEAN, NEW i \in 1..(Len(t) + 1), Boundary(t, i)
    PROVE  BlankedFrom(t, escaping)[i] = NoSyntaxFrom(t, escaping)[i]
<1> DEFINE B == BlankedFrom(t, escaping)
           M == NoSyntaxFrom(t, escaping)
           S == {x \in 1..(Len(t) + 1) : Boundary(t, x) => B[x] = M[x]}
<1>1. Len(t) \in Nat
  BY DEF Text
<1>2. ASSUME NEW x \in 1..(Len(t) + 1), \A y \in (x + 1)..(Len(t) + 1) : y \in S, Boundary(t, x)
      PROVE  B[x] = M[x]
  <2>1. CASE x > Len(t)
    BY <2>1, BlankedRecurs, NoSyntaxRecurs
  <2>2. CASE x <= Len(t)
    <3> DEFINE k == Token(t, x, escaping)
               e == LiteralEnd(t, x, escaping)
    <3>1. x \in 1..Len(t) /\ ~(x > Len(t)) /\ x + 1 \in 1..(Len(t) + 1)
      BY <1>1, <2>2
    <3>2. k.to \in (x + 1)..(Len(t) + 1) /\ Boundary(t, k.to)
      BY <3>1, TokenEnds
    <3>3. B[k.to] = M[k.to]
      <4> HIDE DEF B, M, k
      <4> QED BY <1>2, <3>2
    <3>4. M[x] = (IF k.kind \in Literals THEN Opens(t, x)..(k.to - 1) ELSE {}) \cup M[k.to]
      BY <3>1, NoSyntaxRecurs
    <3>5. B[x] = IF e = 0 THEN B[x + 1] ELSE (x..(e - 1)) \cup B[e]
      BY <3>1, BlankedRecurs
    <3>6. CASE BeginsEscaping(t, x)
      <4>1. k.kind = "string" /\ e = 0 /\ x + 1 \in 1..Len(t) /\ LiteralEnd(t, x + 1, escaping) = k.to
        BY <1>2, <3>1, <3>6, LiteralAlike
      <4>2. x + 1 \in 1..(Len(t) + 1) /\ ~(x + 1 > Len(t)) /\ k.to # 0
        <5> HIDE DEF k, e
        <5> QED BY <1>1, <3>2, <4>1
      <4>3. B[x + 1] = ((x + 1)..(k.to - 1)) \cup B[k.to]
        <5> DEFINE y == x + 1
        <5>1. y \in 1..(Len(t) + 1)
          BY <4>2
        <5>2. B[y] = IF y > Len(t) THEN {}
                     ELSE IF LiteralEnd(t, y, escaping) = 0 THEN B[y + 1]
                     ELSE (y..(LiteralEnd(t, y, escaping) - 1)) \cup B[LiteralEnd(t, y, escaping)]
          <6> HIDE DEF y
          <6> QED BY <5>1, BlankedRecurs
        <5> HIDE DEF B, k
        <5> QED BY <4>1, <4>2, <5>2
      <4>4. Opens(t, x) = x + 1 /\ k.kind \in Literals
        BY <3>6, <4>1 DEF Opens, Literals
      <4> HIDE DEF B, M, k, e
      <4> QED BY <3>3, <3>4, <3>5, <4>1, <4>3, <4>4
    <3>7. CASE ~BeginsEscaping(t, x) /\ k.kind \in Literals
      <4>1. e = k.to
        BY <1>2, <3>1, <3>7, LiteralAlike
      <4>2. Opens(t, x) = x
        BY <3>7 DEF Opens
      <4>3. k.to # 0
        <5> HIDE DEF k
        <5> QED BY <1>1, <3>2
      <4> HIDE DEF B, M, k, e
      <4> QED BY <3>3, <3>4, <3>5, <3>7, <4>1, <4>2, <4>3
    <3>8. CASE ~BeginsEscaping(t, x) /\ k.kind \notin Literals
      <4>1. \A y \in x..(k.to - 1) : LiteralEnd(t, y, escaping) = 0
        BY <1>2, <3>1, <3>8, LiteralAlike
      <4>2. B[x] = B[k.to]
        <5> HIDE DEF k
        <5> QED BY <3>1, <3>2, <4>1, PassedOver
      <4> HIDE DEF B, M, k, e
      <4> QED BY <3>3, <3>4, <3>8, <4>2
    <3> QED BY <3>6, <3>7, <3>8
  <2> QED BY <1>1, <2>1, <2>2
<1>3. ClosedDown(Len(t) + 1, S)
  <2>1. ASSUME NEW x \in 1..(Len(t) + 1), \A y \in (x + 1)..(Len(t) + 1) : y \in S
        PROVE  x \in S
    <3>1. Boundary(t, x) => B[x] = M[x]
      <4> HIDE DEF S, B, M
      <4> QED BY <1>2, <2>1
    <3> HIDE DEF B, M
    <3> QED BY <3>1
  <2> HIDE DEF S
  <2> QED BY <1>1, <2>1 DEF ClosedDown
<1>4. i \in S
  <2> HIDE DEF S
  <2> QED BY <1>3, Downwards
<1> QED BY <1>4

(* Whatever the text and either way of reading backslashes, the driver     *)
(* blanks exactly what the server takes for no syntax.                     *)
THEOREM BlankedAsTheServer ==
    \A t \in Seq(STRING), escaping \in BOOLEAN : Blanked(t, escaping) = NoSyntax(t, escaping)
<1> SUFFICES ASSUME NEW t \in Text, NEW escaping \in BOOLEAN
             PROVE  Blanked(t, escaping) = NoSyntax(t, escaping)
  BY DEF Text
<1>1. 1 \in 1..(Len(t) + 1) /\ Boundary(t, 1)
  BY DEF Text, Boundary
<1> QED BY <1>1, BlankedFromABoundary DEF Blanked, NoSyntax

(* A quoted run the reading of others' text takes to be closed is, where   *)
(* the server closes it.                                                   *)
LEMMA ClosedRecurs ==
    ASSUME NEW t \in Text, NEW quote \in Quotes, NEW escaping \in BOOLEAN, NEW p \in 1..(Len(t) + 2)
    PROVE  ClosingEnds(t, quote, escaping)[p] =
              IF p > Len(t) THEN 0
              ELSE IF t[p] = "b" /\ escaping THEN ClosingEnds(t, quote, escaping)[p + 2]
              ELSE IF t[p] # quote THEN ClosingEnds(t, quote, escaping)[p + 1]
              ELSE IF Sym(t, p + 1) = quote THEN ClosingEnds(t, quote, escaping)[p + 2] ELSE p + 1
<1> DEFINE N == Len(t) + 2
           e(x, f) == IF x > Len(t) THEN 0
              ELSE IF t[x] = "b" /\ escaping THEN f[x + 2]
              ELSE IF t[x] # quote THEN f[x + 1]
              ELSE IF Sym(t, x + 1) = quote THEN f[x + 2] ELSE x + 1
           G == [x \in 1..N |-> [f \in [1..N -> Nat] |-> e(x, f)]]
<1>1. N \in Nat
  BY DEF Text
<1>2. ASSUME NEW x \in 1..N, NEW f \in [1..N -> Nat]
      PROVE  e(x, f) \in Nat /\ \A g \in [1..N -> Nat] : (\A y \in (x + 1)..N : f[y] = g[y]) => e(x, f) = e(x, g)
  BY <1>1 DEF Text
<1>3. G \in [1..N -> [[1..N -> Nat] -> Nat]]
  BY <1>2
<1>4. \A x \in 1..N : \A f, g \in [1..N -> Nat] :
         (\A y \in (x + 1)..N : f[y] = g[y]) => G[x][f] = G[x][g]
  BY <1>2
<1>5. PICK f \in [1..N -> Nat] : \A x \in 1..N : f[x] = G[x][f]
  <2> HIDE DEF G, N
  <2>1. Causal(N, Nat, G)
    BY <1>1, <1>3, <1>4 DEF Causal
  <2> QED BY <2>1, Recursion DEF Solvable
<1>6. f = [x \in 1..N |-> e(x, f)]
  BY <1>5
<1>7. ClosingEnds(t, quote, escaping) = [x \in 1..N |-> e(x, ClosingEnds(t, quote, escaping))]
  BY <1>6 DEF ClosingEnds
<1> QED BY <1>7

(* Where it finds the end, that is the server's.                           *)
LEMMA ClosedAlike ==
    ASSUME NEW t \in Text, NEW quote \in Quotes, NEW escaping \in BOOLEAN, NEW p \in 1..(Len(t) + 1)
    PROVE  ClosingEnds(t, quote, escaping)[p] = 0
           \/ ClosingEnds(t, quote, escaping)[p] = QuotedEnds(t, quote, escaping)[p]
<1> DEFINE C == ClosingEnds(t, quote, escaping)
           E == QuotedEnds(t, quote, escaping)
           S == {x \in 1..(Len(t) + 1) : C[x] = 0 \/ C[x] = E[x]}
<1>1. Len(t) \in Nat
  BY DEF Text
<1>2. ASSUME NEW x \in 1..(Len(t) + 1), \A y \in (x + 1)..(Len(t) + 1) : y \in S
      PROVE  x \in S
  <2>1. Sym(t, x + 1) = quote => x + 1 \in 1..Len(t)
    BY SymAt DEF Quotes, Text
  <2>2. \A y \in (x + 1)..(Len(t) + 1) : C[y] = 0 \/ C[y] = E[y]
    BY <1>2
  <2>3. E[x] = IF x > Len(t) THEN x
              ELSE IF t[x] = "b" /\ escaping THEN IF x = Len(t) THEN x + 1 ELSE E[x + 2]
              ELSE IF t[x] # quote THEN E[x + 1]
              ELSE IF Sym(t, x + 1) = quote THEN E[x + 2] ELSE x + 1
    BY QuotedEndsRecurs
  <2>4. C[x] = IF x > Len(t) THEN 0
              ELSE IF t[x] = "b" /\ escaping THEN C[x + 2]
              ELSE IF t[x] # quote THEN C[x + 1]
              ELSE IF Sym(t, x + 1) = quote THEN C[x + 2] ELSE x + 1
    BY <1>1, ClosedRecurs
  <2>5. C[Len(t) + 2] = 0
    <3>1. Len(t) + 2 \in 1..(Len(t) + 2) /\ Len(t) + 2 > Len(t)
      BY <1>1
    <3> QED BY <3>1, ClosedRecurs
  <2> HIDE DEF C, E
  <2>6. C[x] = 0 \/ C[x] = E[x]
    <3>1. CASE x > Len(t)
      BY <2>4, <3>1
    <3>2. CASE x <= Len(t) /\ t[x] = "b" /\ escaping
      BY <1>1, <2>2, <2>3, <2>4, <2>5, <3>2
    <3>3. CASE x <= Len(t) /\ ~(t[x] = "b" /\ escaping) /\ t[x] # quote
      BY <1>1, <2>2, <2>3, <2>4, <3>3
    <3>4. CASE x <= Len(t) /\ ~(t[x] = "b" /\ escaping) /\ t[x] = quote
      BY <1>1, <2>1, <2>2, <2>3, <2>4, <3>4
    <3> QED BY <1>1, <3>1, <3>2, <3>3, <3>4
  <2> QED BY <2>6
<1>3. \A x \in 1..(Len(t) + 1) : x \in S
  <2> HIDE DEF S
  <2>1. ClosedDown(Len(t) + 1, S)
    BY <1>1, <1>2 DEF ClosedDown
  <2> QED BY <2>1, Downwards
<1> QED BY <1>3

(* What the server passes over.                                            *)
Aside == {"space", "comment"}
(* One token, as others' text is read and as the server reads it: refused, *)
(* or alike.                                                               *)
LEMMA TokenAlike ==
    ASSUME NEW t \in Text, NEW i \in 1..Len(t), NEW escaping \in BOOLEAN
    PROVE  \/ TokenAt(t, i, escaping).kind = "refused"
           \/ /\ TokenAt(t, i, escaping).kind = "space" /\ Token(t, i, escaping).kind = "space"
              /\ TokenAt(t, i, escaping).to = Token(t, i, escaping).to
           \/ /\ TokenAt(t, i, escaping).kind \notin {"refused", "space"}
              /\ Token(t, i, escaping).kind \notin Aside
              /\ TokenAt(t, i, escaping).to = Token(t, i, escaping).to
<1> DEFINE m == TokenAt(t, i, escaping)
           k == Token(t, i, escaping)
           Good == \/ m.kind = "refused"
                   \/ m.kind = "space" /\ k.kind = "space" /\ m.to = k.to
                   \/ m.kind \notin {"refused", "space"} /\ k.kind \notin Aside /\ m.to = k.to
<1> SUFFICES Good
  OBVIOUS
<1>1. Len(t) \in Nat /\ i + 1 \in 1..(Len(t) + 1) /\ i + 1 # 0
  BY DEF Text
<1>2. "q" \in Quotes /\ "Q" \in Quotes /\ TRUE \in BOOLEAN /\ FALSE \in BOOLEAN
  BY DEF Quotes
<1>3. CASE t[i] \in {" ", "nl"}
  <2>1. ~BeginsEscaping(t, i) /\ ~Holds(t, i, <<"-", "-">>) /\ ~Holds(t, i, <<"/", "*">>)
    BY <1>3, HoldsFirst DEF BeginsEscaping
  <2>2. k = [kind |-> "space", to |-> i + 1]
    BY <1>3, <2>1 DEF Token
  <2>3. m = [kind |-> "space", to |-> i + 1, value |-> ""]
    <3>1. m = IF i + 1 = 0 THEN Refusal ELSE [kind |-> "space", to |-> i + 1, value |-> ""]
      BY <1>3 DEF TokenAt
    <3> HIDE DEF m
    <3> QED BY <1>1, <3>1
  <2> HIDE DEF m, k
  <2> QED BY <2>2, <2>3
<1> DEFINE Refuses == Holds(t, i, <<"-", "-">>) \/ Holds(t, i, <<"/", "*">>) \/ t[i] = "$"
<1>4. CASE t[i] \notin {" ", "nl"} /\ Refuses
  BY <1>4 DEF TokenAt, Refusal
<1>5. CASE t[i] = "q"
  <2>0. ~Refuses /\ ~BeginsEscaping(t, i)
    BY <1>5, HoldsFirst DEF BeginsEscaping
  <2>1. k = [kind |-> "string", to |-> QuotedEnds(t, "q", escaping)[i + 1]]
    BY <1>5, <2>0 DEF Token
  <2> DEFINE c == ClosingEnds(t, "q", escaping)[i + 1]
  <2>2. m = IF c = 0 THEN Refusal ELSE [kind |-> "string", to |-> c, value |-> ""]
    BY <1>5, <2>0 DEF TokenAt
  <2>3. c = 0 \/ c = QuotedEnds(t, "q", escaping)[i + 1]
    BY <1>1, <1>2, ClosedAlike
  <2> HIDE DEF m, k, c
  <2>4. CASE c = 0
    BY <2>2, <2>4 DEF Refusal
  <2>5. CASE c # 0
    BY <2>1, <2>2, <2>3, <2>5 DEF Aside
  <2> QED BY <2>4, <2>5
<1>6. CASE BeginsEscaping(t, i) /\ ~Refuses
  <2>0. t[i] = "E" /\ i + 2 \in 1..(Len(t) + 1)
    <3>1. Sym(t, i + 1) = "q" /\ t[i] = "E"
      BY <1>6 DEF BeginsEscaping
    <3>2. i + 1 \in 1..Len(t)
      BY <1>1, <3>1, SymAt
    <3> QED BY <1>1, <3>1, <3>2
  <2>1. k = [kind |-> "string", to |-> QuotedEnds(t, "q", TRUE)[i + 2]]
    BY <1>6 DEF Token
  <2> DEFINE c == ClosingEnds(t, "q", TRUE)[i + 2]
  <2>2. m = IF c = 0 THEN Refusal ELSE [kind |-> "string", to |-> c, value |-> ""]
    BY <1>6, <2>0 DEF TokenAt
  <2>3. c = 0 \/ c = QuotedEnds(t, "q", TRUE)[i + 2]
    BY <1>2, <2>0, ClosedAlike
  <2> HIDE DEF m, k, c
  <2>4. CASE c = 0
    BY <2>2, <2>4 DEF Refusal
  <2>5. CASE c # 0
    BY <2>1, <2>2, <2>3, <2>5 DEF Aside
  <2> QED BY <2>4, <2>5
<1>7. CASE t[i] = "Q"
  <2>0. ~Refuses /\ ~BeginsEscaping(t, i)
    BY <1>7, HoldsFirst DEF BeginsEscaping
  <2>1. k = [kind |-> "quoted", to |-> QuotedEnds(t, "Q", FALSE)[i + 1]]
    BY <1>7, <2>0 DEF Token
  <2> DEFINE c == ClosingEnds(t, "Q", FALSE)[i + 1]
  <2>2. m = IF c = 0 THEN Refusal ELSE [kind |-> "quoted", to |-> c, value |-> OneOf(t, i + 1, c - 1)]
    BY <1>7, <2>0 DEF TokenAt
  <2>3. c = 0 \/ c = QuotedEnds(t, "Q", FALSE)[i + 1]
    BY <1>1, <1>2, ClosedAlike
  <2> HIDE DEF m, k, c
  <2>4. CASE c = 0
    BY <2>2, <2>4 DEF Refusal
  <2>5. CASE c # 0
    BY <2>1, <2>2, <2>3, <2>5 DEF Aside
  <2> QED BY <2>4, <2>5
<1> DEFINE Rest == t[i] \notin {" ", "nl", "q", "Q", "$"} /\ ~Refuses /\ ~BeginsEscaping(t, i)
<1>8. CASE Rest /\ IsNameStart(t[i])
  <2>1. k = [kind |-> "word", to |-> NameRunEnd(t, i)]
    BY <1>8 DEF Token
  <2>2. NameRunEnd(t, i) # 0
    BY <1>1, NameRunEnds
  <2>3. m = [kind |-> "word", to |-> NameRunEnd(t, i), value |-> OneOf(t, i, NameRunEnd(t, i))]
    BY <1>8, <2>2 DEF TokenAt
  <2> HIDE DEF m, k
  <2> QED BY <2>1, <2>3 DEF Aside
<1>9. CASE Rest /\ ~IsNameStart(t[i]) /\ t[i] \in Digits
  <2>1. k = [kind |-> "number", to |-> NameRunEnd(t, i)]
    BY <1>9 DEF Token
  <2>2. NameRunEnd(t, i) # 0
    BY <1>1, NameRunEnds
  <2>3. m = [kind |-> "number", to |-> NameRunEnd(t, i), value |-> t[i]]
    BY <1>9, <2>2 DEF TokenAt
  <2> HIDE DEF m, k
  <2> QED BY <2>1, <2>3 DEF Aside
<1>10. CASE Rest /\ ~IsNameStart(t[i]) /\ t[i] \notin Digits
  <2>1. k = [kind |-> "punct", to |-> i + 1]
    BY <1>10 DEF Token
  <2>2. m = [kind |-> "punct", to |-> i + 1, value |-> t[i]]
    <3>1. m = IF i + 1 = 0 THEN Refusal ELSE [kind |-> "punct", to |-> i + 1, value |-> t[i]]
      BY <1>10 DEF TokenAt
    <3> HIDE DEF m
    <3> QED BY <1>1, <3>1
  <2> HIDE DEF m, k
  <2> QED BY <2>1, <2>2 DEF Aside
<1> QED BY <1>3, <1>4, <1>5, <1>6, <1>7, <1>8, <1>9, <1>10

-----------------------------------------------------------------------------
(* The server's tokens from each place on are a sequence, as it is defined. *)
LexedIn(t, escaping, but, R) ==
    \A i \in 1..(Len(t) + 1) :
        /\ Lexed(t, escaping, but)[i] \in Seq(R)
        /\ i <= Len(t) => [kind |-> Token(t, i, escaping).kind, from |-> i, to |-> Token(t, i, escaping).to] \in R
        /\ Lexed(t, escaping, but)[i] =
              IF i > Len(t) THEN <<>>
              ELSE IF Token(t, i, escaping).kind \in but THEN Lexed(t, escaping, but)[Token(t, i, escaping).to]
              ELSE <<[kind |-> Token(t, i, escaping).kind, from |-> i, to |-> Token(t, i, escaping).to]>>
                   \o Lexed(t, escaping, but)[Token(t, i, escaping).to]

(* The server's tokens from a place on.                                    *)
LEMMA LexedRecurs ==
    ASSUME NEW t \in Text, NEW escaping \in BOOLEAN, NEW but
    PROVE  \E R : LexedIn(t, escaping, but, R)
<1> DEFINE N == Len(t) + 1
           k(x) == Token(t, x, escaping)
           item(x) == [kind |-> k(x).kind, from |-> x, to |-> k(x).to]
           R == {item(x) : x \in 1..Len(t)}
           V == Seq(R)
           e(x, f) == IF x > Len(t) THEN <<>>
                      ELSE IF k(x).kind \in but THEN f[k(x).to] ELSE <<item(x)>> \o f[k(x).to]
           G == [x \in 1..N |-> [f \in [1..N -> V] |-> e(x, f)]]
<1>1. N \in Nat
  BY DEF Text
<1>2. ASSUME NEW x \in 1..N, NEW f \in [1..N -> V]
      PROVE  e(x, f) \in V /\ \A g \in [1..N -> V] : (\A y \in (x + 1)..N : f[y] = g[y]) => e(x, f) = e(x, g)
  <2>1. CASE x > Len(t)
    <3>1. <<>> \in V
      OBVIOUS
    <3> QED BY <2>1, <3>1
  <2>2. CASE x <= Len(t)
    <3>1. k(x).to \in (x + 1)..N
      BY <1>1, <2>2, TokenEnds
    <3> HIDE DEF k
    <3>2. k(x).to \in 1..N
      BY <1>1, <3>1
    <3>3. x \in 1..Len(t) /\ ~(x > Len(t))
      BY <1>1, <2>2
    <3>4. <<item(x)>> \in V
      BY <3>3
    <3>5. f[k(x).to] \in V
      <4> HIDE DEF V
      <4> QED BY <3>2
    <3>6. e(x, f) \in V
      <4>1. <<item(x)>> \o f[k(x).to] \in V
        <5> HIDE DEF R, item
        <5> QED BY <3>4, <3>5
      <4> HIDE DEF V, item
      <4> QED BY <3>3, <3>5, <4>1
    <3>7. ASSUME NEW g \in [1..N -> V], \A y \in (x + 1)..N : f[y] = g[y]
          PROVE  e(x, f) = e(x, g)
      <4>1. f[k(x).to] = g[k(x).to]
        BY <3>1, <3>7
      <4> HIDE DEF V, item
      <4> QED BY <4>1
    <3> HIDE DEF e, V
    <3> QED BY <3>6, <3>7
  <2>3. x > Len(t) \/ x <= Len(t)
    BY <1>1
  <2> HIDE DEF e, V
  <2> QED BY <2>1, <2>2, <2>3
<1>3. G \in [1..N -> [[1..N -> V] -> V]]
  <2> HIDE DEF V, e
  <2> QED BY <1>2
<1>4. \A x \in 1..N : \A f, g \in [1..N -> V] :
         (\A y \in (x + 1)..N : f[y] = g[y]) => G[x][f] = G[x][g]
  <2> HIDE DEF V, e
  <2> QED BY <1>2
<1>5. PICK f \in [1..N -> V] : \A x \in 1..N : f[x] = G[x][f]
  <2>0. V # {}
    <3>1. <<>> \in V
      OBVIOUS
    <3> QED BY <3>1
  <2> HIDE DEF G, N, V
  <2>1. Causal(N, V, G)
    BY <1>1, <1>3, <1>4, <2>0 DEF Causal
  <2> QED BY <2>1, Recursion DEF Solvable
<1>6. f = [x \in 1..N |-> e(x, f)]
  <2> HIDE DEF e, V
  <2> QED BY <1>5
<1>7. Lexed(t, escaping, but) = [x \in 1..N |-> e(x, Lexed(t, escaping, but))]
  BY <1>6 DEF Lexed
<1>9. \A x \in 1..N : Lexed(t, escaping, but)[x] \in V
  <2> DEFINE L == Lexed(t, escaping, but)
             S == {x \in 1..N : L[x] \in V}
  <2>1. ASSUME NEW x \in 1..N, \A y \in (x + 1)..N : y \in S
        PROVE  L[x] \in V
    <3>1. L[x] = e(x, L)
      <4> HIDE DEF e
      <4> QED BY <1>7
    <3>2. CASE x > Len(t)
      <4>1. <<>> \in V
        OBVIOUS
      <4> HIDE DEF L, V
      <4> QED BY <3>1, <3>2, <4>1
    <3>3. CASE x <= Len(t)
      <4>1. x \in 1..Len(t) /\ ~(x > Len(t))
        BY <1>1, <3>3
      <4>2. k(x).to \in (x + 1)..N
        BY <4>1, TokenEnds
      <4> HIDE DEF k
      <4>3. L[k(x).to] \in V
        <5> HIDE DEF L, V
        <5> QED BY <2>1, <4>2
      <4>4. <<item(x)>> \in V
        BY <4>1
      <4> HIDE DEF L, item, R
      <4>5. <<item(x)>> \o L[k(x).to] \in V
        BY <4>3, <4>4
      <4> HIDE DEF V
      <4> QED BY <3>1, <4>1, <4>3, <4>5
    <3>4. x > Len(t) \/ x <= Len(t)
      BY <1>1
    <3> HIDE DEF L, V
    <3> QED BY <3>2, <3>3, <3>4
  <2>2. ClosedDown(N, S)
    <3> HIDE DEF L, V
    <3> QED BY <1>1, <2>1 DEF ClosedDown
  <2>3. \A x \in 1..N : x \in S
    <3> HIDE DEF S
    <3> QED BY <2>2, Downwards
  <2> HIDE DEF V
  <2> QED BY <2>3
<1>8. ASSUME NEW i \in 1..N
      PROVE  /\ Lexed(t, escaping, but)[i] \in Seq(R)
             /\ i <= Len(t) => item(i) \in R
             /\ Lexed(t, escaping, but)[i] = e(i, Lexed(t, escaping, but))
  <2>1. Lexed(t, escaping, but)[i] = e(i, Lexed(t, escaping, but))
    <3> HIDE DEF e
    <3> QED BY <1>7
  <2>2. i <= Len(t) => item(i) \in R
    <3>1. i <= Len(t) => i \in 1..Len(t)
      BY <1>1
    <3> HIDE DEF item
    <3> QED BY <3>1
  <2> HIDE DEF R, e, item
  <2> QED BY <1>9, <2>1, <2>2
<1> HIDE DEF R
<1>10. LexedIn(t, escaping, but, R)
  BY <1>8 DEF LexedIn
<1> QED BY <1>10

(* A token of others' text ends past its beginning.                        *)
LEMMA TokenAtEnds ==
    ASSUME NEW t \in Text, NEW i \in 1..Len(t), NEW escaping \in BOOLEAN, TokenAt(t, i, escaping).kind # "refused"
    PROVE  TokenAt(t, i, escaping).to \in (i + 1)..(Len(t) + 1)
BY TokenAlike, TokenEnds

(* A token of others' text with the place it begins at.                    *)
Taken(t, i, escaping) ==
    [from |-> i, kind |-> TokenAt(t, i, escaping).kind, to |-> TokenAt(t, i, escaping).to,
     value |-> TokenAt(t, i, escaping).value]

(* The tokens of others' text from a place on.                             *)
LEMMA TokensRecurs ==
    ASSUME NEW t \in Text, NEW escaping \in BOOLEAN
    PROVE  \E R : \A i \in 1..(Len(t) + 1) :
              /\ TokensFrom(t, escaping)[i] \in Seq(R)
              /\ i <= Len(t) => Taken(t, i, escaping) \in R /\ TokenAt(t, i, escaping) \in R
              /\ TokensFrom(t, escaping)[i] =
                    IF i > Len(t) THEN <<>>
                    ELSE IF TokenAt(t, i, escaping).kind = "refused" THEN <<TokenAt(t, i, escaping)>>
                    ELSE IF TokenAt(t, i, escaping).kind = "space"
                         THEN TokensFrom(t, escaping)[TokenAt(t, i, escaping).to]
                    ELSE <<Taken(t, i, escaping)>> \o TokensFrom(t, escaping)[TokenAt(t, i, escaping).to]
<1> DEFINE N == Len(t) + 1
           k(x) == TokenAt(t, x, escaping)
           item(x) == Taken(t, x, escaping)
           R == {item(x) : x \in 1..Len(t)} \cup {k(x) : x \in 1..Len(t)}
           V == Seq(R)
           e(x, f) == IF x > Len(t) THEN <<>>
                      ELSE IF k(x).kind = "refused" THEN <<k(x)>>
                      ELSE IF k(x).kind = "space" THEN f[k(x).to]
                      ELSE <<item(x)>> \o f[k(x).to]
           G == [x \in 1..N |-> [f \in [1..N -> V] |-> e(x, f)]]
<1>1. N \in Nat
  BY DEF Text
<1>2. ASSUME NEW x \in 1..N, NEW f \in [1..N -> V]
      PROVE  e(x, f) \in V /\ \A g \in [1..N -> V] : (\A y \in (x + 1)..N : f[y] = g[y]) => e(x, f) = e(x, g)
  <2>1. CASE x > Len(t)
    <3>1. <<>> \in V
      OBVIOUS
    <3> QED BY <2>1, <3>1
  <2>2. CASE x <= Len(t)
    <3>1. k(x).kind # "refused" => k(x).to \in (x + 1)..N
      BY <1>1, <2>2, TokenAtEnds
    <3>2. k(x).kind # "refused" => k(x).to \in 1..N
      <4> HIDE DEF k
      <4> QED BY <1>1, <3>1
    <3>3. x \in 1..Len(t) /\ ~(x > Len(t))
      BY <1>1, <2>2
    <3>4. <<item(x)>> \in V /\ <<k(x)>> \in V
      <4>1. item(x) \in R /\ k(x) \in R
        <5> HIDE DEF item, k
        <5> QED BY <3>3
      <4> HIDE DEF item, k, R
      <4> QED BY <4>1
    <3> HIDE DEF k
    <3>5. k(x).kind # "refused" => f[k(x).to] \in V
      <4> HIDE DEF V
      <4> QED BY <3>2
    <3>6. e(x, f) \in V
      <4>1. k(x).kind # "refused" => <<item(x)>> \o f[k(x).to] \in V
        <5> HIDE DEF R, item
        <5> QED BY <3>4, <3>5
      <4> HIDE DEF V, item
      <4> QED BY <3>3, <3>4, <3>5, <4>1
    <3>7. ASSUME NEW g \in [1..N -> V], \A y \in (x + 1)..N : f[y] = g[y]
          PROVE  e(x, f) = e(x, g)
      <4>1. k(x).kind # "refused" => f[k(x).to] = g[k(x).to]
        BY <3>1, <3>7
      <4> HIDE DEF V, item
      <4> QED BY <4>1
    <3> HIDE DEF e, V
    <3> QED BY <3>6, <3>7
  <2>3. x > Len(t) \/ x <= Len(t)
    BY <1>1
  <2> HIDE DEF e, V
  <2> QED BY <2>1, <2>2, <2>3
<1>3. G \in [1..N -> [[1..N -> V] -> V]]
  <2> HIDE DEF V, e
  <2> QED BY <1>2
<1>4. \A x \in 1..N : \A f, g \in [1..N -> V] :
         (\A y \in (x + 1)..N : f[y] = g[y]) => G[x][f] = G[x][g]
  <2> HIDE DEF V, e
  <2> QED BY <1>2
<1>5. PICK f \in [1..N -> V] : \A x \in 1..N : f[x] = G[x][f]
  <2>0. V # {}
    <3>1. <<>> \in V
      OBVIOUS
    <3> QED BY <3>1
  <2> HIDE DEF G, N, V
  <2>1. Causal(N, V, G)
    BY <1>1, <1>3, <1>4, <2>0 DEF Causal
  <2> QED BY <2>1, Recursion DEF Solvable
<1>6. f = [x \in 1..N |-> e(x, f)]
  <2> HIDE DEF e, V
  <2> QED BY <1>5
<1>7. TokensFrom(t, escaping) = [x \in 1..N |-> e(x, TokensFrom(t, escaping))]
  BY <1>6 DEF TokensFrom, Taken
<1>9. \A x \in 1..N : TokensFrom(t, escaping)[x] \in V
  <2> DEFINE L == TokensFrom(t, escaping)
             S == {x \in 1..N : L[x] \in V}
  <2>1. ASSUME NEW x \in 1..N, \A y \in (x + 1)..N : y \in S
        PROVE  L[x] \in V
    <3>1. L[x] = e(x, L)
      <4> HIDE DEF e
      <4> QED BY <1>7
    <3>2. CASE x > Len(t)
      <4>1. <<>> \in V
        OBVIOUS
      <4> HIDE DEF L, V
      <4> QED BY <3>1, <3>2, <4>1
    <3>3. CASE x <= Len(t)
      <4>1. x \in 1..Len(t) /\ ~(x > Len(t))
        BY <1>1, <3>3
      <4>2. k(x).kind # "refused" => k(x).to \in (x + 1)..N
        BY <4>1, TokenAtEnds
      <4>4. <<item(x)>> \in V /\ <<k(x)>> \in V
        <5>1. item(x) \in R /\ k(x) \in R
          <6> HIDE DEF item, k
          <6> QED BY <4>1
        <5> HIDE DEF item, k, R
        <5> QED BY <5>1
      <4> HIDE DEF k
      <4>3. k(x).kind # "refused" => L[k(x).to] \in V
        <5> HIDE DEF L, V
        <5> QED BY <2>1, <4>2
      <4> HIDE DEF L, item, R
      <4>5. k(x).kind # "refused" => <<item(x)>> \o L[k(x).to] \in V
        BY <4>3, <4>4
      <4> HIDE DEF V
      <4> QED BY <3>1, <4>1, <4>3, <4>4, <4>5
    <3>4. x > Len(t) \/ x <= Len(t)
      BY <1>1
    <3> HIDE DEF L, V
    <3> QED BY <3>2, <3>3, <3>4
  <2>2. ClosedDown(N, S)
    <3> HIDE DEF L, V
    <3> QED BY <1>1, <2>1 DEF ClosedDown
  <2>3. \A x \in 1..N : x \in S
    <3> HIDE DEF S
    <3> QED BY <2>2, Downwards
  <2> HIDE DEF V
  <2> QED BY <2>3
<1>8. ASSUME NEW i \in 1..N
      PROVE  /\ TokensFrom(t, escaping)[i] \in Seq(R)
             /\ i <= Len(t) => item(i) \in R /\ k(i) \in R
             /\ TokensFrom(t, escaping)[i] = e(i, TokensFrom(t, escaping))
  <2>1. TokensFrom(t, escaping)[i] = e(i, TokensFrom(t, escaping))
    <3> HIDE DEF e
    <3> QED BY <1>7
  <2>2. i <= Len(t) => item(i) \in R /\ k(i) \in R
    <3>1. i <= Len(t) => i \in 1..Len(t)
      BY <1>1
    <3> HIDE DEF item, k
    <3> QED BY <3>1
  <2> HIDE DEF R, e, item, k
  <2> QED BY <1>9, <2>1, <2>2
<1> HIDE DEF R
<1> QED BY <1>8

(* Tokens of the one and tokens of the other, where they begin and end.    *)
SplitAlike(mine, theirs) ==
    \/ Unreadable(mine)
    \/ /\ Len(mine) = Len(theirs)
       /\ \A n \in DOMAIN mine : mine[n].from = theirs[n].from /\ mine[n].to = theirs[n].to

(* One token more, alike, keeps the two alike.                             *)
LEMMA OneMoreAlike ==
    ASSUME NEW R, NEW Q, NEW m \in R, NEW k \in Q, NEW mine \in Seq(R), NEW theirs \in Seq(Q),
           m.from = k.from, m.to = k.to, SplitAlike(mine, theirs)
    PROVE  SplitAlike(<<m>> \o mine, <<k>> \o theirs)
<1>1. /\ Len(mine) \in Nat /\ DOMAIN mine = 1..Len(mine)
      /\ Len(<<m>> \o mine) = Len(mine) + 1 /\ DOMAIN (<<m>> \o mine) = 1..(Len(mine) + 1)
      /\ (<<m>> \o mine)[1] = m /\ \A n \in 1..Len(mine) : (<<m>> \o mine)[n + 1] = mine[n]
  OBVIOUS
<1>2. /\ Len(<<k>> \o theirs) = Len(theirs) + 1
      /\ (<<k>> \o theirs)[1] = k /\ \A n \in 1..Len(theirs) : (<<k>> \o theirs)[n + 1] = theirs[n]
  OBVIOUS
<1> DEFINE M == <<m>> \o mine
           L == <<k>> \o theirs
<1> SUFFICES SplitAlike(M, L)
  OBVIOUS
<1> HIDE DEF M, L
<1>3. CASE Unreadable(mine)
  <2>1. PICK n \in 1..Len(mine) : mine[n].kind = "refused"
    BY <1>1, <1>3 DEF Unreadable
  <2>2. n + 1 \in DOMAIN M /\ M[n + 1].kind = "refused"
    BY <1>1, <2>1 DEF M
  <2> QED BY <2>2 DEF SplitAlike, Unreadable
<1>4. CASE ~Unreadable(mine)
  <2>1. Len(mine) = Len(theirs) /\ \A n \in 1..Len(mine) : mine[n].from = theirs[n].from /\ mine[n].to = theirs[n].to
    BY <1>1, <1>4 DEF SplitAlike
  <2>2. Len(M) = Len(L) /\ DOMAIN M = 1..(Len(mine) + 1)
    BY <1>1, <1>2, <2>1 DEF M, L
  <2>3. ASSUME NEW n \in 1..(Len(mine) + 1)
        PROVE  M[n].from = L[n].from /\ M[n].to = L[n].to
    <3>1. CASE n = 1
      BY <1>1, <1>2, <3>1 DEF M, L
    <3>2. CASE n # 1
      <4>1. n - 1 \in 1..Len(mine) /\ n - 1 \in 1..Len(theirs) /\ (n - 1) + 1 = n
        BY <1>1, <2>1, <3>2
      <4>2. M[n] = mine[n - 1] /\ L[n] = theirs[n - 1]
        BY <1>1, <1>2, <4>1 DEF M, L
      <4> QED BY <2>1, <4>1, <4>2
    <3> QED BY <3>1, <3>2
  <2> QED BY <2>2, <2>3 DEF SplitAlike
<1> QED BY <1>3, <1>4

(* From any place on the two are alike.                                    *)
LEMMA SplitFromAnyPlace ==
    ASSUME NEW t \in Text, NEW escaping \in BOOLEAN, NEW i \in 1..(Len(t) + 1)
    PROVE  SplitAlike(TokensFrom(t, escaping)[i], Lexed(t, escaping, Aside)[i])
<1> DEFINE M == TokensFrom(t, escaping)
           L == Lexed(t, escaping, Aside)
           S == {x \in 1..(Len(t) + 1) : SplitAlike(M[x], L[x])}
           m(x) == TokenAt(t, x, escaping)
           k(x) == Token(t, x, escaping)
           item(x) == [kind |-> k(x).kind, from |-> x, to |-> k(x).to]
<1>1. Len(t) \in Nat
  BY DEF Text
<1>2. PICK R : \A x \in 1..(Len(t) + 1) :
              /\ M[x] \in Seq(R)
              /\ x <= Len(t) => Taken(t, x, escaping) \in R /\ m(x) \in R
              /\ M[x] = IF x > Len(t) THEN <<>>
                        ELSE IF m(x).kind = "refused" THEN <<m(x)>>
                        ELSE IF m(x).kind = "space" THEN M[m(x).to]
                        ELSE <<Taken(t, x, escaping)>> \o M[m(x).to]
  BY TokensRecurs
<1>3. PICK Q : \A x \in 1..(Len(t) + 1) :
              /\ L[x] \in Seq(Q)
              /\ x <= Len(t) => item(x) \in Q
              /\ L[x] = IF x > Len(t) THEN <<>>
                        ELSE IF k(x).kind \in Aside THEN L[k(x).to]
                        ELSE <<item(x)>> \o L[k(x).to]
  <2>1. PICK Q : LexedIn(t, escaping, Aside, Q)
    BY LexedRecurs
  <2> QED BY <2>1 DEF LexedIn
<1>4. ASSUME NEW x \in 1..(Len(t) + 1), \A y \in (x + 1)..(Len(t) + 1) : y \in S
      PROVE  SplitAlike(M[x], L[x])
  <2> HIDE DEF M, L
  <2>1. CASE x > Len(t)
    <3>1. M[x] = <<>> /\ L[x] = <<>>
      BY <1>2, <1>3, <2>1
    <3> QED BY <3>1 DEF SplitAlike
  <2>2. CASE x <= Len(t)
    <3>1. x \in 1..Len(t) /\ ~(x > Len(t))
      BY <1>1, <2>2
    <3>2. /\ M[x] = IF m(x).kind = "refused" THEN <<m(x)>>
                    ELSE IF m(x).kind = "space" THEN M[m(x).to] ELSE <<Taken(t, x, escaping)>> \o M[m(x).to]
          /\ Taken(t, x, escaping) \in R
      BY <1>2, <2>2, <3>1
    <3>3. /\ L[x] = IF k(x).kind \in Aside THEN L[k(x).to] ELSE <<item(x)>> \o L[k(x).to]
          /\ item(x) \in Q
      BY <1>3, <2>2, <3>1
    <3>4. k(x).to \in (x + 1)..(Len(t) + 1)
      BY <3>1, TokenEnds
    <3>5. \/ m(x).kind = "refused"
          \/ m(x).kind = "space" /\ k(x).kind = "space" /\ m(x).to = k(x).to
          \/ m(x).kind \notin {"refused", "space"} /\ k(x).kind \notin Aside /\ m(x).to = k(x).to
      BY <3>1, TokenAlike
    <3>6. Taken(t, x, escaping).from = x /\ Taken(t, x, escaping).to = m(x).to
      BY DEF Taken
    <3>7. item(x).from = x /\ item(x).to = k(x).to
      OBVIOUS
    <3> HIDE DEF m, k, item
    <3>8. SplitAlike(M[k(x).to], L[k(x).to])
      BY <1>4, <3>4
    <3>9. CASE m(x).kind = "refused"
      <4>1. M[x] = <<m(x)>>
        BY <3>2, <3>9
      <4>2. 1 \in DOMAIN M[x] /\ M[x][1].kind = "refused"
        BY <3>9, <4>1
      <4> QED BY <4>2 DEF SplitAlike, Unreadable
    <3>10. CASE m(x).kind = "space" /\ k(x).kind = "space" /\ m(x).to = k(x).to
      <4>1. M[x] = M[k(x).to] /\ L[x] = L[k(x).to]
        BY <3>2, <3>3, <3>10 DEF Aside
      <4> QED BY <3>8, <4>1
    <3>11. CASE m(x).kind \notin {"refused", "space"} /\ k(x).kind \notin Aside /\ m(x).to = k(x).to
      <4>1. M[x] = <<Taken(t, x, escaping)>> \o M[k(x).to] /\ L[x] = <<item(x)>> \o L[k(x).to]
        BY <3>2, <3>3, <3>11
      <4>2. k(x).to \in 1..(Len(t) + 1)
        BY <1>1, <3>4
      <4>3. M[k(x).to] \in Seq(R) /\ L[k(x).to] \in Seq(Q)
        BY <1>2, <1>3, <4>2
      <4>4. Taken(t, x, escaping).from = item(x).from /\ Taken(t, x, escaping).to = item(x).to
        BY <3>6, <3>7, <3>11
      <4> QED BY <3>2, <3>3, <3>8, <4>1, <4>3, <4>4, OneMoreAlike
    <3> QED BY <3>5, <3>9, <3>10, <3>11
  <2>3. x > Len(t) \/ x <= Len(t)
    BY <1>1
  <2> QED BY <2>1, <2>2, <2>3
<1>5. ClosedDown(Len(t) + 1, S)
  <2> HIDE DEF M, L
  <2> QED BY <1>1, <1>4 DEF ClosedDown
<1>6. i \in S
  <2> HIDE DEF S
  <2> QED BY <1>5, Downwards
<1> QED BY <1>6

(* Whatever the text and either way of reading backslashes, what the       *)
(* reading of others' text can split begins and ends, token by token,      *)
(* where the server's tokens do; what it cannot, it refuses.               *)
THEOREM SplitAsServer ==
    \A t \in Seq(STRING), escaping \in BOOLEAN : SplitAlike(Tokens(t, escaping), Said(t, escaping))
<1> SUFFICES ASSUME NEW t \in Text, NEW escaping \in BOOLEAN
             PROVE  SplitAlike(Tokens(t, escaping), Said(t, escaping))
  BY DEF Text
<1>1. 1 \in 1..(Len(t) + 1)
  BY DEF Text
<1>2. Said(t, escaping) = Lexed(t, escaping, Aside)[1]
  BY DEF Said, Aside
<1> QED BY <1>1, <1>2, SplitFromAnyPlace DEF Tokens

(* The tokens that count, from a place on, and what is no syntax: the one   *)
(* lies in the other's gaps, in order, and between them there is space.    *)
LiesWithin(t, escaping, i, said, gone) ==
    /\ gone \subseteq i..Len(t)
    /\ \A n \in DOMAIN said :
          /\ said[n].from \in i..Len(t)
          /\ said[n].kind = Token(t, said[n].from, escaping).kind /\ said[n].kind \notin Aside
          /\ said[n].to = Token(t, said[n].from, escaping).to
          /\ said[n].kind \in Literals => Opens(t, said[n].from)..(said[n].to - 1) \subseteq gone
          /\ said[n].kind \notin Literals => \A x \in said[n].from..(said[n].to - 1) : x \notin gone
    /\ \A n, m \in DOMAIN said : n < m => said[n].to <= said[m].from
    /\ \A x \in i..Len(t) :
          t[x] \in Space \/ x \in gone \/ \E n \in DOMAIN said : x \in said[n].from..(said[n].to - 1)

(* A token of space is a symbol of space; no other begins with one.        *)
LEMMA SpaceIsSpace ==
    ASSUME NEW t \in Text, NEW i \in 1..Len(t), NEW escaping \in BOOLEAN
    PROVE  /\ Token(t, i, escaping).kind = "space" => t[i] \in Space /\ Token(t, i, escaping).to = i + 1
           /\ Token(t, i, escaping).kind \notin {"space"} \cup Literals => t[i] \notin Space
<1> DEFINE k == Token(t, i, escaping)
<1>1. CASE t[i] \in Space
  <2>1. ~BeginsEscaping(t, i) /\ ~Holds(t, i, <<"-", "-">>) /\ ~Holds(t, i, <<"/", "*">>)
    BY <1>1, HoldsFirst DEF BeginsEscaping, Space
  <2>2. k = [kind |-> "space", to |-> i + 1]
    BY <1>1, <2>1 DEF Token, Space
  <2> QED BY <1>1, <2>2
<1>2. CASE t[i] \notin Space
  <2>1. k.kind # "space"
    BY <1>2 DEF Token, Space
  <2> QED BY <1>2, <2>1
<1> QED BY <1>1, <1>2

(* A token that counts, put before those that lie as they should.          *)
LEMMA OneMoreWithin ==
    ASSUME NEW t \in Text, NEW i \in 1..Len(t), NEW escaping \in BOOLEAN, NEW Q,
           NEW said \in Seq(Q), NEW gone, NEW item \in Q,
           item = [kind |-> Token(t, i, escaping).kind, from |-> i, to |-> Token(t, i, escaping).to],
           item.kind \notin Aside,
           LiesWithin(t, escaping, item.to, said, gone)
    PROVE  LiesWithin(t, escaping, i, <<item>> \o said,
                      (IF item.kind \in Literals THEN Opens(t, i)..(item.to - 1) ELSE {}) \cup gone)
<1> DEFINE more == <<item>> \o said
           own == IF item.kind \in Literals THEN Opens(t, i)..(item.to - 1) ELSE {}
<1>1. Len(t) \in Nat /\ item.to \in (i + 1)..(Len(t) + 1) /\ item.from = i
      /\ item.kind = Token(t, i, escaping).kind /\ item.to = Token(t, i, escaping).to
  BY TokenEnds DEF Text
<1>2. /\ Len(said) \in Nat /\ DOMAIN said = 1..Len(said)
      /\ DOMAIN more = 1..(Len(said) + 1)
      /\ more[1] = item /\ \A n \in 1..Len(said) : more[n + 1] = said[n]
  OBVIOUS
<1>3. Opens(t, i) \in {i, i + 1}
  BY DEF Opens
<1>4. own \subseteq i..(item.to - 1)
  BY <1>1, <1>3
<1> HIDE DEF more
<1>5. gone \subseteq item.to..Len(t)
  BY DEF LiesWithin
<1>6. own \cup gone \subseteq i..Len(t)
  <2> HIDE DEF own
  <2> QED BY <1>1, <1>4, <1>5
<1>7. ASSUME NEW n \in DOMAIN more
      PROVE  n = 1 \/ (n - 1 \in DOMAIN said /\ more[n] = said[n - 1])
  <2>1. n # 1 => n - 1 \in 1..Len(said) /\ (n - 1) + 1 = n
    BY <1>2
  <2> QED BY <1>2, <2>1
<1>8. ASSUME NEW n \in DOMAIN more
      PROVE  /\ more[n].from \in i..Len(t)
             /\ more[n].kind = Token(t, more[n].from, escaping).kind /\ more[n].kind \notin Aside
             /\ more[n].to = Token(t, more[n].from, escaping).to
             /\ more[n].kind \in Literals => Opens(t, more[n].from)..(more[n].to - 1) \subseteq own \cup gone
             /\ more[n].kind \notin Literals =>
                   \A x \in more[n].from..(more[n].to - 1) : x \notin own \cup gone
  <2>1. CASE n = 1
    <3>1. more[n] = item
      BY <1>2, <2>1
    <3>2. item.kind \in Literals => Opens(t, i)..(item.to - 1) \subseteq own \cup gone
      OBVIOUS
    <3>3. item.kind \notin Literals => own = {}
      OBVIOUS
    <3>4. \A x \in i..(item.to - 1) : x \notin gone
      BY <1>1, <1>5
    <3>5. i \in i..Len(t)
      BY <1>1
    <3> HIDE DEF own
    <3> QED BY <1>1, <3>1, <3>2, <3>3, <3>4, <3>5
  <2>2. CASE n # 1
    <3> DEFINE s == said[n - 1]
    <3>1. n - 1 \in DOMAIN said /\ more[n] = s
      BY <1>7, <2>2
    <3>2. /\ s.from \in item.to..Len(t)
          /\ s.kind = Token(t, s.from, escaping).kind /\ s.kind \notin Aside
          /\ s.to = Token(t, s.from, escaping).to
          /\ s.kind \in Literals => Opens(t, s.from)..(s.to - 1) \subseteq gone
          /\ s.kind \notin Literals => \A x \in s.from..(s.to - 1) : x \notin gone
      BY <3>1 DEF LiesWithin
    <3> HIDE DEF s
    <3>3. s.from \in i..Len(t)
      BY <1>1, <3>2
    <3>4. \A x \in s.from..(s.to - 1) : x \notin own
      <4> HIDE DEF own
      <4> QED BY <1>1, <1>4, <3>2
    <3> HIDE DEF own
    <3> QED BY <3>1, <3>2, <3>3, <3>4
  <2> QED BY <2>1, <2>2
<1>9. ASSUME NEW n \in DOMAIN more, NEW m \in DOMAIN more, n < m
      PROVE  more[n].to <= more[m].from
  <2>1. m - 1 \in DOMAIN said /\ more[m] = said[m - 1]
    <3>1. m # 1
      BY <1>2, <1>9
    <3> QED BY <1>7, <3>1
  <2>2. CASE n = 1
    <3>1. said[m - 1].from \in item.to..Len(t)
      BY <2>1 DEF LiesWithin
    <3>2. more[n] = item
      BY <1>2, <2>2
    <3> QED BY <1>1, <2>1, <3>1, <3>2
  <2>3. CASE n # 1
    <3>1. n - 1 \in DOMAIN said /\ more[n] = said[n - 1]
      BY <1>7, <2>3
    <3>2. n - 1 < m - 1
      BY <1>2, <1>9
    <3>3. said[n - 1].to <= said[m - 1].from
      BY <2>1, <3>1, <3>2 DEF LiesWithin
    <3> QED BY <2>1, <3>1, <3>3
  <2> QED BY <2>2, <2>3
<1>10. ASSUME NEW x \in i..Len(t)
       PROVE  \/ t[x] \in Space \/ x \in own \cup gone
              \/ \E n \in DOMAIN more : x \in more[n].from..(more[n].to - 1)
  <2>1. CASE x \in i..(item.to - 1)
    <3>1. 1 \in DOMAIN more /\ more[1] = item
      BY <1>2
    <3> QED BY <1>1, <2>1, <3>1
  <2>2. CASE x \in item.to..Len(t)
    <3>1. \/ t[x] \in Space \/ x \in gone
          \/ \E n \in DOMAIN said : x \in said[n].from..(said[n].to - 1)
      BY <2>2 DEF LiesWithin
    <3>2. ASSUME NEW n \in DOMAIN said, x \in said[n].from..(said[n].to - 1)
          PROVE  \E l \in DOMAIN more : x \in more[l].from..(more[l].to - 1)
      <4>1. n + 1 \in DOMAIN more /\ more[n + 1] = said[n]
        BY <1>2
      <4> QED BY <3>2, <4>1
    <3> QED BY <3>1, <3>2
  <2> QED BY <1>1, <2>1, <2>2
<1>11. LiesWithin(t, escaping, i, more, own \cup gone)
  <2> HIDE DEF own
  <2> QED BY <1>6, <1>8, <1>9, <1>10 DEF LiesWithin
<1> QED BY <1>11 DEF more

(* Space or a comment, put before those that lie as they should.           *)
LEMMA AsideWithin ==
    ASSUME NEW t \in Text, NEW i \in 1..Len(t), NEW escaping \in BOOLEAN,
           NEW said, NEW gone, Token(t, i, escaping).kind \in Aside,
           LiesWithin(t, escaping, Token(t, i, escaping).to, said, gone)
    PROVE  LiesWithin(t, escaping, i, said,
                      (IF Token(t, i, escaping).kind \in Literals
                       THEN Opens(t, i)..(Token(t, i, escaping).to - 1) ELSE {}) \cup gone)
<1> DEFINE k == Token(t, i, escaping)
           own == IF k.kind \in Literals THEN Opens(t, i)..(k.to - 1) ELSE {}
<1>1. Len(t) \in Nat /\ k.to \in (i + 1)..(Len(t) + 1)
  BY TokenEnds DEF Text
<1>2. Opens(t, i) = i
  <2>1. BeginsEscaping(t, i) => k.kind = "string"
    BY DEF Token
  <2> QED BY <2>1 DEF Opens, Aside
<1>3. /\ k.kind = "comment" => own = i..(k.to - 1)
      /\ k.kind = "space" => own = {} /\ t[i] \in Space /\ k.to = i + 1
      /\ k.kind \in {"space", "comment"}
  BY <1>2, SpaceIsSpace DEF Aside, Literals
<1>4. LiesWithin(t, escaping, k.to, said, gone)
  OBVIOUS
<1> HIDE DEF k, own
<1>5. own \subseteq i..(k.to - 1)
  BY <1>3
<1>6. /\ gone \subseteq k.to..Len(t)
      /\ \A n \in DOMAIN said :
          /\ said[n].from \in k.to..Len(t)
          /\ said[n].kind = Token(t, said[n].from, escaping).kind /\ said[n].kind \notin Aside
          /\ said[n].to = Token(t, said[n].from, escaping).to
          /\ said[n].kind \in Literals => Opens(t, said[n].from)..(said[n].to - 1) \subseteq gone
          /\ said[n].kind \notin Literals => \A x \in said[n].from..(said[n].to - 1) : x \notin gone
      /\ \A n, m \in DOMAIN said : n < m => said[n].to <= said[m].from
      /\ \A x \in k.to..Len(t) :
            t[x] \in Space \/ x \in gone \/ \E n \in DOMAIN said : x \in said[n].from..(said[n].to - 1)
  BY <1>4 DEF LiesWithin
<1>7. own \cup gone \subseteq i..Len(t)
  <2>1. own \subseteq i..Len(t)
    BY <1>1, <1>5
  <2>2. gone \subseteq i..Len(t)
    <3>1. gone \subseteq k.to..Len(t)
      BY <1>6
    <3> QED BY <1>1, <3>1
  <2> QED BY <2>1, <2>2
<1>8. ASSUME NEW n \in DOMAIN said
      PROVE  /\ said[n].from \in i..Len(t)
             /\ said[n].kind \notin Literals => \A x \in said[n].from..(said[n].to - 1) : x \notin own \cup gone
  <2>1. said[n].from \in k.to..Len(t)
    BY <1>6
  <2>2. \A x \in said[n].from..(said[n].to - 1) : x \notin own
    BY <1>1, <1>5, <2>1
  <2>3. said[n].kind \notin Literals => \A x \in said[n].from..(said[n].to - 1) : x \notin gone
    BY <1>6
  <2> QED BY <1>1, <2>1, <2>2, <2>3
<1>9. ASSUME NEW x \in i..Len(t)
      PROVE  t[x] \in Space \/ x \in own \cup gone \/ \E n \in DOMAIN said : x \in said[n].from..(said[n].to - 1)
  <2>1. CASE x \in i..(k.to - 1)
    <3>1. k.kind = "space" => x = i
      BY <1>1, <1>3, <2>1
    <3> QED BY <1>3, <2>1, <3>1
  <2>2. CASE x \in k.to..Len(t)
    BY <1>6, <2>2
  <2> QED BY <1>1, <2>1, <2>2
<1>10. LiesWithin(t, escaping, i, said, own \cup gone)
  <2>1. \A n \in DOMAIN said :
          /\ said[n].kind = Token(t, said[n].from, escaping).kind /\ said[n].kind \notin Aside
          /\ said[n].to = Token(t, said[n].from, escaping).to
          /\ said[n].kind \in Literals => Opens(t, said[n].from)..(said[n].to - 1) \subseteq own \cup gone
    BY <1>6
  <2>2. \A n, m \in DOMAIN said : n < m => said[n].to <= said[m].from
    BY <1>6
  <2> QED BY <1>7, <1>8, <1>9, <2>1, <2>2 DEF LiesWithin
<1> QED BY <1>10 DEF own, k

(* From any place on, the tokens that count lie as they should.            *)
LEMMA WithinFromAnyPlace ==
    ASSUME NEW t \in Text, NEW escaping \in BOOLEAN, NEW i \in 1..(Len(t) + 1)
    PROVE  LiesWithin(t, escaping, i, Lexed(t, escaping, Aside)[i], NoSyntaxFrom(t, escaping)[i])
<1> DEFINE L == Lexed(t, escaping, Aside)
           M == NoSyntaxFrom(t, escaping)
           S == {x \in 1..(Len(t) + 1) : LiesWithin(t, escaping, x, L[x], M[x])}
           k(x) == Token(t, x, escaping)
           item(x) == [kind |-> k(x).kind, from |-> x, to |-> k(x).to]
           own(x) == IF k(x).kind \in Literals THEN Opens(t, x)..(k(x).to - 1) ELSE {}
<1>1. Len(t) \in Nat
  BY DEF Text
<1>2. PICK Q : \A x \in 1..(Len(t) + 1) :
              /\ L[x] \in Seq(Q)
              /\ x <= Len(t) => item(x) \in Q
              /\ L[x] = IF x > Len(t) THEN <<>>
                        ELSE IF k(x).kind \in Aside THEN L[k(x).to]
                        ELSE <<item(x)>> \o L[k(x).to]
  <2>1. PICK Q : LexedIn(t, escaping, Aside, Q)
    BY LexedRecurs
  <2> QED BY <2>1 DEF LexedIn
<1>3. ASSUME NEW x \in 1..(Len(t) + 1), \A y \in (x + 1)..(Len(t) + 1) : y \in S
      PROVE  LiesWithin(t, escaping, x, L[x], M[x])
  <2>1. CASE x > Len(t)
    <3>1. L[x] = <<>> /\ M[x] = {}
      BY <1>2, <2>1, NoSyntaxRecurs
    <3>2. \A y : y \notin x..Len(t)
      BY <1>1, <2>1
    <3> HIDE DEF L, M
    <3> QED BY <3>1, <3>2 DEF LiesWithin
  <2>2. CASE x <= Len(t)
    <3>1. x \in 1..Len(t) /\ ~(x > Len(t))
      BY <1>1, <2>2
    <3>2. k(x).to \in (x + 1)..(Len(t) + 1)
      BY <3>1, TokenEnds
    <3>3. M[x] = own(x) \cup M[k(x).to]
      BY <3>1, NoSyntaxRecurs
    <3> HIDE DEF L, M
    <3>4. LiesWithin(t, escaping, k(x).to, L[k(x).to], M[k(x).to])
      <4> HIDE DEF k
      <4> QED BY <1>3, <3>2
    <3>5. k(x).to \in 1..(Len(t) + 1)
      <4> HIDE DEF k
      <4> QED BY <1>1, <3>2
    <3>6. L[x] = (IF k(x).kind \in Aside THEN L[k(x).to] ELSE <<item(x)>> \o L[k(x).to])
          /\ item(x) \in Q
      <4> HIDE DEF k, item
      <4> QED BY <1>2, <2>2, <3>1
    <3>7. L[k(x).to] \in Seq(Q)
      <4> HIDE DEF k, item
      <4> QED BY <1>2, <3>5
    <3>8. CASE k(x).kind \in Aside
      <4>1. LiesWithin(t, escaping, x, L[k(x).to], own(x) \cup M[k(x).to])
        BY <3>1, <3>4, <3>8, AsideWithin
      <4> HIDE DEF k, own, item
      <4> QED BY <3>3, <3>6, <3>8, <4>1
    <3>9. CASE k(x).kind \notin Aside
      <4> DEFINE one == item(x)
      <4>1. one.kind = k(x).kind /\ one.to = k(x).to
        OBVIOUS
      <4>2. one = [kind |-> Token(t, x, escaping).kind, from |-> x, to |-> Token(t, x, escaping).to]
        OBVIOUS
      <4>3. own(x) = IF one.kind \in Literals THEN Opens(t, x)..(one.to - 1) ELSE {}
        BY <4>1
      <4>4. one \in Q
        BY <3>6
      <4>5. LiesWithin(t, escaping, one.to, L[one.to], M[one.to]) /\ L[one.to] \in Seq(Q) /\ one.kind \notin Aside
        BY <3>4, <3>7, <3>9, <4>1
      <4> HIDE DEF one, k
      <4>6. LiesWithin(t, escaping, x, <<one>> \o L[one.to],
                       (IF one.kind \in Literals THEN Opens(t, x)..(one.to - 1) ELSE {}) \cup M[one.to])
        BY <3>1, <4>2, <4>4, <4>5, OneMoreWithin
      <4>7. L[x] = <<one>> \o L[one.to]
        BY <3>6, <3>9, <4>1 DEF one
      <4> HIDE DEF own
      <4> QED BY <3>3, <4>1, <4>3, <4>6, <4>7
    <3> QED BY <3>8, <3>9
  <2>3. x > Len(t) \/ x <= Len(t)
    BY <1>1
  <2> QED BY <2>1, <2>2, <2>3
<1>4. ClosedDown(Len(t) + 1, S)
  <2> HIDE DEF L, M
  <2> QED BY <1>1, <1>3 DEF ClosedDown
<1>5. i \in S
  <2> HIDE DEF S
  <2> QED BY <1>4, Downwards
<1> QED BY <1>5

-----------------------------------------------------------------------------
(* The text with no syntax blanked.                                        *)
LEMMA SaidWithin ==
    ASSUME NEW t \in Text, NEW escaping \in BOOLEAN
    PROVE  /\ LiesWithin(t, escaping, 1, Said(t, escaping), Blanked(t, escaping))
           /\ \E Q : Said(t, escaping) \in Seq(Q)
<1>1. 1 \in 1..(Len(t) + 1)
  BY DEF Text
<1>2. Said(t, escaping) = Lexed(t, escaping, Aside)[1]
  BY DEF Said, Aside
<1>3. Blanked(t, escaping) = NoSyntaxFrom(t, escaping)[1]
  BY BlankedAsTheServer DEF NoSyntax, Text
<1>4. PICK Q : LexedIn(t, escaping, Aside, Q)
  BY LexedRecurs
<1>5. Said(t, escaping) \in Seq(Q)
  BY <1>1, <1>2, <1>4 DEF LexedIn
<1> QED BY <1>1, <1>2, <1>3, <1>5, WithinFromAnyPlace

(* The blanked text is as long, and is the text outside what is blanked.   *)
LEMMA BareAt ==
    ASSUME NEW t \in Text, NEW escaping \in BOOLEAN
    PROVE  /\ Len(WithoutLiterals(t, escaping)) = Len(t)
           /\ DOMAIN WithoutLiterals(t, escaping) = 1..Len(t)
           /\ \A i \in 1..Len(t) :
                 /\ i \notin Blanked(t, escaping) => WithoutLiterals(t, escaping)[i] = t[i]
                 /\ i \in Blanked(t, escaping) => WithoutLiterals(t, escaping)[i] \in Space
<1> DEFINE bare == WithoutLiterals(t, escaping)
           gone == Blanked(t, escaping)
           shown(i) == IF i \in gone /\ t[i] # "nl" THEN " " ELSE t[i]
           S == {shown(i) : i \in 1..Len(t)}
<1>1. Len(t) \in Nat /\ DOMAIN t = 1..Len(t)
  BY DEF Text
<1>2. bare = [i \in 1..Len(t) |-> shown(i)]
  BY <1>1 DEF WithoutLiterals
<1>3. \A i \in 1..Len(t) : (i \notin gone => shown(i) = t[i]) /\ (i \in gone => shown(i) \in Space)
  BY DEF Space
<1> HIDE DEF bare, gone, shown
<1>4. bare \in [1..Len(t) -> S]
  BY <1>2
<1> HIDE DEF S
<1>5. bare \in Seq(S)
  BY <1>1, <1>4
<1>6. DOMAIN bare = 1..Len(t) /\ Len(bare) = Len(t)
  <2>1. DOMAIN bare = 1..Len(bare) /\ Len(bare) \in Nat
    BY <1>5
  <2> QED BY <1>1, <1>4, <2>1
<1> QED BY <1>2, <1>3, <1>6 DEF bare, gone

(* The last symbol of the blanked text that is no space.                   *)
LEMMA LastSaidIs ==
    ASSUME NEW bare, NEW n \in Nat, DOMAIN bare = 1..n, Len(bare) = n
    PROVE  \/ LastSaid(bare) = 0 /\ \A x \in 1..n : bare[x] \in Space
           \/ /\ LastSaid(bare) \in 1..n /\ bare[LastSaid(bare)] \notin Space
              /\ \A x \in (LastSaid(bare) + 1)..n : bare[x] \in Space
<1> DEFINE IsLast(i) == bare[i] \notin Space /\ \A j \in (i + 1)..n : bare[j] \in Space
<1>1. CASE \A x \in 1..n : bare[x] \in Space
  BY <1>1 DEF LastSaid
<1>2. CASE ~\A x \in 1..n : bare[x] \in Space
  <2>1. \E i \in 1..n : IsLast(i)
    <3>1. SUFFICES ASSUME \A i \in 1..n : ~IsLast(i) PROVE FALSE
      OBVIOUS
    <3> DEFINE S == {x \in 1..n : bare[x] \in Space}
    <3>2. ASSUME NEW x \in 1..n, \A y \in (x + 1)..n : y \in S PROVE x \in S
      BY <3>1, <3>2
    <3>3. \A x \in 1..n : x \in S
      <4> HIDE DEF S
      <4>1. ClosedDown(n, S)
        BY <3>2 DEF ClosedDown
      <4> QED BY <4>1, Downwards
    <3> QED BY <1>2, <3>3
  <2>2. LastSaid(bare) = CHOOSE i \in 1..n : IsLast(i)
    BY <1>2 DEF LastSaid
  <2>3. LastSaid(bare) \in 1..n /\ IsLast(LastSaid(bare))
    <3> HIDE DEF IsLast
    <3> QED BY <2>1, <2>2
  <2> QED BY <2>3
<1> QED BY <1>1, <1>2

(* A semicolon or a parenthesis is a token of its own.                     *)
LEMMA SemicolonIsMark ==
    ASSUME NEW t \in Text, NEW i \in 1..Len(t), NEW escaping \in BOOLEAN, t[i] \in {";", "("}
    PROVE  Token(t, i, escaping).kind = "punct" /\ Token(t, i, escaping).to = i + 1
<1>1. /\ t[i] \notin {"q", "Q", "$", " ", "nl", "-", "/"} /\ ~BeginsEscaping(t, i)
      /\ ~IsNameStart(t[i]) /\ t[i] \notin Digits
  BY DEF BeginsEscaping, IsNameStart, Marks, Digits
<1>2. ~Holds(t, i, <<"-", "-">>) /\ ~Holds(t, i, <<"/", "*">>)
  BY <1>1, HoldsFirst
<1> DEFINE k == Token(t, i, escaping)
<1> SUFFICES k.kind = "punct" /\ k.to = i + 1
  OBVIOUS
<1>3. k = [kind |-> "punct", to |-> i + 1]
  BY <1>1, <1>2 DEF Token
<1> HIDE DEF k
<1> QED BY <1>3

(* A semicolon that counts, before something that counts.                  *)
LEMMA TwoAreSeen ==
    ASSUME NEW t \in Text, NEW escaping \in BOOLEAN, TwoStatements(t, escaping)
    PROVE  /\ SecondStatement(WithoutLiterals(t, escaping))
           /\ \E i \in DOMAIN t : t[i] = ";"
<1> DEFINE said == Said(t, escaping)
           gone == Blanked(t, escaping)
           bare == WithoutLiterals(t, escaping)
<1>1. Len(t) \in Nat /\ DOMAIN t = 1..Len(t)
  BY DEF Text
<1>2. LiesWithin(t, escaping, 1, said, gone)
  BY SaidWithin
<1>3. PICK n \in DOMAIN said, m \in DOMAIN said :
         n < m /\ IsSemicolon(t, said[n]) /\ said[m].kind \in {"word", "number", "punct"}
  BY DEF TwoStatements, FollowedBy
<1>4. /\ Len(bare) = Len(t) /\ DOMAIN bare = 1..Len(t)
      /\ \A i \in 1..Len(t) : i \notin gone => bare[i] = t[i]
  BY BareAt
<1> HIDE DEF said, gone, bare
<1> DEFINE i == said[n].from
           j == said[m].from
<1>5. /\ i \in 1..Len(t) /\ j \in 1..Len(t)
      /\ said[n].to = Token(t, i, escaping).to /\ said[m].to = Token(t, j, escaping).to
      /\ said[n].kind = Token(t, i, escaping).kind /\ said[m].kind = Token(t, j, escaping).kind
      /\ said[n].to <= j
  BY <1>2, <1>3 DEF LiesWithin
<1>6. said[n].to \in (i + 1)..(Len(t) + 1) /\ said[m].to \in (j + 1)..(Len(t) + 1)
  BY <1>5, TokenEnds
<1>7. said[n].kind = "punct" /\ t[i] = ";"
  BY <1>3 DEF IsSemicolon
<1>8. said[n].kind \notin Literals /\ said[m].kind \notin Literals /\ said[m].kind # "space"
  BY <1>3, <1>7 DEF Literals
<1>9. /\ \A x \in i..(said[n].to - 1) : x \notin gone
      /\ \A x \in j..(said[m].to - 1) : x \notin gone
  BY <1>2, <1>8 DEF LiesWithin
<1>10. t[j] \notin Space
  BY <1>5, <1>8, SpaceIsSpace
<1> HIDE DEF i, j
<1>11. i < j /\ i \notin gone /\ j \notin gone
  BY <1>1, <1>5, <1>6, <1>9
<1>12. bare[i] = ";" /\ bare[j] \notin Space
  BY <1>4, <1>5, <1>7, <1>10, <1>11 DEF i
<1>13. LastSaid(bare) \in 1..Len(t) /\ ~(LastSaid(bare) < j)
  <2>1. \/ LastSaid(bare) = 0 /\ \A x \in 1..Len(t) : bare[x] \in Space
        \/ /\ LastSaid(bare) \in 1..Len(t)
           /\ \A x \in (LastSaid(bare) + 1)..Len(t) : bare[x] \in Space
    BY <1>1, <1>4, LastSaidIs
  <2> DEFINE last == LastSaid(bare)
  <2> HIDE DEF last
  <2>2. \/ last = 0 /\ \A x \in 1..Len(t) : bare[x] \in Space
        \/ last \in 1..Len(t) /\ \A x \in (last + 1)..Len(t) : bare[x] \in Space
    BY <2>1 DEF last
  <2>3. last # 0
    <3>1. j \in 1..Len(t) /\ bare[j] \notin Space
      BY <1>5, <1>12 DEF j
    <3> QED BY <2>2, <3>1
  <2>4. last \in 1..Len(t) /\ \A x \in (last + 1)..Len(t) : bare[x] \in Space
    BY <2>2, <2>3
  <2>5. j \in 1..Len(t) /\ bare[j] \notin Space
    BY <1>5, <1>12 DEF j
  <2>6. last < j => j \in (last + 1)..Len(t)
    BY <1>1, <2>4, <2>5
  <2> QED BY <2>4, <2>5, <2>6 DEF last
<1>14. i \in 1..(LastSaid(bare) - 1)
  BY <1>1, <1>5, <1>11, <1>13
<1>15. SecondStatement(bare)
  BY <1>12, <1>14 DEF SecondStatement
<1>16. i \in DOMAIN t /\ t[i] = ";"
  BY <1>1, <1>5, <1>7 DEF i
<1> QED BY <1>15, <1>16 DEF bare

(* Where a second statement is seen, something follows a semicolon.        *)
LEMMA SeenIsThere ==
    ASSUME NEW t \in Text, NEW escaping \in BOOLEAN, SecondStatement(WithoutLiterals(t, escaping))
    PROVE  SomethingFollows(t, escaping)
<1> DEFINE said == Said(t, escaping)
           gone == Blanked(t, escaping)
           bare == WithoutLiterals(t, escaping)
<1>1. Len(t) \in Nat /\ DOMAIN t = 1..Len(t)
  BY DEF Text
<1>2. LiesWithin(t, escaping, 1, said, gone)
  BY SaidWithin
<1>3. /\ Len(bare) = Len(t) /\ DOMAIN bare = 1..Len(t)
      /\ \A x \in 1..Len(t) : x \notin gone => bare[x] = t[x]
      /\ \A x \in 1..Len(t) : x \in gone => bare[x] \in Space
  BY BareAt
<1>4. PICK Q : said \in Seq(Q)
  BY SaidWithin
<1>5. PICK i \in 1..(LastSaid(bare) - 1) : bare[i] = ";"
  BY DEF SecondStatement
<1> HIDE DEF said, gone, bare
<1> DEFINE j == LastSaid(bare)
<1>6. \/ j = 0
      \/ j \in 1..Len(t) /\ bare[j] \notin Space
  BY <1>1, <1>3, LastSaidIs
<1>61. i \in 1..(j - 1) /\ j \in Int
  <2>1. j \in Int
    <3> HIDE DEF j
    <3> QED BY <1>1, <1>6
  <2>2. i \in 1..(j - 1)
    OBVIOUS
  <2> QED BY <2>1, <2>2
<1> HIDE DEF j
<1>7. j \in 1..Len(t) /\ i \in 1..Len(t) /\ i < j /\ bare[j] \notin Space
  BY <1>1, <1>6, <1>61
<1>8. i \notin gone /\ t[i] = ";" /\ j \notin gone /\ t[j] \notin Space
  BY <1>3, <1>5, <1>7 DEF Space
<1>9. PICK n \in DOMAIN said : i \in said[n].from..(said[n].to - 1)
  BY <1>2, <1>7, <1>8 DEF LiesWithin, Space
<1>10. PICK m \in DOMAIN said : j \in said[m].from..(said[m].to - 1)
  BY <1>2, <1>7, <1>8 DEF LiesWithin
<1>11. ASSUME NEW l \in DOMAIN said
       PROVE  /\ said[l].from \in 1..Len(t) /\ said[l].kind = Token(t, said[l].from, escaping).kind
              /\ said[l].to = Token(t, said[l].from, escaping).to
              /\ said[l].kind \notin Aside /\ said[l].kind \in KnownKinds
              /\ said[l].kind \in Literals => Opens(t, said[l].from)..(said[l].to - 1) \subseteq gone
  <2>1. /\ said[l].from \in 1..Len(t) /\ said[l].kind = Token(t, said[l].from, escaping).kind
        /\ said[l].to = Token(t, said[l].from, escaping).to
        /\ said[l].kind \notin Aside
        /\ said[l].kind \in Literals => Opens(t, said[l].from)..(said[l].to - 1) \subseteq gone
    BY <1>2 DEF LiesWithin
  <2>2. Token(t, said[l].from, escaping).kind \in KnownKinds
    BY <2>1, TokenEnds
  <2> QED BY <2>1, <2>2
<1>12. IsSemicolon(t, said[n])
  <2> DEFINE s == said[n]
  <2>1. /\ s.from \in 1..Len(t) /\ s.kind = Token(t, s.from, escaping).kind
        /\ s.to = Token(t, s.from, escaping).to /\ s.kind \notin Aside
        /\ s.kind \in Literals => Opens(t, s.from)..(s.to - 1) \subseteq gone
        /\ i \in s.from..(s.to - 1)
    BY <1>9, <1>11
  <2> HIDE DEF s
  <2>2. s.from = i
    <3>1. CASE s.kind \in Literals
      <4>1. i \notin Opens(t, s.from)..(s.to - 1)
        BY <1>8, <2>1, <3>1
      <4>2. Opens(t, s.from) \in {s.from, s.from + 1}
        BY DEF Opens
      <4> QED BY <1>1, <2>1, <4>1, <4>2
    <3>2. CASE s.kind \in {"word", "number"}
      <4>1. s.to = NameRunEnd(t, s.from)
        BY <2>1, <3>2 DEF Token
      <4>2. IsNameChar(t[i])
        <5>1. s.from \in 1..(Len(t) + 1)
          BY <1>1, <2>1
        <5>2. \A x \in s.from..(NameRunEnd(t, s.from) - 1) : IsNameChar(t[x])
          BY <5>1, NameRunEnds
        <5> QED BY <2>1, <4>1, <5>2
      <4> QED BY <1>8, <4>2 DEF IsNameChar, Marks
    <3>3. CASE s.kind = "punct"
      <4>1. s.to = s.from + 1
        BY <2>1, <3>3 DEF Token
      <4> QED BY <1>1, <2>1, <4>1
    <3>4. s.kind \in KnownKinds
      BY <2>1, TokenEnds
    <3> QED BY <2>1, <3>1, <3>2, <3>3, <3>4 DEF KnownKinds, Literals, Aside
  <2>3. s.kind = "punct"
    BY <1>7, <1>8, <2>1, <2>2, SemicolonIsMark
  <2> QED BY <1>8, <2>2, <2>3 DEF IsSemicolon, s
<1>13. n < m
  <2>1. DOMAIN said = 1..Len(said) /\ Len(said) \in Nat
    BY <1>4
  <2>2. said[n].from = i /\ said[n].to = i + 1
    <3>1. said[n].kind = "punct" /\ t[said[n].from] = ";"
      BY <1>12 DEF IsSemicolon
    <3>2. said[n].to = said[n].from + 1
      BY <1>11, <3>1, SemicolonIsMark
    <3>3. said[n].from \in 1..Len(t)
      BY <1>11
    <3> QED BY <1>1, <1>9, <3>2, <3>3
  <2>3. n # m
    BY <1>1, <1>7, <1>10, <2>2
  <2>4. m < n => said[m].to <= said[n].from
    BY <1>2 DEF LiesWithin
  <2>5. said[m].to \in (said[m].from + 1)..(Len(t) + 1) /\ said[m].from \in 1..Len(t)
    BY <1>11, TokenEnds
  <2>6. ~(m < n)
    BY <1>1, <1>7, <1>10, <2>2, <2>4, <2>5
  <2> QED BY <2>1, <2>3, <2>6
<1>14. said[m].kind \in {"word", "number", "punct", "string", "quoted"}
  BY <1>11 DEF KnownKinds, Aside
<1> QED BY <1>12, <1>13, <1>14 DEF SomethingFollows, FollowedBy, said

(* Without a backslash the two ways of reading one are the same.           *)
LEMMA NoBackslashNoMatter ==
    ASSUME NEW t \in Text, \A i \in DOMAIN t : t[i] # "b"
    PROVE  Blanked(t, TRUE) = Blanked(t, FALSE)
<1>1. Len(t) \in Nat /\ DOMAIN t = 1..Len(t)
  BY DEF Text
<1>2. ASSUME NEW quote \in Quotes, NEW p \in 1..(Len(t) + 1)
      PROVE  QuotedEnds(t, quote, TRUE)[p] = QuotedEnds(t, quote, FALSE)[p]
  <2> DEFINE A == QuotedEnds(t, quote, TRUE)
             B == QuotedEnds(t, quote, FALSE)
             S == {x \in 1..(Len(t) + 1) : A[x] = B[x]}
  <2>1. ASSUME NEW x \in 1..(Len(t) + 1), \A y \in (x + 1)..(Len(t) + 1) : y \in S
        PROVE  A[x] = B[x]
    <3>1. ASSUME NEW e \in BOOLEAN
          PROVE  QuotedEnds(t, quote, e)[x] =
                    IF x > Len(t) THEN x
                    ELSE IF t[x] # quote THEN QuotedEnds(t, quote, e)[x + 1]
                    ELSE IF Sym(t, x + 1) = quote THEN QuotedEnds(t, quote, e)[x + 2] ELSE x + 1
      <4>1. x <= Len(t) => t[x] # "b"
        BY <1>1
      <4>2. x > Len(t) \/ x <= Len(t)
        BY <1>1
      <4> DEFINE E == QuotedEnds(t, quote, e)
      <4>3. E[x] = IF x > Len(t) THEN x
              ELSE IF t[x] = "b" /\ e THEN IF x = Len(t) THEN x + 1 ELSE E[x + 2]
              ELSE IF t[x] # quote THEN E[x + 1]
              ELSE IF Sym(t, x + 1) = quote THEN E[x + 2] ELSE x + 1
        BY QuotedEndsRecurs
      <4> SUFFICES E[x] = IF x > Len(t) THEN x ELSE IF t[x] # quote THEN E[x + 1]
                          ELSE IF Sym(t, x + 1) = quote THEN E[x + 2] ELSE x + 1
        OBVIOUS
      <4> HIDE DEF E
      <4> QED BY <4>1, <4>2, <4>3
    <3>2. A[x] = IF x > Len(t) THEN x ELSE IF t[x] # quote THEN A[x + 1]
                 ELSE IF Sym(t, x + 1) = quote THEN A[x + 2] ELSE x + 1
      BY <3>1
    <3>3. B[x] = IF x > Len(t) THEN x ELSE IF t[x] # quote THEN B[x + 1]
                 ELSE IF Sym(t, x + 1) = quote THEN B[x + 2] ELSE x + 1
      BY <3>1
    <3> HIDE DEF A, B
    <3>4. CASE x > Len(t)
      BY <3>2, <3>3, <3>4
    <3>5. CASE x <= Len(t)
      <4>1. x \in 1..Len(t) /\ ~(x > Len(t))
        BY <1>1, <3>5
      <4>2. A[x + 1] = B[x + 1]
        <5>1. x + 1 \in (x + 1)..(Len(t) + 1)
          BY <1>1, <4>1
        <5> QED BY <2>1, <5>1
      <4>3. Sym(t, x + 1) = quote => A[x + 2] = B[x + 2]
        <5>1. Sym(t, x + 1) = quote => x + 1 \in 1..Len(t)
          BY <1>1, SymAt DEF Quotes
        <5>2. Sym(t, x + 1) = quote => x + 2 \in (x + 1)..(Len(t) + 1)
          BY <1>1, <5>1
        <5> QED BY <2>1, <5>2
      <4> QED BY <3>2, <3>3, <4>1, <4>2, <4>3
    <3>6. x > Len(t) \/ x <= Len(t)
      BY <1>1
    <3> QED BY <3>4, <3>5, <3>6
  <2>2. ClosedDown(Len(t) + 1, S)
    <3> HIDE DEF A, B
    <3> QED BY <1>1, <2>1 DEF ClosedDown
  <2>3. p \in S
    <3> HIDE DEF S
    <3> QED BY <2>2, Downwards
  <2> QED BY <2>3
<1>3. ASSUME NEW i \in 1..Len(t)
      PROVE  Token(t, i, TRUE) = Token(t, i, FALSE)
  <2>1. QuotedEnds(t, "q", TRUE)[i + 1] = QuotedEnds(t, "q", FALSE)[i + 1]
    <3>1. "q" \in Quotes /\ i + 1 \in 1..(Len(t) + 1)
      BY <1>1 DEF Quotes
    <3> QED BY <1>2, <3>1
  <2> QED BY <2>1 DEF Token
<1>4. ASSUME NEW p \in 1..(Len(t) + 1)
      PROVE  NoSyntaxFrom(t, TRUE)[p] = NoSyntaxFrom(t, FALSE)[p]
  <2> DEFINE A == NoSyntaxFrom(t, TRUE)
             B == NoSyntaxFrom(t, FALSE)
             S == {x \in 1..(Len(t) + 1) : A[x] = B[x]}
             k(x) == Token(t, x, FALSE)
             own(x) == IF k(x).kind \in Literals THEN Opens(t, x)..(k(x).to - 1) ELSE {}
  <2>1. ASSUME NEW x \in 1..(Len(t) + 1), \A y \in (x + 1)..(Len(t) + 1) : y \in S
        PROVE  A[x] = B[x]
    <3>1. CASE x > Len(t)
      BY <3>1, NoSyntaxRecurs
    <3>2. CASE x <= Len(t)
      <4>1. x \in 1..Len(t) /\ ~(x > Len(t))
        BY <1>1, <3>2
      <4>2. Token(t, x, TRUE) = k(x)
        BY <1>3, <4>1
      <4>0. ASSUME NEW e \in BOOLEAN
            PROVE  NoSyntaxFrom(t, e)[x] =
                      (IF Token(t, x, e).kind \in Literals THEN Opens(t, x)..(Token(t, x, e).to - 1) ELSE {})
                      \cup NoSyntaxFrom(t, e)[Token(t, x, e).to]
        BY <4>1, NoSyntaxRecurs
      <4>3. A[x] = own(x) \cup A[k(x).to]
        <5>1. A[x] = (IF Token(t, x, TRUE).kind \in Literals THEN Opens(t, x)..(Token(t, x, TRUE).to - 1) ELSE {})
                     \cup A[Token(t, x, TRUE).to]
          BY <4>0
        <5> HIDE DEF A
        <5> QED BY <4>2, <5>1
      <4>4. B[x] = own(x) \cup B[k(x).to]
        BY <4>0
      <4>5. k(x).to \in (x + 1)..(Len(t) + 1)
        BY <4>1, TokenEnds
      <4> HIDE DEF A, B, k, own
      <4>6. A[k(x).to] = B[k(x).to]
        BY <2>1, <4>5
      <4> QED BY <4>3, <4>4, <4>6
    <3>3. x > Len(t) \/ x <= Len(t)
      BY <1>1
    <3> QED BY <3>1, <3>2, <3>3
  <2>2. ClosedDown(Len(t) + 1, S)
    <3> HIDE DEF A, B
    <3> QED BY <1>1, <2>1 DEF ClosedDown
  <2>3. p \in S
    <3> HIDE DEF S
    <3> QED BY <2>2, Downwards
  <2> QED BY <2>3
<1>5. NoSyntax(t, TRUE) = NoSyntax(t, FALSE)
  <2>1. 1 \in 1..(Len(t) + 1)
    BY <1>1
  <2> QED BY <1>4, <2>1 DEF NoSyntax
<1> QED BY <1>5, BlankedAsTheServer DEF Text

(* A text with a second statement in it, by either way the server may read *)
(* backslashes, is refused, and none is refused where nothing follows a     *)
(* semicolon in either.                                                    *)
THEOREM ManyRefused ==
    \A t \in Seq(STRING) :
        /\ (\E escaping \in BOOLEAN : TwoStatements(t, escaping)) => RefusesMany(t)
        /\ RefusesMany(t) => \E escaping \in BOOLEAN : SomethingFollows(t, escaping)
<1> SUFFICES ASSUME NEW t \in Text
             PROVE  /\ (\E escaping \in BOOLEAN : TwoStatements(t, escaping)) => RefusesMany(t)
                    /\ RefusesMany(t) => \E escaping \in BOOLEAN : SomethingFollows(t, escaping)
  BY DEF Text
<1>1. TRUE \in BOOLEAN /\ FALSE \in BOOLEAN
  OBVIOUS
<1>2. ASSUME NEW escaping \in BOOLEAN, TwoStatements(t, escaping)
      PROVE  RefusesMany(t)
  <2>1. SecondStatement(WithoutLiterals(t, escaping)) /\ \E i \in DOMAIN t : t[i] = ";"
    BY <1>2, TwoAreSeen
  <2>2. CASE escaping = FALSE
    BY <2>1, <2>2 DEF RefusesMany
  <2>3. CASE escaping = TRUE /\ \E i \in DOMAIN t : t[i] = "b"
    BY <2>1, <2>3 DEF RefusesMany
  <2>4. CASE escaping = TRUE /\ \A i \in DOMAIN t : t[i] # "b"
    <3>1. WithoutLiterals(t, TRUE) = WithoutLiterals(t, FALSE)
      BY <2>4, NoBackslashNoMatter DEF WithoutLiterals
    <3> QED BY <2>1, <2>4, <3>1 DEF RefusesMany
  <2> QED BY <2>2, <2>3, <2>4
<1>3. ASSUME RefusesMany(t)
      PROVE  \E escaping \in BOOLEAN : SomethingFollows(t, escaping)
  <2>1. SecondStatement(WithoutLiterals(t, FALSE)) \/ SecondStatement(WithoutLiterals(t, TRUE))
    BY <1>3 DEF RefusesMany
  <2> QED BY <1>1, <2>1, SeenIsThere
<1> QED BY <1>2, <1>3

-----------------------------------------------------------------------------
(* Skipping space from a place comes to the first that is none.            *)
LEMMA SkippedTo ==
    ASSUME NEW bare, NEW n \in Nat, Len(bare) = n, NEW p \in 1..(n + 1), NEW j \in p..(n + 1),
           \A x \in p..(j - 1) : bare[x] \in Space,
           j = n + 1 \/ bare[j] \notin Space
    PROVE  SkipSpace(bare, p) = j
<1> DEFINE S == {x \in p..n : bare[x] \notin Space}
<1>1. S \in SUBSET Nat
  OBVIOUS
<1>2. SkipSpace(bare, p) = LeastOf(S, n + 1)
  BY DEF SkipSpace
<1>3. CASE j = n + 1
  <2>1. S = {}
    BY <1>3
  <2> QED BY <1>2, <1>3, <2>1 DEF LeastOf
<1>4. CASE j # n + 1
  <2>1. j \in S /\ \A x \in S : j <= x
    BY <1>4
  <2> DEFINE s == SkipSpace(bare, p)
  <2>2. s \in S /\ \A x \in S : s <= x
    <3> HIDE DEF S, s
    <3>1. S # {}
      BY <2>1
    <3> QED BY <1>1, <1>2, <3>1, LeastIsThere DEF s
  <2> HIDE DEF s
  <2>3. s \in Int
    BY <2>2
  <2>4. s <= j /\ j <= s
    <3> HIDE DEF S
    <3> QED BY <2>1, <2>2
  <2>5. s = j
    BY <2>3, <2>4
  <2> QED BY <2>5 DEF s
<1> QED BY <1>3, <1>4

(* From the end of one token that counts to the next there is space.       *)
GapFrom(said, m) == IF m = 1 THEN 1 ELSE said[m - 1].to

(* Between two tokens that count, the blanked text is space.               *)
LEMMA GapIsSpace ==
    ASSUME NEW t \in Text, NEW escaping \in BOOLEAN, NEW m \in DOMAIN Said(t, escaping),
           NEW x \in GapFrom(Said(t, escaping), m)..(Said(t, escaping)[m].from - 1), x \in 1..Len(t)
    PROVE  WithoutLiterals(t, escaping)[x] \in Space
<1> DEFINE said == Said(t, escaping)
           gone == Blanked(t, escaping)
           bare == WithoutLiterals(t, escaping)
<1>1. Len(t) \in Nat
  BY DEF Text
<1>2. LiesWithin(t, escaping, 1, said, gone)
  BY SaidWithin
<1>3. PICK Q : said \in Seq(Q)
  BY SaidWithin
<1>4. /\ \A y \in 1..Len(t) : y \notin gone => bare[y] = t[y]
      /\ \A y \in 1..Len(t) : y \in gone => bare[y] \in Space
  BY BareAt
<1>5. DOMAIN said = 1..Len(said) /\ Len(said) \in Nat
  BY <1>3
<1>6. x \in GapFrom(said, m)..(said[m].from - 1) /\ m \in DOMAIN said
  OBVIOUS
<1>7. SUFFICES bare[x] \in Space
  OBVIOUS
<1> HIDE DEF said, gone, bare
<1>8. ASSUME NEW n \in DOMAIN said, x \in said[n].from..(said[n].to - 1) PROVE FALSE
  <2>1. said[n].from \in 1..Len(t) /\ said[n].to \in (said[n].from + 1)..(Len(t) + 1)
    <3>1. said[n].from \in 1..Len(t) /\ said[n].to = Token(t, said[n].from, escaping).to
      BY <1>2 DEF LiesWithin
    <3> QED BY <3>1, TokenEnds
  <2>2. said[m].from \in 1..Len(t) /\ said[m].to \in (said[m].from + 1)..(Len(t) + 1)
    <3>1. said[m].from \in 1..Len(t) /\ said[m].to = Token(t, said[m].from, escaping).to
      BY <1>2, <1>6 DEF LiesWithin
    <3> QED BY <3>1, TokenEnds
  <2>3. CASE n = m
    BY <1>1, <1>6, <1>8, <2>1, <2>3
  <2>4. CASE m < n
    <3>1. said[m].to <= said[n].from
      BY <1>2, <1>6, <2>4 DEF LiesWithin
    <3> QED BY <1>1, <1>6, <1>8, <2>1, <2>2, <3>1
  <2>5. CASE n < m
    <3>1. m # 1 /\ m - 1 \in DOMAIN said /\ (n = m - 1 \/ n < m - 1)
      BY <1>5, <1>6, <2>5
    <3>2. GapFrom(said, m) = said[m - 1].to
      BY <3>1 DEF GapFrom
    <3>3. said[m - 1].from \in 1..Len(t) /\ said[m - 1].to \in (said[m - 1].from + 1)..(Len(t) + 1)
      <4>1. said[m - 1].from \in 1..Len(t) /\ said[m - 1].to = Token(t, said[m - 1].from, escaping).to
        BY <1>2, <3>1 DEF LiesWithin
      <4> QED BY <4>1, TokenEnds
    <3>4. n < m - 1 => said[n].to <= said[m - 1].from
      BY <1>2, <3>1 DEF LiesWithin
    <3> QED BY <1>1, <1>6, <1>8, <2>1, <3>1, <3>2, <3>3, <3>4
  <2> QED BY <1>5, <1>6, <2>3, <2>4, <2>5
<1>9. t[x] \in Space \/ x \in gone
  BY <1>2, <1>8 DEF LiesWithin
<1> QED BY <1>4, <1>9

(* The words that are commands, of the transaction or of the session.      *)
Commands == {"begin", "commit", "set"}

(* A command is a word, and as long as its name goes on.                   *)
LEMMA CommandIsAWord ==
    ASSUME NEW t \in Text, NEW i \in 1..Len(t), NEW escaping \in BOOLEAN, t[i] \in Commands
    PROVE  Token(t, i, escaping).kind = "word" /\ Token(t, i, escaping).to = NameRunEnd(t, i)
<1> DEFINE k == Token(t, i, escaping)
<1> SUFFICES k.kind = "word" /\ k.to = NameRunEnd(t, i)
  OBVIOUS
<1>1. t[i] \notin {"q", "Q", "$", " ", "nl", "-", "/"} /\ ~BeginsEscaping(t, i) /\ IsNameStart(t[i])
  BY DEF BeginsEscaping, IsNameStart, Marks, Digits, Commands
<1>2. ~Holds(t, i, <<"-", "-">>) /\ ~Holds(t, i, <<"/", "*">>)
  BY <1>1, HoldsFirst
<1>3. k = [kind |-> "word", to |-> NameRunEnd(t, i)]
  BY <1>1, <1>2 DEF Token
<1> HIDE DEF k
<1> QED BY <1>3

(* At a token that counts the blanked text reads as the text does.         *)
LEMMA WordIs ==
    ASSUME NEW t \in Text, NEW escaping \in BOOLEAN, NEW m \in DOMAIN Said(t, escaping),
           Said(t, escaping)[m].kind \notin {"string", "quoted"}, NEW words \in SUBSET Commands
    PROVE  /\ WordAt(WithoutLiterals(t, escaping), Said(t, escaping)[m].from, words)
                 <=> IsTheWord(t, Said(t, escaping)[m], words)
           /\ Said(t, escaping)[m].from \in 1..Len(t)
           /\ WithoutLiterals(t, escaping)[Said(t, escaping)[m].from] = t[Said(t, escaping)[m].from]
           /\ t[Said(t, escaping)[m].from] \notin Space
<1> DEFINE said == Said(t, escaping)
           gone == Blanked(t, escaping)
           bare == WithoutLiterals(t, escaping)
           k == said[m]
           f == k.from
<1>1. Len(t) \in Nat
  BY DEF Text
<1>2. LiesWithin(t, escaping, 1, said, gone)
  BY SaidWithin
<1>3. /\ DOMAIN bare = 1..Len(t)
      /\ \A y \in 1..Len(t) : y \notin gone => bare[y] = t[y]
      /\ \A y \in 1..Len(t) : y \in gone => bare[y] \in Space
  BY BareAt
<1> SUFFICES /\ WordAt(bare, f, words) <=> IsTheWord(t, k, words)
             /\ f \in 1..Len(t) /\ bare[f] = t[f] /\ t[f] \notin Space
  OBVIOUS
<1>4. m \in DOMAIN said /\ k.kind \notin {"string", "quoted"}
  OBVIOUS
<1> HIDE DEF said, gone, bare
<1>5. /\ f \in 1..Len(t) /\ k.kind = Token(t, f, escaping).kind /\ k.to = Token(t, f, escaping).to
      /\ k.kind \notin Aside
  BY <1>2, <1>4 DEF LiesWithin
<1>6. k.kind \notin Literals /\ k.kind \notin {"space"} \cup Literals
  BY <1>4, <1>5 DEF Literals, Aside
<1>7. \A x \in f..(k.to - 1) : x \notin gone
  BY <1>2, <1>4, <1>6 DEF LiesWithin
<1> HIDE DEF k, f
<1>8. k.to \in (f + 1)..(Len(t) + 1)
  BY <1>5, TokenEnds
<1>9. t[f] \notin Space
  BY <1>5, <1>6, SpaceIsSpace
<1>10. f \notin gone /\ bare[f] = t[f]
  <2>1. f \in f..(k.to - 1)
    BY <1>1, <1>5, <1>8
  <2> QED BY <1>3, <1>5, <1>7, <2>1
<1>11. Sym(bare, f) = t[f]
  BY <1>3, <1>5, <1>10 DEF Sym
<1>12. ASSUME t[f] \in words
       PROVE  IsNameChar(Sym(bare, f + 1)) <=> k.to # f + 1
  <2>1. k.to = NameRunEnd(t, f)
    BY <1>5, <1>12, CommandIsAWord
  <2>2. /\ \A x \in f..(k.to - 1) : IsNameChar(t[x])
        /\ k.to <= Len(t) => ~IsNameChar(t[k.to])
    <3>1. f \in 1..(Len(t) + 1)
      BY <1>1, <1>5
    <3> QED BY <2>1, <3>1, NameRunEnds
  <2>3. CASE k.to = f + 1
    <3>1. CASE f + 1 \in 1..Len(t)
      <4>1. ~IsNameChar(t[f + 1])
        <5>1. k.to <= Len(t)
          BY <1>1, <2>3, <3>1
        <5> QED BY <2>2, <2>3, <5>1
      <4>2. Sym(bare, f + 1) = bare[f + 1] /\ (bare[f + 1] = t[f + 1] \/ bare[f + 1] \in Space)
        BY <1>3, <3>1 DEF Sym
      <4>3. ~IsNameChar(Sym(bare, f + 1))
        <5>1. CASE bare[f + 1] = t[f + 1]
          BY <4>1, <4>2, <5>1
        <5>2. CASE bare[f + 1] \in Space
          <6>1. Sym(bare, f + 1) \in {" ", "nl"}
            BY <4>2, <5>2 DEF Space
          <6> QED BY <6>1 DEF IsNameChar, Marks
        <5> QED BY <4>2, <5>1, <5>2
      <4> QED BY <2>3, <4>3
    <3>2. CASE f + 1 \notin 1..Len(t)
      <4>1. Sym(bare, f + 1) = "end"
        BY <1>3, <3>2 DEF Sym
      <4>2. ~IsNameChar(Sym(bare, f + 1))
        BY <4>1, NoName
      <4> QED BY <2>3, <4>2
    <3> QED BY <3>1, <3>2
  <2>4. CASE k.to # f + 1
    <3>1. f + 1 \in f..(k.to - 1) /\ f + 1 \in 1..Len(t)
      BY <1>1, <1>5, <1>8, <2>4
    <3>2. Sym(bare, f + 1) = t[f + 1]
      BY <1>3, <1>7, <3>1 DEF Sym
    <3>3. IsNameChar(Sym(bare, f + 1))
      BY <2>2, <3>1, <3>2
    <3> QED BY <2>4, <3>3
  <2> QED BY <2>3, <2>4
<1>13. WordAt(bare, f, words) <=> t[f] \in words /\ ~IsNameChar(Sym(bare, f + 1))
  BY <1>11 DEF WordAt
<1>14. IsTheWord(t, k, words) <=> k.kind = "word" /\ k.to = f + 1 /\ t[f] \in words
  BY DEF IsTheWord, f
<1>15. t[f] \in words => k.kind = "word"
  BY <1>5, CommandIsAWord
<1>16. WordAt(bare, f, words) <=> IsTheWord(t, k, words)
  BY <1>12, <1>13, <1>14, <1>15
<1> QED BY <1>5, <1>9, <1>10, <1>16

(* The places of a sequence that is not empty.                             *)
LEMMA SequencePlaces ==
    ASSUME NEW Q, NEW s \in Seq(Q)
    PROVE  /\ DOMAIN s = 1..Len(s) /\ Len(s) \in Nat
           /\ s # <<>> <=> Len(s) > 0
           /\ s # <<>> => 1 \in DOMAIN s
<1>1. DOMAIN s = 1..Len(s) /\ Len(s) \in Nat /\ (s # <<>> <=> Len(s) > 0)
  BY EmptySeq, LenProperties
<1> QED BY <1>1

(* Skipping space from the end of one token comes to the next.             *)
LEMMA SkippedToSaid ==
    ASSUME NEW t \in Text, NEW escaping \in BOOLEAN, NEW m \in DOMAIN Said(t, escaping),
           Said(t, escaping)[m].kind \notin {"string", "quoted"}
    PROVE  SkipSpace(WithoutLiterals(t, escaping), GapFrom(Said(t, escaping), m)) = Said(t, escaping)[m].from
<1> DEFINE said == Said(t, escaping)
           bare == WithoutLiterals(t, escaping)
           p == GapFrom(said, m)
           f == said[m].from
<1>1. Len(t) \in Nat /\ Len(bare) = Len(t)
  BY BareAt DEF Text
<1>2. LiesWithin(t, escaping, 1, said, Blanked(t, escaping))
  BY SaidWithin
<1>3. PICK Q : said \in Seq(Q)
  BY SaidWithin
<1>4. DOMAIN said = 1..Len(said) /\ Len(said) \in Nat
  BY <1>3
<1>5. f \in 1..Len(t) /\ bare[f] \notin Space
  <2>1. {} \in SUBSET Commands
    OBVIOUS
  <2> QED BY <2>1, WordIs
<1>6. p \in 1..f
  <2>1. CASE m = 1
    BY <1>1, <1>5, <2>1 DEF GapFrom
  <2>2. CASE m # 1
    <3>1. m - 1 \in DOMAIN said /\ m - 1 < m /\ m \in DOMAIN said
      <4> HIDE DEF said
      <4>1. m \in DOMAIN said
        BY DEF said
      <4> QED BY <1>4, <2>2, <4>1
    <3>2. p = said[m - 1].to
      BY <2>2 DEF GapFrom
    <3> HIDE DEF said, p, f
    <3>3. /\ said[m - 1].from \in 1..Len(t) /\ said[m - 1].to = Token(t, said[m - 1].from, escaping).to
          /\ said[m - 1].to <= said[m].from
      BY <1>2, <3>1 DEF LiesWithin
    <3>4. said[m - 1].to \in (said[m - 1].from + 1)..(Len(t) + 1)
      BY <3>3, TokenEnds
    <3> QED BY <1>1, <1>5, <3>2, <3>3, <3>4 DEF f
  <2> QED BY <2>1, <2>2
<1>7. \A x \in p..(f - 1) : bare[x] \in Space
  <2>1. ASSUME NEW x \in p..(f - 1) PROVE bare[x] \in Space
    <3>1. x \in 1..Len(t)
      <4> HIDE DEF p, f
      <4> QED BY <1>1, <1>5, <1>6
    <3> QED BY <3>1, GapIsSpace
  <2> QED BY <2>1
<1> SUFFICES SkipSpace(bare, p) = f
  OBVIOUS
<1> HIDE DEF bare, p, f, said
<1>8. p \in 1..(Len(t) + 1) /\ f \in p..(Len(t) + 1)
  BY <1>1, <1>5, <1>6
<1> QED BY <1>1, <1>5, <1>7, <1>8, SkippedTo

(* Whatever the text, a command of the session is known by its first word,  *)
(* as the server knows it, where the text does not begin with a string or  *)
(* a quoted name.                                                          *)
THEOREM SessionCommandKnown ==
    \A t \in Seq(STRING) :
        LET said == Said(t, FALSE)
        IN said # <<>> /\ said[1].kind \notin {"string", "quoted"} =>
              (IsSessionCommand(t) <=> IsTheWord(t, said[1], {"set"}))
<1> SUFFICES ASSUME NEW t \in Text, Said(t, FALSE) # <<>>, Said(t, FALSE)[1].kind \notin {"string", "quoted"}
             PROVE  IsSessionCommand(t) <=> IsTheWord(t, Said(t, FALSE)[1], {"set"})
  BY DEF Text
<1>1. FALSE \in BOOLEAN /\ {"set"} \in SUBSET Commands
  BY DEF Commands
<1>2. 1 \in DOMAIN Said(t, FALSE)
  <2>1. PICK Q : Said(t, FALSE) \in Seq(Q)
    BY SaidWithin
  <2> QED BY <2>1, SequencePlaces
<1>3. SkipSpace(WithoutLiterals(t, FALSE), 1) = Said(t, FALSE)[1].from
  <2>1. GapFrom(Said(t, FALSE), 1) = 1
    BY DEF GapFrom
  <2>2. SkipSpace(WithoutLiterals(t, FALSE), GapFrom(Said(t, FALSE), 1)) = Said(t, FALSE)[1].from
    BY <1>1, <1>2, SkippedToSaid
  <2> QED BY <2>1, <2>2
<1>4. IsSessionCommand(t) <=> WordAt(WithoutLiterals(t, FALSE), Said(t, FALSE)[1].from, {"set"})
  BY <1>3 DEF IsSessionCommand
<1>5. WordAt(WithoutLiterals(t, FALSE), Said(t, FALSE)[1].from, {"set"}) <=> IsTheWord(t, Said(t, FALSE)[1], {"set"})
  BY <1>1, <1>2, WordIs
<1> QED BY <1>4, <1>5

(* The commands of a transaction, and the token where one would stand: an  *)
(* opening parenthesis goes before it.                                     *)
Ending == {"begin", "commit"}
CommandPlace(t, said) == IF t[said[1].from] = "(" THEN 2 ELSE 1

(* Where the driver looks for the command is where the server finds it.    *)
LEMMA CommandFound ==
    ASSUME NEW t \in Text, Said(t, FALSE) # <<>>, Said(t, FALSE)[1].kind \notin {"string", "quoted"},
           CommandPlace(t, Said(t, FALSE)) \in DOMAIN Said(t, FALSE),
           Said(t, FALSE)[CommandPlace(t, Said(t, FALSE))].kind \notin {"string", "quoted"}
    PROVE  EndsTransaction(t) <=> IsTheWord(t, Said(t, FALSE)[CommandPlace(t, Said(t, FALSE))], Ending)
<1> DEFINE said == Said(t, FALSE)
           bare == WithoutLiterals(t, FALSE)
           n == CommandPlace(t, said)
           f == said[1].from
<1>1. FALSE \in BOOLEAN /\ Ending \in SUBSET Commands /\ {} \in SUBSET Commands
  BY DEF Commands, Ending
<1>2. 1 \in DOMAIN said
  <2>1. PICK Q : said \in Seq(Q)
    BY SaidWithin
  <2> HIDE DEF said
  <2>2. said # <<>>
    BY DEF said
  <2> QED BY <2>1, <2>2, SequencePlaces
<1>3. f \in 1..Len(t) /\ bare[f] = t[f] /\ SkipSpace(bare, 1) = f
  <2>1. GapFrom(said, 1) = 1
    BY DEF GapFrom
  <2>2. SkipSpace(bare, GapFrom(said, 1)) = f
    BY <1>1, <1>2, SkippedToSaid
  <2>3. f \in 1..Len(t) /\ bare[f] = t[f]
    BY <1>1, <1>2, WordIs
  <2> QED BY <2>1, <2>2, <2>3
<1>4. Sym(bare, f) = t[f]
  <2>1. DOMAIN bare = 1..Len(t)
    BY <1>1, BareAt
  <2> HIDE DEF bare, f
  <2> QED BY <1>3, <2>1 DEF Sym
<1>5. WordAt(bare, said[n].from, Ending) <=> IsTheWord(t, said[n], Ending)
  <2>1. n \in DOMAIN said /\ said[n].kind \notin {"string", "quoted"}
    OBVIOUS
  <2> HIDE DEF n
  <2> QED BY <1>1, <2>1, WordIs
<1>6. CASE t[f] = "("
  <2>1. n = 2
    BY <1>6 DEF CommandPlace
  <2>2. 2 \in DOMAIN said /\ said[2].kind \notin {"string", "quoted"}
    BY <2>1
  <2>3. SkipSpace(bare, GapFrom(said, 2)) = said[2].from
    BY <1>1, <2>2, SkippedToSaid
  <2>4. said[1].to = f + 1
    <3>1. LiesWithin(t, FALSE, 1, said, Blanked(t, FALSE))
      BY SaidWithin
    <3>2. said[1].to = Token(t, f, FALSE).to
      <4> HIDE DEF said
      <4> QED BY <1>2, <3>1 DEF LiesWithin, f
    <3>3. Token(t, f, FALSE).to = f + 1
      BY <1>1, <1>3, <1>6, SemicolonIsMark
    <3> QED BY <3>2, <3>3
  <2>5. GapFrom(said, 2) = said[1].to
    <3>1. 2 # 1 /\ 2 - 1 = 1
      OBVIOUS
    <3> HIDE DEF said
    <3> QED BY <3>1 DEF GapFrom
  <2>6. PastParenthesis(bare, f) = said[2].from
    <3> HIDE DEF said, bare, f
    <3> QED BY <1>4, <1>6, <2>3, <2>4, <2>5 DEF PastParenthesis
  <2>7. EndsTransaction(t) <=> WordAt(bare, PastParenthesis(bare, SkipSpace(bare, 1)), Ending)
    BY DEF EndsTransaction, ControlsTransaction, Ending
  <2>8. EndsTransaction(t) <=> WordAt(bare, said[n].from, Ending)
    <3> HIDE DEF said, bare, f, n
    <3> QED BY <1>3, <2>1, <2>6, <2>7
  <2> QED BY <1>5, <2>8
<1>7. CASE t[f] # "("
  <2>1. n = 1
    BY <1>7 DEF CommandPlace
  <2>2. EndsTransaction(t) <=> WordAt(bare, PastParenthesis(bare, SkipSpace(bare, 1)), Ending)
    BY DEF EndsTransaction, ControlsTransaction, Ending
  <2>3. PastParenthesis(bare, f) = f
    <3> HIDE DEF bare, f
    <3> QED BY <1>4, <1>7 DEF PastParenthesis
  <2>4. EndsTransaction(t) <=> WordAt(bare, said[n].from, Ending)
    <3>1. said[n].from = f
      BY <2>1
    <3> HIDE DEF said, bare, f, n
    <3> QED BY <1>3, <2>2, <2>3, <3>1
  <2> QED BY <1>5, <2>4
<1> QED BY <1>6, <1>7

(* Whatever the text, one that ends the transaction is known to; and one   *)
(* that is taken to does, where no string and no quoted name stands in the *)
(* place of the command.                                                   *)
THEOREM EndingKnown ==
    \A t \in Seq(STRING) :
        LET said == Said(t, FALSE)
            n == CommandPlace(t, said)
        IN /\ Controls(t) => EndsTransaction(t)
           /\ /\ said # <<>> /\ said[1].kind \notin {"string", "quoted"}
              /\ n \in DOMAIN said /\ said[n].kind \notin {"string", "quoted"}
              /\ EndsTransaction(t)
              => Controls(t)
<1> SUFFICES ASSUME NEW t \in Text
             PROVE  LET said == Said(t, FALSE)
                        n == CommandPlace(t, said)
                    IN /\ Controls(t) => EndsTransaction(t)
                       /\ /\ said # <<>> /\ said[1].kind \notin {"string", "quoted"}
                          /\ n \in DOMAIN said /\ said[n].kind \notin {"string", "quoted"}
                          /\ EndsTransaction(t)
                          => Controls(t)
  BY DEF Text
<1> DEFINE said == Said(t, FALSE)
           n == CommandPlace(t, said)
<1>1. PICK Q : said \in Seq(Q)
  BY SaidWithin
<1>2. DOMAIN said = 1..Len(said) /\ Len(said) \in Nat /\ (said # <<>> <=> Len(said) > 0)
      /\ (said # <<>> => 1 \in DOMAIN said)
  <2> HIDE DEF said
  <2> QED BY <1>1, SequencePlaces
<1>3. Controls(t) <=> (IF said # <<>> /\ t[said[1].from] = "(" THEN 2 ELSE 1) <= Len(said)
                      /\ IsTheWord(t, said[IF said # <<>> /\ t[said[1].from] = "(" THEN 2 ELSE 1], Ending)
  BY DEF Controls, Ending
<1>4. Controls(t) => said # <<>>
  <2> HIDE DEF said
  <2>1. CASE said = <<>>
    <3>1. (IF said # <<>> /\ t[said[1].from] = "(" THEN 2 ELSE 1) = 1
      BY <2>1
    <3>2. ~(1 <= Len(said))
      BY <1>2, <2>1
    <3> QED BY <1>3, <3>1, <3>2
  <2> QED BY <2>1
<1>5. said # <<>> => (Controls(t) <=> n <= Len(said) /\ IsTheWord(t, said[n], Ending))
  BY <1>3 DEF CommandPlace
<1>6. said # <<>> => (n <= Len(said) <=> n \in DOMAIN said)
  <2>1. n = 1 \/ n = 2
    BY DEF CommandPlace
  <2> HIDE DEF said, n
  <2> QED BY <1>2, <2>1
<1>7. ASSUME Controls(t) PROVE EndsTransaction(t)
  <2>1. said # <<>> /\ n \in DOMAIN said /\ IsTheWord(t, said[n], Ending)
    <3> HIDE DEF said, n
    <3> QED BY <1>4, <1>5, <1>6, <1>7
  <2>2. said[n].kind = "word"
    <3> HIDE DEF said, n
    <3> QED BY <2>1 DEF IsTheWord
  <2>3. said[1].kind \notin {"string", "quoted"}
    <3>1. CASE t[said[1].from] = "("
      <4>1. LiesWithin(t, FALSE, 1, said, Blanked(t, FALSE))
        BY SaidWithin
      <4>2. said[1].from \in 1..Len(t) /\ said[1].kind = Token(t, said[1].from, FALSE).kind
        <5> HIDE DEF said, n
        <5> QED BY <1>2, <2>1, <4>1 DEF LiesWithin
      <4>3. Token(t, said[1].from, FALSE).kind = "punct"
        <5>1. FALSE \in BOOLEAN
          OBVIOUS
        <5> QED BY <3>1, <4>2, <5>1, SemicolonIsMark
      <4> QED BY <4>2, <4>3
    <3>2. CASE t[said[1].from] # "("
      <4>1. n = 1
        BY <3>2 DEF CommandPlace
      <4> QED BY <2>2, <4>1
    <3> QED BY <3>1, <3>2
  <2>4. said[n].kind \notin {"string", "quoted"}
    <3> HIDE DEF said, n
    <3> QED BY <2>2
  <2> QED BY <2>1, <2>3, <2>4, CommandFound
<1>8. ASSUME said # <<>>, said[1].kind \notin {"string", "quoted"},
             n \in DOMAIN said, said[n].kind \notin {"string", "quoted"}, EndsTransaction(t)
      PROVE  Controls(t)
  <2>1. IsTheWord(t, said[n], Ending)
    BY <1>8, CommandFound
  <2> HIDE DEF said, n
  <2> QED BY <1>5, <1>6, <1>8, <2>1
<1> QED BY <1>7, <1>8
==============================================================================
