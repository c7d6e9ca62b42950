-------------------------- MODULE BlockchainProofs --------------------------
(***************************************************************************)
(* Proofs about Blockchain, for any pods, transactions, blocks and any     *)
(* number of failures.                                                     *)
(***************************************************************************)
EXTENDS Blockchain, SequenceTheorems, TLAPS

USE DEF replicaVars, topicVars, nodeVars

(***************************************************************************)
(* Type correctness.                                                       *)
(***************************************************************************)
LEMMA HashType ==
  ASSUME TypeOK
  PROVE  /\ Len(minted) \in Nat
         /\ Hashes \subseteq Nat \ {0}
         /\ \A h \in Hashes : minted[h] \in Blocks
  BY LenProperties DEF TypeOK, Hashes

\* Blocks are never unmade: what was a sequence of hashes stays one.
LEMMA MintedGrows ==
  ASSUME TypeOK, NEW block \in Blocks, minted' = Append(minted, block)
  PROVE  /\ minted' \in Seq(Blocks)
         /\ Len(minted') = Len(minted) + 1
         /\ \A h \in Hashes : minted'[h] = minted[h]
         /\ minted'[Len(minted) + 1] = block
         /\ Hashes' = Hashes \cup {Len(minted) + 1}
         /\ Len(minted) + 1 \in Hashes'
         /\ \A s \in Seq(Hashes) : s \in Seq(Hashes')
<1>1. minted \in Seq(Blocks) /\ Len(minted) \in Nat
  BY HashType DEF TypeOK
<1>2. /\ minted' \in Seq(Blocks)
      /\ Len(minted') = Len(minted) + 1
      /\ \A h \in Hashes : minted'[h] = minted[h]
      /\ minted'[Len(minted) + 1] = block
  BY <1>1, AppendProperties DEF Hashes
<1>3. /\ Hashes' = Hashes \cup {Len(minted) + 1}
      /\ Len(minted) + 1 \in Hashes'
  BY <1>1, <1>2 DEF Hashes
<1>4. \A s \in Seq(Hashes) : s \in Seq(Hashes')
  BY <1>3, SeqMonotonic
<1> QED
  BY <1>2, <1>3, <1>4

LEMMA LastType ==
  ASSUME TypeOK, NEW c \in Seq(Hashes)
  PROVE  Last(c) \in {0} \cup Hashes
  <1>1. c # <<>> => Len(c) \in 1 .. Len(c)
    BY EmptySeq
  <1> QED
    BY <1>1, ElementOfSeq DEF Last

LEMMA SubSeqType ==
  ASSUME TypeOK, NEW c \in Seq(Hashes), NEW m \in Nat \ {0}, NEW n \in 0 .. Len(c)
  PROVE  SubSeq(c, m, n) \in Seq(Hashes)
  <1>1. \A i \in m .. n : c[i] \in Hashes
    BY ElementOfSeq, LenProperties
  <1> QED
    BY <1>1, SubSeqProperties

LEMMA CatchUpType ==
  ASSUME TypeOK, NEW p \in alive, BeginCatchUp(p)
  PROVE  /\ catching' \subseteq alive
         /\ toAsk' \in [Pods -> SUBSET Pods]
         /\ longest' \in [Pods -> Seq(Hashes)]
  BY EmptySeq DEF TypeOK, BeginCatchUp

LEMMA ExtendType ==
  ASSUME TypeOK, NEW p \in Pods, NEW s \in Seq(Hashes),
         Extend(p, s) \/ FailedWrite(p, s)
  PROVE  chain' \in [Pods -> Seq(Hashes)] /\ store' \in [Pods -> Seq(Hashes)]
  <1>1. chain[p] \o s \in Seq(Hashes) /\ store[p] \o s \in Seq(Hashes)
    BY ConcatProperties DEF TypeOK
  <1> QED
    BY <1>1, ZenonT(60) DEF TypeOK, Extend, FailedWrite

LEMMA InitType == Init => TypeOK
  BY EmptySeq DEF Init, TypeOK

\* Every step keeps the types.
LEMMA NextType == TypeOK /\ [Next]_vars => TypeOK'
<1> SUFFICES ASSUME TypeOK, [Next]_vars PROVE TypeOK'
  OBVIOUS
<1>f. ASSUME Fault PROVE faults' \in Nat
  BY <1>f DEF Fault, TypeOK
<1>h. ASSUME UNCHANGED minted PROVE Hashes' = Hashes
  BY <1>h DEF Hashes
<1>1. ASSUME NEW p \in Pods, BlockMinted(p) PROVE TypeOK'
  <2>1. /\ Hashes' = Hashes /\ p \in alive
        /\ Head(inbox[p]) \in Hashes /\ Tail(inbox[p]) \in Seq(Hashes)
    BY <1>1, <1>h, HeadTailProperties DEF BlockMinted, Idle, TypeOK
  <2>2. <<>> \in Seq(Hashes) /\ <<Head(inbox[p])>> \in Seq(Hashes)
    BY <2>1, EmptySeq
  <2>3. inbox' \in [Pods -> Seq(Hashes)]
    BY <1>1, <2>1 DEF BlockMinted, TypeOK
  <2>4. CASE /\ Extend(p, <<Head(inbox[p])>>)
             /\ UNCHANGED <<catching, toAsk, longest, faults>>
    BY <1>1, <2>1, <2>2, <2>3, <2>4, ExtendType DEF BlockMinted, TypeOK
  <2>5. CASE FailedWrite(p, <<>>)
    BY <1>1, <1>f, <2>1, <2>2, <2>3, <2>5, ExtendType, CatchUpType
       DEF BlockMinted, TypeOK, FailedWrite
  <2>6. CASE BeginCatchUp(p) /\ UNCHANGED <<chain, store, faults>>
    BY <1>1, <2>1, <2>3, <2>6, CatchUpType DEF BlockMinted, TypeOK
  <2> QED
    BY <1>1, <2>4, <2>5, <2>6 DEF BlockMinted
<1>2. ASSUME NEW p \in Pods, NEW q \in Pods, AskPeer(p, q) PROVE TypeOK'
  <2> DEFINE answer == Since(chain[q], LastIndex(chain[p]) + 1)
  <2>1. chain[p] \in Seq(Hashes) /\ chain[q] \in Seq(Hashes)
          /\ Len(chain[p]) \in Nat /\ Len(chain[q]) \in Nat
    BY LenProperties DEF TypeOK
  <2>2. answer \in Seq(Hashes)
    BY <2>1, SubSeqType DEF Since, LastIndex
  <2>3. longest' \in [Pods -> Seq(Hashes)]
    BY <1>2, <2>2 DEF AskPeer, TypeOK
  <2>4. Hashes' = Hashes
    BY <1>2, <1>h DEF AskPeer
  <2> QED
    BY <1>2, <2>3, <2>4 DEF AskPeer, TypeOK
<1>3. ASSUME NEW p \in Pods, EndCatchUp(p) PROVE TypeOK'
  <2>1. Hashes' = Hashes /\ p \in alive
    BY <1>3, <1>h DEF EndCatchUp, TypeOK
  <2> PICK n \in Appendable(chain[p], longest[p]) :
        \/ /\ Extend(p, SubSeq(longest[p], 1, n))
           /\ catching' = catching \ {p}
           /\ longest' = [longest EXCEPT ![p] = <<>>]
           /\ SyncDone(p)
           /\ UNCHANGED <<toAsk, host, pending, mining, faults>>
        \/ /\ FailedWrite(p, SubSeq(longest[p], 1, n))
           /\ SyncDone(p)
           /\ UNCHANGED <<host, pending, mining>>
    BY <1>3 DEF EndCatchUp
  <2>2. SubSeq(longest[p], 1, n) \in Seq(Hashes)
    BY SubSeqType DEF TypeOK, Appendable
  <2>3. /\ node' \in {"down", "starting", "syncing", "running"}
        /\ host' = host /\ (node' = "down" <=> node = "down")
    BY DEF SyncDone, TypeOK
  <2>4. CASE /\ Extend(p, SubSeq(longest[p], 1, n))
             /\ catching' = catching \ {p}
             /\ longest' = [longest EXCEPT ![p] = <<>>]
             /\ UNCHANGED <<toAsk, host, pending, mining, faults>>
    BY <1>3, <2>1, <2>2, <2>3, <2>4, ExtendType, EmptySeq DEF EndCatchUp, TypeOK
  <2>5. CASE /\ FailedWrite(p, SubSeq(longest[p], 1, n))
             /\ UNCHANGED <<host, pending, mining>>
    BY <1>3, <1>f, <2>1, <2>2, <2>3, <2>5, ExtendType, CatchUpType
       DEF EndCatchUp, TypeOK, FailedWrite
  <2> QED
    BY <2>4, <2>5
<1>4. ASSUME NEW p \in Pods, Subscribe(p) PROVE TypeOK'
  BY <1>4, <1>h DEF Subscribe, TypeOK
<1>5. ASSUME NEW p \in Pods, NodeStart(p) PROVE TypeOK'
  BY <1>5, <1>h, NoneAssumption DEF NodeStart, TypeOK
<1>6. ASSUME NEW p \in Pods, CrashPod(p) PROVE TypeOK'
  BY <1>6, <1>f, <1>h, EmptySeq DEF CrashPod, NodeGone, TypeOK
<1>7. ASSUME NEW p \in Pods, RestartPod(p) PROVE TypeOK'
  BY <1>7, <1>h, EmptySeq DEF RestartPod, BeginCatchUp, TypeOK
<1>8. CASE FanOut
  <2>1. Head(topic) \in Hashes /\ Tail(topic) \in Seq(Hashes) /\ Hashes' = Hashes
    BY <1>8, <1>h, HeadTailProperties DEF FanOut, TypeOK
  <2>2. \A p \in Pods : Append(inbox[p], Head(topic)) \in Seq(Hashes)
    BY <2>1, AppendProperties DEF TypeOK
  <2>3. inbox' \in [Pods -> Seq(Hashes)]
    BY <1>8, <2>2 DEF FanOut, TypeOK
  <2>4. faults' \in Nat
    BY <1>8, <1>f DEF FanOut, TypeOK
  <2> QED
    BY <1>8, <2>1, <2>3, <2>4 DEF FanOut, TypeOK
<1>9. CASE SyncChain
  <2>1. host \in alive /\ host # None
    BY <1>9 DEF SyncChain, ReplicaAnswers, TypeOK
  <2> QED
    BY <1>9, <1>h, <2>1, CatchUpType DEF SyncChain, TypeOK
<1>10. CASE AskTimeout
  BY <1>10, <1>f, <1>h DEF AskTimeout, NodeGone, TypeOK
<1>11. ASSUME NEW x \in Transactions, SubmitTransaction(x) PROVE TypeOK'
  BY <1>11, <1>h DEF SubmitTransaction, TypeOK
<1>12. CASE MineBlock
  <2>1. host \in Pods
    BY <1>12 DEF MineBlock, ReplicaAnswers, TypeOK
  <2> QED
    BY <1>12, <1>h, <2>1, LastType DEF MineBlock, TypeOK
<1>13. CASE ProofFound
  <2>1. host \in Pods
    BY <1>13 DEF ProofFound, ReplicaAnswers, TypeOK
  <2>2. CASE UNCHANGED <<topic, pending, minted>>
    BY <1>13, <1>h, <2>2 DEF ProofFound, TypeOK
  <2>3. CASE /\ Last(chain[host]) = mining
             /\ minted' = Append(minted, NextBlock(chain[host], pending, mining))
             /\ topic' = Append(topic, Len(minted'))
             /\ pending' = {}
    <3>1. NextBlock(chain[host], pending, mining) \in Blocks
      <4>1. chain[host] \in Seq(Hashes) /\ pending \subseteq Transactions
        BY <2>1 DEF TypeOK
      <4>2. Last(chain[host]) \in Nat /\ Len(chain[host]) \in Nat
        BY <4>1, LastType, HashType, LenProperties
      <4> QED
        BY <2>3, <4>1, <4>2 DEF NextBlock, Blocks, LastIndex
    <3>2. /\ minted' \in Seq(Blocks)
          /\ Len(minted') \in Hashes'
          /\ Hashes \subseteq Hashes'
          /\ \A s \in Seq(Hashes) : s \in Seq(Hashes')
      BY <2>3, <3>1, MintedGrows
    <3>3. topic' \in Seq(Hashes')
      BY <2>3, <3>2, AppendProperties DEF TypeOK
    <3>4. /\ chain \in [Pods -> Seq(Hashes')] /\ store \in [Pods -> Seq(Hashes')]
          /\ inbox \in [Pods -> Seq(Hashes')] /\ longest \in [Pods -> Seq(Hashes')]
      BY <3>2 DEF TypeOK
    <3> QED
      BY <1>13, <2>3, <3>2, <3>3, <3>4 DEF ProofFound, TypeOK
  <2> QED
    BY <1>13, <2>2, <2>3 DEF ProofFound
<1>14. CASE UNCHANGED vars
  BY <1>14, <1>h DEF vars, TypeOK
<1> QED
  BY <1>1, <1>2, <1>3, <1>4, <1>5, <1>6, <1>7, <1>8, <1>9, <1>10, <1>11, <1>12,
     <1>13, <1>14 DEF Next, ReplicaStep

\* Type correctness of the whole specification, TypeOK, for every instance.
THEOREM TypeCorrect == Spec => []TypeOK
<1>1. Init => TypeOK
  BY InitType
<1>2. TypeOK /\ [Next]_vars => TypeOK'
  BY NextType
<1> QED
  BY <1>1, <1>2, PTL DEF Spec

(***************************************************************************)
(* Chains and stores.                                                      *)
(***************************************************************************)

\* Block h fits at position i of a chain after block `previous`.
Fits(h, i, previous) ==
  /\ minted[h].index = i
  /\ minted[h].prev = previous
  /\ minted[h].proofOf = previous

\* Each block of c fits after the one before it.
Linked(c) ==
  \A i \in 1 .. Len(c) : Fits(c[i], i, IF i = 1 THEN 0 ELSE c[i - 1])

LEMMA ChainsLinked ==
  ChainsValid <=> \A p \in Pods : (p \in alive => chain[p] = store[p])
                                    /\ Linked(store[p])
  BY DEF ChainsValid, Linked, Fits

\* Appending the blocks of s that Append accepts one after the other keeps a
\* chain linked.
LEMMA AppendableLinked ==
  ASSUME NEW c \in Seq(Hashes), Linked(c), NEW s \in Seq(Hashes),
         NEW n \in Appendable(c, s)
  PROVE  Linked(c \o SubSeq(s, 1, n))
<1> DEFINE t == SubSeq(s, 1, n)
           d == c \o t
<1>1. /\ Len(c) \in Nat /\ Len(s) \in Nat /\ n \in 0 .. Len(s)
      /\ \A i \in 1 .. n : Accepts(c \o SubSeq(s, 1, i - 1), s[i])
  BY LenProperties DEF Appendable
<1>2. t \in Seq(Hashes) /\ Len(t) = n /\ \A i \in 1 .. n : t[i] = s[i]
  <2>1. \A i \in 1 .. n : s[i] \in Hashes
    BY <1>1, ElementOfSeq
  <2> QED
    BY <1>1, <2>1, SubSeqProperties
<1>3. /\ Len(d) = Len(c) + n
      /\ \A i \in 1 .. Len(c) : d[i] = c[i]
      /\ \A i \in 1 .. n : d[Len(c) + i] = s[i]
  <2> HIDE DEF t
  <2>1. /\ Len(d) = Len(c) + Len(t)
        /\ \A i \in 1 .. Len(c) + Len(t) :
             d[i] = IF i <= Len(c) THEN c[i] ELSE t[i - Len(c)]
    BY <1>2, ConcatProperties
  <2> QED
    BY <1>1, <1>2, <2>1
<1>4. ASSUME NEW i \in 1 .. n
      PROVE  Fits(s[i], Len(c) + i,
                  IF Len(c) + i = 1 THEN 0 ELSE d[Len(c) + i - 1])
  <2> DEFINE r == SubSeq(s, 1, i - 1)
             e == c \o r
  <2>1. r \in Seq(Hashes) /\ Len(r) = i - 1 /\ \A j \in 1 .. i - 1 : r[j] = s[j]
    <3>1. \A j \in 1 .. i - 1 : s[j] \in Hashes
      BY <1>1, ElementOfSeq
    <3> QED
      BY <1>1, <3>1, SubSeqProperties
  <2>2. /\ Len(e) = Len(c) + i - 1
        /\ \A j \in 1 .. Len(e) : e[j] = d[j]
    <3> HIDE DEF r, d
    <3>1. /\ Len(e) = Len(c) + Len(r)
          /\ \A j \in 1 .. Len(c) + Len(r) :
               e[j] = IF j <= Len(c) THEN c[j] ELSE r[j - Len(c)]
      BY <2>1, ConcatProperties
    <3> HIDE DEF e
    <3>2. Len(e) = Len(c) + i - 1
      BY <1>1, <2>1, <3>1
    <3>3. ASSUME NEW j \in 1 .. Len(e) PROVE e[j] = d[j]
      <4>1. CASE j <= Len(c)
        BY <1>1, <1>3, <2>1, <3>1, <3>2, <4>1
      <4>2. CASE j > Len(c)
        <5>1. /\ j - Len(c) \in 1 .. i - 1 /\ j - Len(c) \in 1 .. n
              /\ Len(c) + (j - Len(c)) = j
          BY <1>1, <3>2, <4>2
        <5>2. e[j] = s[j - Len(c)]
          BY <1>1, <2>1, <3>1, <3>2, <4>2, <5>1
        <5>3. d[Len(c) + (j - Len(c))] = s[j - Len(c)]
          BY <1>3, <5>1
        <5> QED
          BY <5>1, <5>2, <5>3
      <4> QED
        BY <1>1, <3>2, <4>1, <4>2
    <3> QED
      BY <3>2, <3>3
  <2>3. e \in Seq(Hashes)
    BY <2>1, ConcatProperties
  <2>4. e = <<>> <=> Len(e) = 0
    BY <2>3, EmptySeq
  <2>5. Last(e) = IF Len(c) + i = 1 THEN 0 ELSE d[Len(c) + i - 1]
    <3> HIDE DEF e, d
    <3> QED
      BY <1>1, <2>2, <2>4 DEF Last
  <2>6. Accepts(e, s[i])
    BY <1>1
  <2> QED
    BY <1>1, <2>2, <2>5, <2>6, SMTT(30) DEF Accepts, LastIndex, Fits
<1> HIDE DEF d, t
<1>5. \A i \in 1 .. Len(c) : Fits(d[i], i, IF i = 1 THEN 0 ELSE d[i - 1])
  BY <1>1, <1>3 DEF Linked
<1>6. \A i \in Len(c) + 1 .. Len(c) + n :
        Fits(d[i], i, IF i = 1 THEN 0 ELSE d[i - 1])
  <2> SUFFICES ASSUME NEW i \in Len(c) + 1 .. Len(c) + n
               PROVE  Fits(d[i], i, IF i = 1 THEN 0 ELSE d[i - 1])
    OBVIOUS
  <2>1. i - Len(c) \in 1 .. n /\ Len(c) + (i - Len(c)) = i
    BY <1>1
  <2> QED
    BY <1>3, <1>4, <2>1
<1>7. Linked(d)
  <2> SUFFICES ASSUME NEW i \in 1 .. Len(d)
               PROVE  Fits(d[i], i, IF i = 1 THEN 0 ELSE d[i - 1])
    BY DEF Linked
  <2>1. i \in 1 .. Len(c) \/ i \in Len(c) + 1 .. Len(c) + n
    BY <1>1, <1>3
  <2> QED
    BY <1>5, <1>6, <2>1
<1> QED
  BY <1>7 DEF d, t

\* One accepted block is the special case of a sequence of length one.
LEMMA AcceptedLinked ==
  ASSUME NEW c \in Seq(Hashes), Linked(c), NEW h \in Hashes, Accepts(c, h)
  PROVE  Linked(c \o <<h>>)
<1> DEFINE s == <<h>>
<1>1. s \in Seq(Hashes) /\ Len(s) = 1 /\ s[1] = h
  OBVIOUS
<1>2. SubSeq(s, 1, 0) = <<>> /\ c \o <<>> = c
  BY SubSeqEmpty, ConcatEmptySeq
<1>3. 1 \in Appendable(c, s)
  <2>1. ASSUME NEW i \in 1 .. 1 PROVE Accepts(c \o SubSeq(s, 1, i - 1), s[i])
    <3>1. i = 1 /\ i - 1 = 0
      OBVIOUS
    <3> QED
      BY <1>1, <1>2, <3>1
  <2> QED
    BY <1>1, <2>1 DEF Appendable
<1>4. SubSeq(s, 1, 1) = s
  BY <1>1, SubSeqFull
<1> QED
  BY <1>1, <1>3, <1>4, AppendableLinked

\* How a step changes the chain and the store of p.
LEMMA StoreEffect ==
  ASSUME TypeOK, ChainsValid, [Next]_vars, NEW p \in Pods
  PROVE  /\ \E s \in Seq(Hashes) : /\ store'[p] = store[p] \o s
                                   /\ Linked(store[p] \o s)
         /\ p \in alive' => chain'[p] = store'[p]
<1> DEFINE Grows == \E s \in Seq(Hashes) : /\ store'[p] = store[p] \o s
                                           /\ Linked(store[p] \o s)
           Agrees == p \in alive' => chain'[p] = store'[p]
<1>0. /\ store[p] \in Seq(Hashes) /\ Linked(store[p])
      /\ p \in alive => chain[p] = store[p]
  BY ChainsLinked DEF TypeOK
<1>1. ASSUME store'[p] = store[p] PROVE Grows
  <2>1. <<>> \in Seq(Hashes) /\ store[p] \o <<>> = store[p]
    BY <1>0, EmptySeq, ConcatEmptySeq
  <2> QED
    BY <1>0, <1>1, <2>1
<1>2. CASE UNCHANGED <<alive, chain, store>>
  BY <1>0, <1>1, <1>2
<1>3. ASSUME NEW q \in Pods, NEW s \in Seq(Hashes), q \in alive,
             UNCHANGED alive, Linked(store[q] \o s),
             Extend(q, s) \/ FailedWrite(q, s)
      PROVE  Grows /\ Agrees
  <2>1. CASE p # q
    <3>1. store'[p] = store[p] /\ chain'[p] = chain[p]
      BY <1>3, <2>1 DEF Extend, FailedWrite, TypeOK
    <3> QED
      BY <1>0, <1>1, <1>3, <3>1
  <2>2. CASE p = q
    <3>0. chain \in [Pods -> Seq(Hashes)] /\ store \in [Pods -> Seq(Hashes)]
            /\ chain[q] = store[q]
      BY <1>0, <1>3, <2>2 DEF TypeOK
    <3>1. store'[p] = store[p] \o s /\ chain'[p] = store'[p]
      <4>1. CASE Extend(q, s)
        BY <2>2, <3>0, <4>1 DEF Extend
      <4>2. CASE FailedWrite(q, s)
        BY <2>2, <3>0, <4>2 DEF FailedWrite
      <4> QED
        BY <1>3, <4>1, <4>2
    <3> QED
      BY <1>3, <2>2, <3>1
  <2> QED
    BY <2>1, <2>2
<1>4. ASSUME NEW q \in Pods, BlockMinted(q) PROVE Grows /\ Agrees
  <2>1. /\ q \in alive /\ UNCHANGED alive /\ Head(inbox[q]) \in Hashes
        /\ chain[q] = store[q] /\ store[q] \in Seq(Hashes) /\ Linked(store[q])
    BY <1>4, HeadTailProperties, ChainsLinked DEF BlockMinted, Idle, TypeOK
  <2>2. CASE Accepts(chain[q], Head(inbox[q])) /\ Extend(q, <<Head(inbox[q])>>)
    <3>1. /\ <<Head(inbox[q])>> \in Seq(Hashes)
          /\ Linked(store[q] \o <<Head(inbox[q])>>)
      BY <2>1, <2>2, AcceptedLinked
    <3> QED
      BY <1>3, <2>1, <2>2, <3>1
  <2>3. CASE FailedWrite(q, <<>>)
    <3>1. <<>> \in Seq(Hashes) /\ store[q] \o <<>> = store[q]
      BY <2>1, EmptySeq, ConcatEmptySeq
    <3> QED
      BY <1>3, <2>1, <2>3, <3>1
  <2>4. CASE UNCHANGED <<chain, store>>
    BY <1>2, <2>1, <2>4
  <2> QED
    BY <1>4, <2>2, <2>3, <2>4 DEF BlockMinted
<1>5. ASSUME NEW q \in Pods, EndCatchUp(q) PROVE Grows /\ Agrees
  <2>1. /\ q \in alive /\ UNCHANGED alive /\ longest[q] \in Seq(Hashes)
        /\ chain[q] = store[q] /\ store[q] \in Seq(Hashes) /\ Linked(store[q])
    BY <1>5, ChainsLinked DEF EndCatchUp, TypeOK
  <2> PICK n \in Appendable(chain[q], longest[q]) :
        \/ Extend(q, SubSeq(longest[q], 1, n))
        \/ FailedWrite(q, SubSeq(longest[q], 1, n))
    BY <1>5 DEF EndCatchUp
  <2>2. SubSeq(longest[q], 1, n) \in Seq(Hashes)
    BY <2>1, SubSeqType DEF Appendable
  <2>3. Linked(store[q] \o SubSeq(longest[q], 1, n))
    BY <2>1, AppendableLinked
  <2> QED
    BY <1>3, <2>1, <2>2, <2>3
<1>6. ASSUME NEW q \in Pods, CrashPod(q) PROVE Grows /\ Agrees
  BY <1>0, <1>1, <1>6 DEF CrashPod, TypeOK
<1>7. ASSUME NEW q \in Pods, RestartPod(q) PROVE Grows /\ Agrees
  BY <1>0, <1>1, <1>7 DEF RestartPod, TypeOK
<1>8. ASSUME NEW q \in Pods,
             Subscribe(q) \/ NodeStart(q) \/ \E r \in Pods : AskPeer(q, r)
      PROVE  UNCHANGED <<alive, chain, store>>
  BY <1>8 DEF Subscribe, NodeStart, AskPeer
<1>9. ASSUME \/ FanOut \/ SyncChain \/ AskTimeout \/ MineBlock \/ ProofFound
             \/ \E x \in Transactions : SubmitTransaction(x)
             \/ UNCHANGED vars
      PROVE  UNCHANGED <<alive, chain, store>>
  BY <1>9 DEF FanOut, SyncChain, AskTimeout, MineBlock, ProofFound,
              SubmitTransaction, vars
<1> HIDE DEF Grows, Agrees
<1>10. Grows /\ Agrees
  <2>1. CASE UNCHANGED <<alive, chain, store>>
    BY <1>2, <2>1 DEF Grows, Agrees
  <2> QED
    BY <1>4, <1>5, <1>6, <1>7, <1>8, <1>9, <2>1 DEF Next, ReplicaStep
<1> QED
  BY <1>10 DEF Grows, Agrees

\* Blocks are made by ProofFound only, and those made before stay as they are.
LEMMA MintedEffect ==
  ASSUME TypeOK, [Next]_vars
  PROVE  /\ Hashes \subseteq Hashes'
         /\ \A h \in Hashes : minted'[h] = minted[h]
<1>1. CASE UNCHANGED minted
  BY <1>1 DEF Hashes
<1>2. CASE ProofFound /\ minted' # minted
  <2>1. /\ host \in Pods /\ mining \in Nat /\ pending \subseteq Transactions
        /\ minted' = Append(minted, NextBlock(chain[host], pending, mining))
    <3>1. host \in Pods /\ chain[host] \in Seq(Hashes)
      BY <1>2 DEF ProofFound, ReplicaAnswers, TypeOK
    <3>2. Last(chain[host]) \in Nat
      BY <3>1, LastType, HashType
    <3> QED
      BY <1>2, <3>1, <3>2 DEF ProofFound, TypeOK
  <2>2. NextBlock(chain[host], pending, mining) \in Blocks
    <3>1. chain[host] \in Seq(Hashes)
      BY <2>1 DEF TypeOK
    <3>2. Last(chain[host]) \in Nat /\ Len(chain[host]) \in Nat
      BY <3>1, LastType, HashType, LenProperties
    <3> QED
      BY <2>1, <3>2 DEF NextBlock, Blocks, LastIndex
  <2> QED
    BY <2>1, <2>2, MintedGrows
<1>3. minted' # minted => ProofFound
  BY DEF Next, ReplicaStep, BlockMinted, AskPeer, EndCatchUp, Subscribe,
         NodeStart, CrashPod, RestartPod, FanOut, SyncChain, AskTimeout,
         SubmitTransaction, MineBlock, vars
<1> QED
  BY <1>1, <1>2, <1>3

LEMMA ChainsStep ==
  ASSUME TypeOK, ChainsValid, [Next]_vars PROVE ChainsValid'
<1> SUFFICES ASSUME NEW p \in Pods
             PROVE  Linked(store[p])' /\ (p \in alive' => chain'[p] = store'[p])
  BY ChainsLinked DEF ChainsValid, Linked, Fits
<1> PICK s \in Seq(Hashes) : store'[p] = store[p] \o s /\ Linked(store[p] \o s)
  BY StoreEffect
<1>1. store[p] \o s \in Seq(Hashes)
  BY ConcatProperties DEF TypeOK
<1> DEFINE c == store[p] \o s
<1>2. Len(c) \in Nat /\ \A i \in 1 .. Len(c) : c[i] \in Hashes
  BY <1>1, LenProperties, ElementOfSeq
<1> HIDE DEF c
<1>3. store'[p] = c /\ Linked(c)
  BY DEF c
<1>4. \A i \in 1 .. Len(c) : minted'[c[i]] = minted[c[i]]
  BY <1>2, MintedEffect
<1>5. Linked(store[p])'
  BY <1>3, <1>4 DEF Linked, Fits
<1> QED
  BY <1>5, StoreEffect

\* Every chain in memory is the one on disk, and is one that New and Append
\* build: consecutive indices, linked hashes, and a proof-of-work for the block
\* before (Append, catchUp, PreStart), through forks, lost announcements,
\* crashes and failed writes.
THEOREM ChainsStayValid == Spec => []ChainsValid
<1>1. Init => TypeOK /\ ChainsValid
  <2>1. Init => ChainsValid
    <3>1. 1 .. Len(<<>>) = {}
      OBVIOUS
    <3>2. Init => \A p \in Pods : store[p] = <<>> /\ chain[p] = <<>>
      BY DEF Init
    <3> QED
      BY <3>1, <3>2 DEF ChainsValid
  <2> QED
    BY <2>1, InitType
<1>2. (TypeOK /\ ChainsValid) /\ [Next]_vars => (TypeOK /\ ChainsValid)'
  BY NextType, ChainsStep
<1> QED
  BY <1>1, <1>2, PTL DEF Spec

\* No block that was persisted is ever replaced: a store only grows.
THEOREM StoresOnlyGrow == Spec => StoresGrow
<1>1. TypeOK /\ ChainsValid /\ [Next]_vars =>
        [\A p \in Pods : store[p] = SubSeq(store'[p], 1, Len(store[p]))]_vars
  <2> SUFFICES ASSUME TypeOK, ChainsValid, [Next]_vars, NEW p \in Pods
               PROVE  store[p] = SubSeq(store'[p], 1, Len(store[p]))
    OBVIOUS
  <2> PICK s \in Seq(Hashes) : store'[p] = store[p] \o s
    BY StoreEffect
  <2>1. store[p] \in Seq(Hashes) /\ Len(store[p]) \in Nat
    BY LenProperties DEF TypeOK
  <2>2. CASE Len(store[p]) = 0
    <3>1. store[p] = <<>>
      BY <2>1, <2>2, EmptySeq
    <3>2. SubSeq(store'[p], 1, 0) = <<>>
      BY SubSeqEmpty
    <3> QED
      BY <2>2, <3>1, <3>2
  <2>3. CASE Len(store[p]) # 0
    <3>1. 1 \in 1 .. Len(store[p]) /\ Len(store[p]) \in 1 .. Len(store[p])
      BY <2>1, <2>3
    <3>2. SubSeq(store[p] \o s, 1, Len(store[p]))
            = SubSeq(store[p], 1, Len(store[p]))
      BY <2>1, <3>1, SubSeqOfConcat1
    <3> QED
      BY <2>1, <3>2, SubSeqFull
  <2> QED
    BY <2>2, <2>3
<1> QED
  BY <1>1, TypeCorrect, ChainsStayValid, PTL DEF Spec, StoresGrow

\* Every store can be loaded: RestartPod, which validates each block again as
\* PreStart does, is never refused, whatever failed before.
THEOREM StoresLoad == Spec => [](\A p \in Pods : Valid(store[p]))
<1>1. ASSUME TypeOK, ChainsValid, NEW p \in Pods PROVE Valid(store[p])
  <2> DEFINE c == store[p]
  <2>1. c \in Seq(Hashes) /\ Linked(c) /\ Len(c) \in Nat
    BY <1>1, ChainsLinked, LenProperties DEF TypeOK
  <2> HIDE DEF c
  <2>2. ASSUME NEW i \in 1 .. Len(c)
        PROVE  c[i] \in Hashes /\ Accepts(SubSeq(c, 1, i - 1), c[i])
    <3> DEFINE d == SubSeq(c, 1, i - 1)
    <3>1. c[i] \in Hashes /\ i - 1 \in 0 .. Len(c) /\ i \in Nat \ {0}
      BY <2>1, ElementOfSeq
    <3>2. /\ d \in Seq(Hashes) /\ Len(d) = i - 1
          /\ \A j \in 1 .. i - 1 : d[j] = c[j]
      <4>1. \A j \in 1 .. i - 1 : c[j] \in Hashes
        BY <2>1, ElementOfSeq
      <4> QED
        BY <2>1, <3>1, <4>1, SubSeqProperties
    <3>3. d = <<>> <=> i = 1
      BY <3>1, <3>2, EmptySeq
    <3> HIDE DEF d
    <3>4. Last(d) = IF i = 1 THEN 0 ELSE c[i - 1]
      BY <3>1, <3>2, <3>3 DEF Last
    <3>5. Accepts(d, c[i])
      BY <2>1, <3>1, <3>2, <3>4 DEF Linked, Fits, Accepts, LastIndex
    <3> QED
      BY <3>1, <3>5 DEF d
  <2> QED
    BY <2>2 DEF Valid, c
<1>2. TypeOK /\ ChainsValid => \A p \in Pods : Valid(store[p])
  BY <1>1
<1> QED
  BY <1>2, TypeCorrect, ChainsStayValid, PTL

(***************************************************************************)
(* Transactions.                                                           *)
(***************************************************************************)

\* What is pending or in a block has been submitted.
OnlySubmitted ==
  /\ pending \subseteq submitted
  /\ \A i \in Hashes : minted[i].transactions \subseteq submitted

OnceInv == OnlySubmitted /\ TransactionsOnce

LEMMA OnceStep ==
  ASSUME TypeOK, OnceInv, [Next]_vars PROVE OnceInv'
<1>1. CASE ProofFound /\ minted' # minted
  <2>1. /\ host \in Pods
        /\ Last(chain[host]) = mining
        /\ minted' = Append(minted, NextBlock(chain[host], pending, mining))
        /\ pending' = {} /\ submitted' = submitted
    BY <1>1 DEF ProofFound, ReplicaAnswers, TypeOK
  <2>2. /\ NextBlock(chain[host], pending, mining) \in Blocks
        /\ NextBlock(chain[host], pending, mining).transactions = pending
    <3>1. chain[host] \in Seq(Hashes) /\ pending \subseteq Transactions
      BY <2>1 DEF TypeOK
    <3>2. Last(chain[host]) \in Nat /\ Len(chain[host]) \in Nat
      BY <3>1, LastType, HashType, LenProperties
    <3> QED
      BY <2>1, <3>1, <3>2 DEF NextBlock, Blocks, LastIndex
  <2>3. /\ Hashes' = Hashes \cup {Len(minted) + 1}
        /\ \A h \in Hashes : minted'[h] = minted[h]
        /\ minted'[Len(minted) + 1].transactions = pending
    BY <2>1, <2>2, MintedGrows
  <2>4. OnlySubmitted'
    BY <2>1, <2>3 DEF OnceInv, OnlySubmitted
  <2>5. TransactionsOnce'
    BY <2>1, <2>3 DEF OnceInv, TransactionsOnce
  <2> QED
    BY <2>4, <2>5 DEF OnceInv
<1>2. ASSUME NEW x \in Transactions, SubmitTransaction(x) PROVE OnceInv'
  <2>1. /\ x \notin submitted /\ submitted' = submitted \cup {x}
        /\ pending' = pending \cup {x} /\ minted' = minted /\ Hashes' = Hashes
    BY <1>2 DEF SubmitTransaction, Hashes
  <2>2. OnlySubmitted'
    BY <2>1 DEF OnceInv, OnlySubmitted
  <2>3. \A i \in Hashes : x \notin minted[i].transactions
    BY <2>1 DEF OnceInv, OnlySubmitted
  <2>4. TransactionsOnce'
    BY <2>1, <2>3 DEF OnceInv, TransactionsOnce
  <2> QED
    BY <2>2, <2>4 DEF OnceInv
<1>3. CASE pending' \in {pending, {}} /\ UNCHANGED <<minted, submitted>>
  BY <1>3 DEF OnceInv, OnlySubmitted, TransactionsOnce, Hashes
<1>4. \/ ProofFound /\ minted' # minted
      \/ \E x \in Transactions : SubmitTransaction(x)
      \/ pending' \in {pending, {}} /\ UNCHANGED <<minted, submitted>>
  <2>1. ASSUME NEW p \in Pods,
               \/ ReplicaStep(p) \/ NodeStart(p) \/ CrashPod(p) \/ RestartPod(p)
        PROVE  pending' \in {pending, {}} /\ UNCHANGED <<minted, submitted>>
    BY <2>1 DEF ReplicaStep, BlockMinted, AskPeer, EndCatchUp, Subscribe,
                NodeStart, CrashPod, RestartPod, NodeGone
  <2>2. ASSUME \/ FanOut \/ SyncChain \/ AskTimeout \/ MineBlock
               \/ UNCHANGED vars
        PROVE  pending' \in {pending, {}} /\ UNCHANGED <<minted, submitted>>
    BY <2>2 DEF FanOut, SyncChain, AskTimeout, MineBlock, NodeGone, vars
  <2>3. ASSUME ProofFound, minted' = minted
        PROVE  pending' \in {pending, {}} /\ UNCHANGED <<minted, submitted>>
    BY <2>3 DEF ProofFound
  <2> QED
    BY <2>1, <2>2, <2>3 DEF Next
<1> QED
  BY <1>1, <1>2, <1>3, <1>4

\* A transaction submitted once is in at most one block, and no longer pending
\* once it is in one (GetTransactions, ClearTransactions), through every fork,
\* crash and failover of the node.
THEOREM TransactionsMinedOnce == Spec => []TransactionsOnce
<1>1. Init => OnceInv
  <2>1. Init => Hashes = {}
    BY DEF Init, Hashes
  <2> QED
    BY <2>1 DEF Init, OnceInv, OnlySubmitted, TransactionsOnce
<1>2. TypeOK /\ OnceInv /\ [Next]_vars => OnceInv'
  BY OnceStep
<1>3. OnceInv => TransactionsOnce
  BY DEF OnceInv
<1> QED
  BY <1>1, <1>2, <1>3, TypeCorrect, PTL DEF Spec

(***************************************************************************)
(* Agreement of the replicas as long as nothing fails.                     *)
(***************************************************************************)

\* No earlier block has the index of h: of competing blocks, the one announced
\* first.
First(h) == \A g \in 1 .. h - 1 : minted[g].index # minted[h].index

AllFirst(c) == \A i \in 1 .. Len(c) : First(c[i])

\* Block h was made on a tip that was itself the first of its index.
MadeOnFirst(h) ==
  /\ minted[h].proofOf = minted[h].prev
  /\ \/ minted[h].prev = 0 /\ minted[h].index = 1
     \/ /\ minted[h].prev \in 1 .. h - 1
        /\ minted[h].index = minted[minted[h].prev].index + 1
        /\ First(minted[h].prev)

\* How many announcements the replica of p has handled.
Handled(p) == Len(minted) - Len(topic) - Len(inbox[p])

\* Announcements are handled in the order of the blocks, none is missing, and
\* each one left the replica with a block of that index.
Delivered(p) ==
  /\ Handled(p) >= 0
  /\ \A j \in 1 .. Len(inbox[p]) : inbox[p][j] = Handled(p) + j
  /\ \A h \in 1 .. Handled(p) : minted[h].index <= Len(chain[p])

Undisturbed ==
  /\ alive = Pods
  /\ subscribed = Pods
  /\ Len(topic) <= Len(minted)
  /\ \A j \in 1 .. Len(topic) : topic[j] = Len(minted) - Len(topic) + j
  /\ \A h \in Hashes : MadeOnFirst(h)
  /\ \A p \in Pods : AllFirst(chain[p]) /\ AllFirst(longest[p]) /\ Delivered(p)

QuietInv == faults = 0 => Undisturbed

LEMMA FirstUnique ==
  ASSUME NEW g \in Nat \ {0}, NEW h \in Nat \ {0}, First(g), First(h),
         minted[g].index = minted[h].index
  PROVE  g = h
  BY DEF First

LEMMA FirstSubSeq ==
  ASSUME TypeOK, NEW c \in Seq(Hashes), AllFirst(c),
         NEW m \in Nat \ {0}, NEW n \in 0 .. Len(c)
  PROVE  AllFirst(SubSeq(c, m, n))
<1>1. Len(c) \in Nat /\ \A i \in m .. n : c[i] \in Hashes
  BY ElementOfSeq, LenProperties
<1>2. /\ Len(SubSeq(c, m, n)) = IF m <= n THEN n - m + 1 ELSE 0
      /\ \A i \in 1 .. n - m + 1 : SubSeq(c, m, n)[i] = c[m + i - 1]
  BY <1>1, SubSeqProperties
<1>3. ASSUME NEW i \in 1 .. Len(SubSeq(c, m, n)) PROVE First(SubSeq(c, m, n)[i])
  <2>1. i \in 1 .. n - m + 1 /\ m + i - 1 \in 1 .. Len(c)
    BY <1>1, <1>2
  <2> QED
    BY <1>2, <2>1 DEF AllFirst
<1> QED
  BY <1>3 DEF AllFirst

LEMMA FirstConcat ==
  ASSUME NEW c \in Seq(Hashes), NEW s \in Seq(Hashes), AllFirst(c), AllFirst(s)
  PROVE  AllFirst(c \o s)
<1>1. /\ Len(c) \in Nat /\ Len(s) \in Nat /\ Len(c \o s) = Len(c) + Len(s)
      /\ \A i \in 1 .. Len(c) + Len(s) :
           (c \o s)[i] = IF i <= Len(c) THEN c[i] ELSE s[i - Len(c)]
  BY ConcatProperties, LenProperties
<1>2. ASSUME NEW i \in 1 .. Len(c \o s) PROVE First((c \o s)[i])
  <2>1. CASE i <= Len(c)
    BY <1>1, <2>1 DEF AllFirst
  <2>2. CASE i > Len(c)
    <3>1. i - Len(c) \in 1 .. Len(s) /\ (c \o s)[i] = s[i - Len(c)]
      BY <1>1, <2>2
    <3> QED
      BY <3>1 DEF AllFirst
  <2> QED
    BY <1>1, <2>1, <2>2
<1> QED
  BY <1>2 DEF AllFirst

\* A step that makes no block changes the rank of none.
LEMMA FirstKept ==
  ASSUME UNCHANGED minted
  PROVE  /\ \A h : First(h)' <=> First(h)
         /\ \A h : MadeOnFirst(h)' <=> MadeOnFirst(h)
         /\ Hashes' = Hashes
  BY DEF First, MadeOnFirst, Hashes

\* The announced block h that a replica rejects has an index its chain holds
\* already.
LEMMA RejectedIsOld ==
  ASSUME TypeOK, ChainsValid, Undisturbed, NEW p \in Pods, inbox[p] # <<>>
  PROVE  LET h == Handled(p) + 1
         IN /\ h \in Hashes /\ Head(inbox[p]) = h
            /\ minted[h].index <= Len(chain[p]) + 1
            /\ Accepts(chain[p], h) => First(h)
            /\ ~Accepts(chain[p], h) => minted[h].index <= Len(chain[p])
<1> DEFINE h == Handled(p) + 1
           c == chain[p]
<1>1. /\ Len(minted) \in Nat /\ Len(topic) \in Nat /\ Len(inbox[p]) \in Nat \ {0}
      /\ Len(c) \in Nat /\ c \in Seq(Hashes) /\ inbox[p] \in Seq(Hashes)
  BY LenProperties, EmptySeq DEF TypeOK
<1>2. Delivered(p) /\ AllFirst(c) /\ p \in alive
  BY DEF Undisturbed
<1>3. Handled(p) \in Nat /\ h \in Hashes
  BY <1>1, <1>2 DEF Handled, Delivered, Hashes
<1>4. Head(inbox[p]) = h
  <2>1. Head(inbox[p]) = inbox[p][1]
    BY <1>1, HeadTailProperties
  <2> QED
    BY <1>1, <1>2, <2>1 DEF Delivered
<1>5. MadeOnFirst(h) /\ minted[h] \in Blocks
  BY <1>3, HashType DEF Undisturbed
<1>6. \A g \in 1 .. h - 1 : g \in Hashes /\ minted[g].index <= Len(c)
  <2>1. h - 1 = Handled(p)
    BY <1>3
  <2> QED
    BY <1>1, <1>2, <1>3, <2>1 DEF Delivered, Hashes
<1>7. Linked(c)
  BY <1>2, ChainsLinked
<1>8. minted[h].index \in Nat /\ \A g \in Hashes : minted[g].index \in Nat
  BY <1>3, HashType DEF Blocks
<1> HIDE DEF h, c
<1>9. Accepts(c, h) => First(h)
  BY <1>1, <1>6, <1>8 DEF Accepts, LastIndex, First
<1>10. /\ minted[h].index <= Len(c) + 1
       /\ ~Accepts(c, h) => minted[h].index <= Len(c)
  <2>1. CASE minted[h].prev = 0 /\ minted[h].index = 1
    <3>1. CASE Len(c) = 0
      <4>1. c = <<>>
        BY <1>1, <3>1, EmptySeq
      <4>2. Accepts(c, h)
        BY <1>5, <2>1, <3>1, <4>1 DEF Accepts, Last, LastIndex, MadeOnFirst
      <4> QED
        BY <1>1, <2>1, <4>2
    <3>2. CASE Len(c) # 0
      BY <1>1, <2>1, <3>2
    <3> QED
      BY <3>1, <3>2
  <2>2. CASE /\ minted[h].prev \in 1 .. h - 1
             /\ minted[h].index = minted[minted[h].prev].index + 1
             /\ First(minted[h].prev)
    <3> DEFINE g == minted[h].prev
    <3>1. g \in Hashes /\ minted[g].index <= Len(c) /\ minted[g].index \in Nat
      BY <1>6, <1>8, <2>2
    <3>2. CASE minted[g].index < Len(c)
      BY <1>1, <2>2, <3>1, <3>2
    <3>3. CASE minted[g].index = Len(c)
      <4>1. CASE Len(c) = 0
        <5>1. minted[g].index = 0 /\ MadeOnFirst(g)
          BY <3>1, <3>3, <4>1 DEF Undisturbed
        <5>2. minted[g].index >= 1
          <6>1. CASE minted[g].index = 1
            BY <6>1
          <6>2. CASE /\ minted[g].prev \in 1 .. g - 1
                     /\ minted[g].index = minted[minted[g].prev].index + 1
            <7>1. g \in 1 .. h - 1 /\ h \in Nat
              BY <1>3, <2>2 DEF h
            <7>2. minted[g].prev \in 1 .. h - 1
              BY <6>2, <7>1
            <7>3. minted[minted[g].prev].index \in Nat
              BY <1>6, <1>8, <7>2
            <7> QED
              BY <6>2, <7>3
          <6> QED
            BY <5>1, <6>1, <6>2 DEF MadeOnFirst
        <5> QED
          BY <5>1, <5>2
      <4>2. CASE Len(c) # 0
        <5> DEFINE l == c[Len(c)]
        <5>1. Len(c) \in 1 .. Len(c) /\ l \in Hashes /\ First(l)
          BY <1>1, <1>2, <4>2, ElementOfSeq DEF AllFirst
        <5>2. minted[l].index = Len(c)
          BY <1>7, <5>1 DEF Linked, Fits
        <5>3. l = g
          <6>1. l \in Nat \ {0} /\ g \in Nat \ {0}
            BY <3>1, <5>1, HashType
          <6> HIDE DEF l, g
          <6> QED
            BY <2>2, <3>3, <5>1, <5>2, <6>1, FirstUnique DEF g
        <5>4. Last(c) = g
          BY <4>2, <5>3 DEF Last
        <5>5. Accepts(c, h)
          BY <1>5, <2>2, <3>3, <5>4 DEF Accepts, LastIndex, MadeOnFirst
        <5> QED
          BY <1>1, <2>2, <3>3, <5>5
      <4> QED
        BY <4>1, <4>2
    <3> QED
      BY <1>1, <3>1, <3>2, <3>3
  <2> QED
    BY <1>5, <2>1, <2>2 DEF MadeOnFirst
<1> QED
  BY <1>3, <1>4, <1>9, <1>10 DEF h, c

\* A replica that handles no announcement and loses no block stays up to date
\* with those it has handled.
LEMMA DeliveredKept ==
  ASSUME TypeOK, NEW p \in Pods, Delivered(p), UNCHANGED <<minted, topic>>,
         inbox'[p] = inbox[p], Len(chain'[p]) \in Nat,
         Len(chain'[p]) >= Len(chain[p])
  PROVE  Delivered(p)'
<1>1. Handled(p)' = Handled(p)
  BY DEF Handled
<1>2. /\ Len(minted) \in Nat /\ Len(topic) \in Nat /\ Len(inbox[p]) \in Nat
      /\ Len(chain[p]) \in Nat
  BY LenProperties DEF TypeOK
<1>3. \A h \in 1 .. Handled(p) : minted[h].index \in Nat
  BY <1>2, HashType DEF Handled, Hashes, Blocks
<1> QED
  BY <1>1, <1>2, <1>3 DEF Delivered

\* Steps that touch neither chains nor announcements, and collect only first
\* blocks.
LEMMA UndisturbedKept ==
  ASSUME TypeOK, Undisturbed,
         UNCHANGED <<alive, subscribed, topic, inbox, minted, chain>>,
         \A p \in Pods : AllFirst(longest'[p])
  PROVE  Undisturbed'
<1>1. \A p \in Pods : Delivered(p)'
  BY LenProperties, DeliveredKept DEF Undisturbed, TypeOK
<1>2. \A p \in Pods : AllFirst(chain[p])' /\ AllFirst(longest[p])'
  BY FirstKept DEF Undisturbed, AllFirst
<1> QED
  BY <1>1, <1>2, FirstKept DEF Undisturbed

\* Appending first blocks to the chain of one replica.
LEMMA UndisturbedExtend ==
  ASSUME TypeOK, Undisturbed, NEW p \in Pods, NEW s \in Seq(Hashes),
         AllFirst(s), Extend(p, s),
         UNCHANGED <<alive, subscribed, topic, inbox, minted>>,
         longest' \in {longest, [longest EXCEPT ![p] = <<>>]}
  PROVE  Undisturbed'
<1>1. /\ chain'[p] = chain[p] \o s
      /\ \A q \in Pods \ {p} : chain'[q] = chain[q]
      /\ Len(chain'[p]) = Len(chain[p]) + Len(s)
      /\ \A q \in Pods : Len(chain[q]) \in Nat
      /\ Len(s) \in Nat
  BY ConcatProperties, LenProperties DEF Extend, TypeOK
<1>2. \A q \in Pods : Delivered(q)'
  BY <1>1, DeliveredKept DEF Undisturbed
<1>3. \A q \in Pods : AllFirst(chain'[q])
  <2>1. AllFirst(chain'[p])
    BY <1>1, FirstConcat DEF Undisturbed, TypeOK
  <2> QED
    BY <1>1, <2>1 DEF Undisturbed
<1>4. \A q \in Pods : AllFirst(longest'[q])
  <2>1. AllFirst(<<>>)
    BY DEF AllFirst
  <2> QED
    BY <2>1 DEF Undisturbed, TypeOK
<1>5. \A q \in Pods : AllFirst(chain[q])' /\ AllFirst(longest[q])'
  BY <1>3, <1>4, FirstKept DEF AllFirst
<1> QED
  BY <1>2, <1>5, FirstKept DEF Undisturbed

\* A replica handles the next announcement: its block is the first of its index
\* and is appended, or the chain holds a block of that index already.
LEMMA UndisturbedBlockMinted ==
  ASSUME TypeOK, ChainsValid, Undisturbed, NEW p \in Pods, BlockMinted(p),
         UNCHANGED faults
  PROVE  Undisturbed'
<1> DEFINE h == Handled(p) + 1
<1>1. /\ h \in Hashes /\ Head(inbox[p]) = h
      /\ minted[h].index <= Len(chain[p]) + 1
      /\ Accepts(chain[p], h) => First(h)
      /\ ~Accepts(chain[p], h) => minted[h].index <= Len(chain[p])
  BY RejectedIsOld DEF BlockMinted
<1> HIDE DEF h
<1>2. /\ UNCHANGED <<alive, subscribed, topic, minted>>
      /\ inbox' = [inbox EXCEPT ![p] = Tail(@)] /\ inbox[p] # <<>>
      /\ \/ /\ Accepts(chain[p], h) /\ Extend(p, <<h>>)
            /\ UNCHANGED longest
         \/ /\ ~Accepts(chain[p], h) /\ BeginCatchUp(p) /\ UNCHANGED chain
  <2>1. ~Fault
    BY DEF Fault, TypeOK
  <2>2. /\ UNCHANGED <<alive, subscribed, topic, minted>>
        /\ inbox' = [inbox EXCEPT ![p] = Tail(@)] /\ inbox[p] # <<>>
    BY DEF BlockMinted
  <2>3. \/ /\ Accepts(chain[p], h) /\ Extend(p, <<h>>)
           /\ UNCHANGED longest
        \/ /\ Accepts(chain[p], h) /\ FailedWrite(p, <<>>)
        \/ /\ ~Accepts(chain[p], h) /\ BeginCatchUp(p) /\ UNCHANGED chain
    BY <1>1 DEF BlockMinted
  <2> QED
    BY <2>1, <2>2, <2>3 DEF FailedWrite
<1>3. /\ \A q \in Pods : Len(chain[q]) \in Nat /\ Len(inbox[q]) \in Nat
      /\ Len(minted) \in Nat /\ Len(topic) \in Nat
      /\ \A q \in Pods : chain[q] \in Seq(Hashes) /\ inbox[q] \in Seq(Hashes)
      /\ <<h>> \in Seq(Hashes)
  BY <1>1, LenProperties DEF TypeOK
<1>4. /\ \A q \in Pods \ {p} : chain'[q] = chain[q] /\ inbox'[q] = inbox[q]
      /\ inbox'[p] = Tail(inbox[p])
  BY <1>2 DEF TypeOK, Extend
<1>5. /\ Len(inbox'[p]) = Len(inbox[p]) - 1 /\ Len(inbox[p]) >= 1
      /\ \A j \in 1 .. Len(inbox'[p]) : inbox'[p][j] = inbox[p][j + 1]
  <2>1. inbox[p] \in Seq(Hashes) /\ inbox[p] # <<>> /\ Len(inbox[p]) # 0
    BY <1>2, <1>3, EmptySeq
  <2>2. /\ Len(Tail(inbox[p])) = Len(inbox[p]) - 1
        /\ \A j \in 1 .. Len(Tail(inbox[p])) : Tail(inbox[p])[j] = inbox[p][j + 1]
    BY <2>1, HeadTailProperties
  <2> QED
    BY <1>3, <1>4, <2>1, <2>2
<1>6. /\ Len(chain'[p]) \in Nat /\ Len(chain'[p]) >= Len(chain[p])
      /\ minted[h].index <= Len(chain'[p])
      /\ AllFirst(chain'[p])
  <2>1. CASE Accepts(chain[p], h) /\ Extend(p, <<h>>)
    <3>1. chain'[p] = chain[p] \o <<h>>
      BY <2>1 DEF Extend, TypeOK
    <3>2. Len(chain'[p]) = Len(chain[p]) + 1
      BY <1>3, <3>1, ConcatProperties
    <3>3. AllFirst(<<h>>)
      BY <1>1, <2>1 DEF AllFirst
    <3>4. AllFirst(chain'[p])
      BY <1>3, <3>1, <3>3, FirstConcat DEF Undisturbed
    <3> QED
      BY <1>1, <1>3, <3>2, <3>4
  <2>2. CASE ~Accepts(chain[p], h) /\ UNCHANGED chain
    BY <1>1, <1>3, <2>2 DEF Undisturbed
  <2> QED
    BY <1>2, <2>1, <2>2
<1>7. Handled(p)' = h /\ Handled(p) \in Nat /\ h = Handled(p) + 1
  <2>1. h = Handled(p) + 1 /\ Delivered(p)
    BY DEF h, Undisturbed
  <2>2. Handled(p)' = Len(minted) - Len(topic) - Len(inbox'[p])
    BY <1>2 DEF Handled
  <2>3. Handled(p) = Len(minted) - Len(topic) - Len(inbox[p])
    BY DEF Handled
  <2>4. Handled(p) >= 0
    BY <2>1 DEF Delivered
  <2> QED
    BY <1>3, <1>5, <2>1, <2>2, <2>3, <2>4
<1>8. Delivered(p)'
  <2>1. \A j \in 1 .. Len(inbox'[p]) : inbox'[p][j] = h + j
    BY <1>3, <1>5, <1>7 DEF Undisturbed, Delivered
  <2>2. \A g \in 1 .. h : minted[g].index <= Len(chain'[p])
    <3>1. \A g \in 1 .. Handled(p) :
            minted[g].index \in Nat /\ minted[g].index <= Len(chain[p])
      BY <1>1, <1>3, <1>7, HashType DEF Undisturbed, Delivered, Hashes, Blocks
    <3> QED
      BY <1>3, <1>6, <1>7, <3>1
  <2> QED
    BY <1>2, <1>7, <2>1, <2>2 DEF Delivered
<1>9. \A q \in Pods : Delivered(q)'
  <2>1. ASSUME NEW q \in Pods, q # p PROVE Delivered(q)'
    <3>1. /\ UNCHANGED <<minted, topic>> /\ inbox'[q] = inbox[q]
          /\ chain'[q] = chain[q] /\ Delivered(q)
      BY <1>2, <1>4, <2>1 DEF Undisturbed
    <3>2. Len(chain'[q]) \in Nat /\ Len(chain'[q]) >= Len(chain[q])
      BY <1>3, <3>1
    <3> QED
      BY <3>1, <3>2, DeliveredKept
  <2> QED
    BY <1>8, <2>1
<1>10. \A q \in Pods : AllFirst(chain'[q]) /\ AllFirst(longest'[q])
  <2>1. AllFirst(<<>>)
    BY DEF AllFirst
  <2>2. \A q \in Pods : AllFirst(longest'[q])
    BY <1>2, <2>1 DEF Undisturbed, BeginCatchUp, TypeOK
  <2> QED
    BY <1>4, <1>6, <2>2 DEF Undisturbed
<1>11. \A q \in Pods : AllFirst(chain[q])' /\ AllFirst(longest[q])'
  BY <1>2, <1>10, FirstKept DEF AllFirst
<1> QED
  BY <1>2, <1>9, <1>11, FirstKept DEF Undisturbed

\* An announcement moves from the topic to every mailbox, and keeps its place.
LEMMA UndisturbedFanOut ==
  ASSUME TypeOK, Undisturbed, FanOut, UNCHANGED faults
  PROVE  Undisturbed'
<1>1. /\ topic # <<>> /\ topic' = Tail(topic)
      /\ UNCHANGED <<alive, chain, longest, subscribed, minted>>
      /\ inbox' = [p \in Pods |-> Append(inbox[p], Head(topic))]
  BY DEF FanOut, Fault, TypeOK, Undisturbed
<1>2. /\ Len(minted) \in Nat /\ Len(topic) \in Nat \ {0}
      /\ topic \in Seq(Hashes)
      /\ \A p \in Pods : inbox[p] \in Seq(Hashes) /\ Len(inbox[p]) \in Nat
  BY <1>1, LenProperties, EmptySeq DEF TypeOK
<1>3. /\ Len(topic') = Len(topic) - 1
      /\ \A j \in 1 .. Len(topic') : topic'[j] = topic[j + 1]
      /\ Head(topic) = topic[1] /\ Head(topic) \in Hashes
  BY <1>1, <1>2, HeadTailProperties
<1>4. /\ Len(topic') <= Len(minted)
      /\ \A j \in 1 .. Len(topic') : topic'[j] = Len(minted) - Len(topic') + j
      /\ Head(topic) = Len(minted) - Len(topic) + 1
  BY <1>2, <1>3 DEF Undisturbed
<1>5. ASSUME NEW p \in Pods PROVE Delivered(p)'
  <2>1. /\ inbox'[p] = Append(inbox[p], Head(topic))
        /\ Len(inbox'[p]) = Len(inbox[p]) + 1
        /\ \A j \in 1 .. Len(inbox[p]) : inbox'[p][j] = inbox[p][j]
        /\ inbox'[p][Len(inbox[p]) + 1] = Head(topic)
    BY <1>1, <1>2, <1>3, AppendProperties
  <2>2. Handled(p)' = Handled(p) /\ Delivered(p)
    BY <1>1, <1>2, <1>3, <2>1 DEF Handled, Undisturbed
  <2>3. ASSUME NEW j \in 1 .. Len(inbox'[p]) PROVE inbox'[p][j] = Handled(p) + j
    <3>1. CASE j <= Len(inbox[p])
      BY <1>2, <2>1, <2>2, <3>1 DEF Delivered
    <3>2. CASE j = Len(inbox[p]) + 1
      BY <1>2, <1>4, <2>1, <3>2 DEF Handled
    <3> QED
      BY <1>2, <2>1, <3>1, <3>2
  <2> QED
    BY <1>1, <2>2, <2>3 DEF Delivered
<1>6. \A q \in Pods : AllFirst(chain[q])' /\ AllFirst(longest[q])'
  BY <1>1, FirstKept DEF AllFirst, Undisturbed
<1> QED
  BY <1>1, <1>4, <1>5, <1>6, FirstKept DEF Undisturbed

\* A new block is made on the tip of a chain of first blocks, and its
\* announcement is the last one under way.
LEMMA UndisturbedProofFound ==
  ASSUME TypeOK, ChainsValid, Undisturbed, ProofFound, minted' # minted
  PROVE  Undisturbed'
<1> DEFINE block == NextBlock(chain[host], pending, mining)
           c == chain[host]
<1> PICK n \in Nat : n = Len(minted) + 1
  BY HashType
<1>1. /\ UNCHANGED <<alive, chain, longest, inbox, subscribed>>
      /\ minted' = Append(minted, block) /\ topic' = Append(topic, Len(minted'))
      /\ host \in Pods /\ mining = Last(c) /\ pending \subseteq Transactions
  BY DEF ProofFound, ReplicaAnswers, TypeOK
<1>2. /\ c \in Seq(Hashes) /\ Len(c) \in Nat /\ Last(c) \in {0} \cup Hashes
      /\ Len(minted) \in Nat /\ Len(topic) \in Nat /\ topic \in Seq(Hashes)
      /\ Last(c) \in Nat
  <2>1. c \in Seq(Hashes) /\ topic \in Seq(Hashes)
    BY <1>1 DEF TypeOK
  <2> HIDE DEF c
  <2> QED
    BY <2>1, LastType, HashType, LenProperties
<1>3. /\ block \in Blocks /\ block.prev = Last(c) /\ block.proofOf = Last(c)
      /\ block.index = Len(c) + 1
  BY <1>1, <1>2 DEF NextBlock, Blocks, LastIndex
<1> HIDE DEF block, c
<1>4. /\ Len(minted') = n
      /\ \A h \in Hashes : minted'[h] = minted[h]
      /\ minted'[n] = block
      /\ Hashes' = Hashes \cup {n}
      /\ Hashes = 1 .. Len(minted)
  BY <1>1, <1>3, MintedGrows DEF Hashes
<1>5. \A h \in Hashes : First(h) => First(h)'
  <2> SUFFICES ASSUME NEW h \in Hashes, First(h) PROVE First(h)'
    OBVIOUS
  <2>1. \A g \in 1 .. h - 1 : g \in Hashes
    BY <1>2, <1>4
  <2> QED
    BY <1>4, <2>1 DEF First
<1>6. \A q \in Pods : AllFirst(chain[q])' /\ AllFirst(longest[q])'
  <2>1. ASSUME NEW s \in Seq(Hashes), AllFirst(s)
        PROVE  \A i \in 1 .. Len(s) : First(s[i])'
    BY <1>5, <2>1, ElementOfSeq DEF AllFirst
  <2>2. /\ \A q \in Pods : \A i \in 1 .. Len(chain[q]) : First(chain[q][i])'
        /\ \A q \in Pods : \A i \in 1 .. Len(longest[q]) : First(longest[q][i])'
    BY <1>1, <2>1 DEF Undisturbed, TypeOK
  <2> QED
    BY <1>1, <2>2 DEF AllFirst
<1>7. /\ Len(topic') = Len(topic) + 1
      /\ \A j \in 1 .. Len(topic) : topic'[j] = topic[j]
      /\ topic'[Len(topic) + 1] = n
  <2>1. topic \in Seq(Nat) /\ n \in Nat /\ topic' = Append(topic, n)
    BY <1>1, <1>2, <1>4, HashType, SeqMonotonic
  <2> QED
    BY <2>1, AppendProperties
<1>8. /\ Len(topic') <= Len(minted')
      /\ \A j \in 1 .. Len(topic') : topic'[j] = Len(minted') - Len(topic') + j
  <2>1. Len(topic) <= Len(minted)
    BY DEF Undisturbed
  <2>2. \A j \in 1 .. Len(topic) : topic[j] = Len(minted) - Len(topic) + j
    BY DEF Undisturbed
  <2>3. ASSUME NEW j \in 1 .. Len(topic')
        PROVE  topic'[j] = Len(minted') - Len(topic') + j
    <3>1. CASE j <= Len(topic)
      BY <1>2, <1>4, <1>7, <2>2, <3>1
    <3>2. CASE j = Len(topic) + 1
      BY <1>2, <1>4, <1>7, <3>2
    <3> QED
      BY <1>2, <1>7, <3>1, <3>2
  <2> QED
    BY <1>2, <1>4, <1>7, <2>1, <2>3
<1>9. ASSUME NEW q \in Pods PROVE Delivered(q)'
  <2>1. Delivered(q) /\ Len(inbox[q]) \in Nat
    BY LenProperties DEF Undisturbed, TypeOK
  <2>2. Handled(q)' = Handled(q)
    BY <1>1, <1>2, <1>4, <1>7, <2>1 DEF Handled
  <2>3. \A h \in 1 .. Handled(q) : h \in Hashes
    BY <1>2, <1>4, <2>1 DEF Handled
  <2> QED
    BY <1>1, <1>4, <2>1, <2>2, <2>3 DEF Delivered
<1>10. \A h \in Hashes : MadeOnFirst(h)'
  <2> SUFFICES ASSUME NEW h \in Hashes PROVE MadeOnFirst(h)'
    OBVIOUS
  <2>1. MadeOnFirst(h) /\ minted'[h] = minted[h]
    BY <1>4 DEF Undisturbed
  <2>2. CASE minted[h].prev = 0 /\ minted[h].index = 1
    BY <2>1, <2>2 DEF MadeOnFirst
  <2>3. CASE /\ minted[h].prev \in 1 .. h - 1
             /\ minted[h].index = minted[minted[h].prev].index + 1
             /\ First(minted[h].prev)
    <3>1. minted[h].prev \in Hashes
      BY <1>2, <1>4, <2>3
    <3>2. First(minted[h].prev)' /\ minted'[minted[h].prev] = minted[minted[h].prev]
      BY <1>4, <1>5, <2>3, <3>1
    <3> DEFINE g == minted[h].prev
    <3>3. minted'[h].prev = g /\ First(g)'
      BY <1>5, <2>1, <2>3, <3>1
    <3> QED
      BY <2>1, <2>3, <3>2, <3>3 DEF MadeOnFirst, First
  <2> QED
    BY <2>1, <2>2, <2>3 DEF MadeOnFirst
<1>11. MadeOnFirst(n)'
  <2>1. CASE Len(c) = 0
    <3>1. c = <<>> /\ Last(c) = 0
      BY <1>2, <2>1, EmptySeq DEF Last
    <3> QED
      BY <1>3, <1>4, <2>1, <3>1 DEF MadeOnFirst
  <2>2. CASE Len(c) # 0
    <3>1. Len(c) \in 1 .. Len(c) /\ c # <<>>
      BY <1>2, <2>2, EmptySeq
    <3>2. Last(c) = c[Len(c)] /\ Last(c) \in Hashes
      BY <1>2, <3>1, ElementOfSeq DEF Last
    <3>3. AllFirst(c) /\ Linked(c)
      BY <1>1, ChainsLinked DEF Undisturbed, c
    <3>4. First(Last(c)) /\ minted[Last(c)].index = Len(c)
      BY <3>1, <3>2, <3>3 DEF AllFirst, Linked, Fits
    <3>5. Last(c) \in 1 .. n - 1
      BY <1>2, <1>4, <3>2
    <3> PICK l \in Hashes : l = Last(c)
      BY <3>2
    <3>6. First(l)' /\ minted'[l].index = Len(c)
      BY <1>4, <1>5, <3>2, <3>4
    <3>7. /\ minted'[n].proofOf = l /\ minted'[n].prev = l
          /\ minted'[n].index = minted'[l].index + 1 /\ l \in 1 .. n - 1
      BY <1>3, <1>4, <3>5, <3>6
    <3> QED
      BY <3>6, <3>7 DEF MadeOnFirst, First
  <2> QED
    BY <2>1, <2>2
<1>12. \A h \in Hashes' : MadeOnFirst(h)'
  BY <1>4, <1>10, <1>11
<1>13. alive' = Pods /\ subscribed' = Pods
  BY <1>1 DEF Undisturbed
<1> QED
  BY <1>6, <1>8, <1>9, <1>12, <1>13 DEF Undisturbed

LEMMA QuietStep ==
  ASSUME TypeOK, ChainsValid, QuietInv, [Next]_vars PROVE QuietInv'
<1> SUFFICES ASSUME faults' = 0 PROVE Undisturbed'
  BY DEF QuietInv
<1>0. ~Fault
  BY DEF Fault, TypeOK
<1>1. faults = 0 /\ Undisturbed
  <2>1. UNCHANGED faults
    <3>1. ASSUME NEW p \in Pods,
                 \/ ReplicaStep(p) \/ NodeStart(p) \/ CrashPod(p) \/ RestartPod(p)
          PROVE  UNCHANGED faults
      BY <1>0, <3>1 DEF ReplicaStep, BlockMinted, AskPeer, EndCatchUp, Subscribe,
                  NodeStart, CrashPod, RestartPod, FailedWrite
    <3>2. ASSUME \/ FanOut \/ SyncChain \/ AskTimeout \/ MineBlock \/ ProofFound
                 \/ \E x \in Transactions : SubmitTransaction(x)
                 \/ UNCHANGED vars
          PROVE  UNCHANGED faults
      BY <1>0, <3>2 DEF FanOut, SyncChain, AskTimeout, MineBlock, ProofFound,
                  SubmitTransaction, vars
    <3> QED
      BY <3>1, <3>2 DEF Next
  <2> QED
    BY <2>1 DEF QuietInv
<1>e. AllFirst(<<>>)
  BY DEF AllFirst
<1>2. ASSUME NEW p \in Pods, BlockMinted(p) PROVE Undisturbed'
  BY <1>1, <1>2, UndisturbedBlockMinted
<1>3. ASSUME NEW p \in Pods, EndCatchUp(p) PROVE Undisturbed'
  <2> PICK m \in Appendable(chain[p], longest[p]) :
        /\ Extend(p, SubSeq(longest[p], 1, m))
        /\ longest' = [longest EXCEPT ![p] = <<>>]
    BY <1>0, <1>3 DEF EndCatchUp, FailedWrite
  <2>1. m \in 0 .. Len(longest[p]) /\ longest[p] \in Seq(Hashes)
    BY DEF Appendable, TypeOK
  <2>2. /\ SubSeq(longest[p], 1, m) \in Seq(Hashes)
        /\ AllFirst(SubSeq(longest[p], 1, m))
    BY <1>1, <2>1, SubSeqType, FirstSubSeq DEF Undisturbed
  <2> QED
    BY <1>1, <1>3, <2>2, UndisturbedExtend DEF EndCatchUp
<1>4. ASSUME NEW p \in Pods, NEW q \in Pods, AskPeer(p, q) PROVE Undisturbed'
  <2> DEFINE answer == Since(chain[q], LastIndex(chain[p]) + 1)
  <2>1. chain[q] \in Seq(Hashes) /\ Len(chain[p]) \in Nat /\ Len(chain[q]) \in Nat
    BY LenProperties DEF TypeOK
  <2>2. AllFirst(answer)
    BY <1>1, <2>1, FirstSubSeq DEF Since, LastIndex, Undisturbed
  <2> HIDE DEF answer
  <2>3. \/ UNCHANGED longest
        \/ longest' = [longest EXCEPT ![p] = IF Len(answer) > Len(@) THEN answer ELSE @]
    BY <1>4 DEF AskPeer, answer
  <2>4. \A r \in Pods : AllFirst(longest'[r])
    BY <1>1, <2>2, <2>3 DEF Undisturbed, TypeOK
  <2> QED
    BY <1>1, <1>4, <2>4, UndisturbedKept DEF AskPeer
<1>5. CASE FanOut
  BY <1>1, <1>5, UndisturbedFanOut
<1>6. CASE SyncChain
  <2>1. \A r \in Pods : AllFirst(longest'[r])
    BY <1>1, <1>6, <1>e DEF SyncChain, BeginCatchUp, Undisturbed, TypeOK
  <2> QED
    BY <1>1, <1>6, <2>1, UndisturbedKept DEF SyncChain
<1>7. CASE ProofFound /\ minted' # minted
  BY <1>1, <1>7, UndisturbedProofFound
<1>8. CASE UNCHANGED <<alive, subscribed, topic, inbox, minted, chain, longest>>
  BY <1>1, <1>8, UndisturbedKept DEF Undisturbed
<1>9. ASSUME NEW p \in Pods,
             Subscribe(p) \/ NodeStart(p) \/ CrashPod(p) \/ RestartPod(p)
      PROVE  UNCHANGED <<alive, subscribed, topic, inbox, minted, chain, longest>>
  BY <1>0, <1>1, <1>9 DEF Subscribe, NodeStart, CrashPod, RestartPod, Undisturbed
<1>10. CASE ProofFound /\ minted' = minted
  <2>1. minted' # Append(minted, NextBlock(chain[host], pending, mining))
    <3>1. minted \in Seq(Blocks)
      BY DEF TypeOK
    <3> QED
      BY <1>10, <3>1
  <2> QED
    BY <1>8, <1>10, <2>1 DEF ProofFound
<1>11. CASE AskTimeout
  BY <1>0, <1>11 DEF AskTimeout
<1>12. CASE MineBlock
  BY <1>8, <1>12 DEF MineBlock
<1>13. ASSUME NEW x \in Transactions, SubmitTransaction(x) PROVE Undisturbed'
  BY <1>8, <1>13 DEF SubmitTransaction
<1>14. CASE UNCHANGED vars
  BY <1>8, <1>14 DEF vars
<1>15. ASSUME NEW p \in Pods,
              \/ ReplicaStep(p) \/ NodeStart(p) \/ CrashPod(p) \/ RestartPod(p)
       PROVE  Undisturbed'
  BY <1>2, <1>3, <1>4, <1>8, <1>9, <1>15 DEF ReplicaStep
<1> QED
  BY <1>5, <1>6, <1>7, <1>10, <1>11, <1>12, <1>13, <1>14, <1>15 DEF Next

\* Two chains of first blocks, each as long as the other, are the same chain.
LEMMA QuietAgree ==
  TypeOK /\ ChainsValid /\ QuietInv => QuietReplicasAgree
<1> SUFFICES ASSUME TypeOK, ChainsValid, QuietInv,
                    faults = 0, topic = <<>>, \A p \in Pods : inbox[p] = <<>>,
                    NEW p \in Pods, NEW q \in Pods
             PROVE  chain[p] = chain[q]
  BY DEF QuietReplicasAgree
<1>1. Undisturbed
  BY DEF QuietInv
<1>2. ASSUME NEW r \in Pods
      PROVE  /\ chain[r] \in Seq(Hashes) /\ Len(chain[r]) \in Nat
             /\ \A i \in 1 .. Len(chain[r]) :
                  /\ chain[r][i] \in Hashes
                  /\ First(chain[r][i]) /\ minted[chain[r][i]].index = i
             /\ \A h \in Hashes : minted[h].index <= Len(chain[r])
  <2>1. /\ chain[r] \in Seq(Hashes) /\ Len(chain[r]) \in Nat
        /\ \A i \in 1 .. Len(chain[r]) : chain[r][i] \in Hashes
    BY LenProperties, ElementOfSeq DEF TypeOK
  <2>2. Linked(chain[r]) /\ AllFirst(chain[r]) /\ Delivered(r)
    BY <1>1, ChainsLinked DEF Undisturbed
  <2>3. Handled(r) = Len(minted)
    BY HashType DEF Handled
  <2> QED
    BY <2>1, <2>2, <2>3 DEF Linked, Fits, AllFirst, Delivered, Hashes
<1>3. ASSUME NEW r \in Pods, NEW s \in Pods PROVE Len(chain[r]) <= Len(chain[s])
  <2>1. CASE Len(chain[r]) = 0
    BY <1>2, <2>1
  <2>2. CASE Len(chain[r]) # 0
    <3>1. Len(chain[r]) \in 1 .. Len(chain[r])
      BY <1>2, <2>2
    <3> DEFINE l == chain[r][Len(chain[r])]
    <3>2. l \in Hashes /\ minted[l].index = Len(chain[r])
      BY <1>2, <3>1
    <3>3. minted[l].index <= Len(chain[s])
      BY <1>2, <3>2
    <3> QED
      BY <3>2, <3>3
  <2> QED
    BY <2>1, <2>2
<1>4. Len(chain[p]) = Len(chain[q])
  BY <1>2, <1>3
<1>5. ASSUME NEW i \in 1 .. Len(chain[p]) PROVE chain[p][i] = chain[q][i]
  <2> DEFINE g == chain[p][i]
             h == chain[q][i]
  <2>1. /\ g \in Hashes /\ First(g) /\ minted[g].index = i
        /\ h \in Hashes /\ First(h) /\ minted[h].index = i
    BY <1>2, <1>4
  <2>2. g \in Nat \ {0} /\ h \in Nat \ {0}
    BY <2>1, HashType
  <2> HIDE DEF g, h
  <2>3. g = h
    BY <2>1, <2>2, FirstUnique
  <2> QED
    BY <2>3 DEF g, h
<1> QED
  BY <1>2, <1>4, <1>5, SeqEqual

\* Without failures all replicas hold the same chain whenever every announcement
\* has been handled, for any number of pods and blocks, although proofs race
\* with announcements and catch-ups with blocks: of competing blocks every
\* replica takes the one that was announced first.
THEOREM QuietAgreement == Spec => []QuietReplicasAgree
<1>1. Init => QuietInv
  <2> SUFFICES ASSUME Init PROVE Undisturbed
    BY DEF QuietInv
  <2>1. /\ minted = <<>> /\ topic = <<>> /\ alive = Pods /\ subscribed = Pods
        /\ \A p \in Pods : inbox[p] = <<>> /\ chain[p] = <<>> /\ longest[p] = <<>>
    BY DEF Init
  <2>2. Hashes = {} /\ \A p \in Pods : Handled(p) = 0
    BY <2>1 DEF Hashes, Handled
  <2> QED
    BY <2>1, <2>2 DEF Undisturbed, AllFirst, Delivered
<1>2. TypeOK /\ ChainsValid /\ QuietInv /\ [Next]_vars => QuietInv'
  BY QuietStep
<1> QED
  BY <1>1, <1>2, QuietAgree, TypeCorrect, ChainsStayValid, PTL DEF Spec
=============================================================================
