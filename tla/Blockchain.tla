----------------------------- MODULE Blockchain -----------------------------
(***************************************************************************)
(* goakt-blockchain: the Node cluster singleton with its broker and miner, *)
(* the chain Replica of every pod, and the pub/sub topic between them.     *)
(*                                                                         *)
(* The broker and the miner are children only the node talks to, and their *)
(* mailboxes keep its order, so what it tells them is part of the node's   *)
(* handler.  The proof-of-work runs outside, and the announcement of a     *)
(* block passes through the topic actor and the mailboxes of the replicas. *)
(* The node's questions to its local replica are answered after what is in *)
(* that mailbox already.  A replica that catches up asks its peers one by  *)
(* one and answers nobody meanwhile.                                       *)
(*                                                                         *)
(* A block is named by its hash, its position in minted; 0 is the genesis  *)
(* block's.  A chain is the sequence of the hashes after the genesis.      *)
(***************************************************************************)
EXTENDS Integers, Sequences

CONSTANTS
  Pods,          \* the pods of the StatefulSet
  Transactions,  \* transactions clients submit, once each
  None,          \* no pod, no hash
  MaxBlocks,     \* bound: blocks mined in all
  MaxFaults      \* bound: failures of pods, disks and network in all

ASSUME NoneAssumption == None \notin Pods \cup Nat
ASSUME BoundsAssumption == MaxBlocks \in Nat /\ MaxFaults \in Nat

VARIABLES
  \* Replica
  alive,       \* the pods that run: their replicas are in memory
  chain,       \* chain[p]: Chain.blocks of the replica of p
  store,       \* store[p]: the blocks in the Pebble store of p
  inbox,       \* inbox[p]: announcements in the mailbox of the replica of p
  toAsk,       \* toAsk[p]: peers a catch-up of p has still to ask
  longest,     \* longest[p]: the longest answer of that catch-up
  catching,    \* the replicas that are catching up
  \* the blocks topic
  subscribed,  \* the pods whose subscription has reached the topic
  topic,       \* announcements the topic actor has not fanned out yet
  \* Node, Broker and Miner
  node,        \* "down", "starting", "syncing" or "running"
  host,        \* the pod the singleton lives on
  pending,     \* Broker.pending, without the coinbase transaction
  mining,      \* the hash the busy miner works on, None if it is ready
  \* bookkeeping
  minted,      \* all blocks ever made, in order (history)
  submitted,   \* the transactions submitted so far
  faults       \* failures so far, at most MaxFaults

replicaVars == <<alive, chain, store, inbox, toAsk, longest, catching>>
topicVars   == <<subscribed, topic>>
nodeVars    == <<node, host, pending, mining>>
vars == <<replicaVars, topicVars, nodeVars, minted, submitted, faults>>

Hashes == 1 .. Len(minted)
Blocks == [prev : Nat, index : Nat, proofOf : Nat,
           transactions : SUBSET Transactions]

-----------------------------------------------------------------------------
(* chain.go *)

\* Last().Hash and Last().Index
Last(c) == IF c = <<>> THEN 0 ELSE c[Len(c)]
LastIndex(c) == Len(c)

\* NextBlock on top of the tip of c, with a proof found for hash h.
NextBlock(c, txs, h) ==
  [prev |-> Last(c), index |-> LastIndex(c) + 1, proofOf |-> h,
   transactions |-> txs]

\* Mutant: the link to the tip's hash is not checked.
AcceptsUnlinked(c, h) == minted[h].index = LastIndex(c) + 1

\* Append takes block h on top of c only if its index, its previous hash and
\* its proof-of-work fit the tip.
Accepts(c, h) ==
  /\ minted[h].index = LastIndex(c) + 1
  /\ minted[h].prev = Last(c)
  /\ minted[h].proofOf = Last(c)

\* c is a chain New and Append can build.
Valid(c) ==
  \A i \in 1 .. Len(c) : c[i] \in Hashes /\ Accepts(SubSeq(c, 1, i - 1), c[i])

\* Since(index): the blocks of c from index on.
Since(c, index) == SubSeq(c, index, Len(c))

\* How many blocks of s can be appended to c one after the other.
Appendable(c, s) ==
  {n \in 0 .. Len(s) :
     \A i \in 1 .. n : Accepts(c \o SubSeq(s, 1, i - 1), s[i])}

-----------------------------------------------------------------------------
\* The kinds of values each variable holds.
TypeOK ==
  /\ alive \subseteq Pods
  /\ chain \in [Pods -> Seq(Hashes)]
  /\ store \in [Pods -> Seq(Hashes)]
  /\ inbox \in [Pods -> Seq(Hashes)]
  /\ toAsk \in [Pods -> SUBSET Pods]
  /\ longest \in [Pods -> Seq(Hashes)]
  /\ catching \subseteq alive
  /\ subscribed \subseteq alive
  /\ topic \in Seq(Hashes)
  /\ node \in {"down", "starting", "syncing", "running"}
  /\ host \in alive \cup {None}
  /\ node = "down" <=> host = None
  /\ pending \subseteq Transactions
  /\ mining \in {None, 0} \cup Hashes
  /\ minted \in Seq(Blocks)
  /\ submitted \subseteq Transactions
  /\ faults \in Nat

\* Every pod has started, subscribed and found no blocks; no pod has won the
\* singleton yet.
Init ==
  /\ alive = Pods
  /\ chain = [p \in Pods |-> <<>>]
  /\ store = [p \in Pods |-> <<>>]
  /\ inbox = [p \in Pods |-> <<>>]
  /\ toAsk = [p \in Pods |-> {}]
  /\ longest = [p \in Pods |-> <<>>]
  /\ catching = {}
  /\ subscribed = Pods
  /\ topic = <<>>
  /\ node = "down"
  /\ host = None
  /\ pending = {}
  /\ mining = None
  /\ minted = <<>>
  /\ submitted = {}
  /\ faults = 0

\* A pod, a disk or the network fails.
Fault ==
  /\ faults < MaxFaults
  /\ faults' = faults + 1

-----------------------------------------------------------------------------
(* Replica *)

Idle(p) == p \in alive \ catching

BeginCatchUp(p) ==
  /\ catching' = catching \cup {p}
  /\ toAsk' = [toAsk EXCEPT ![p] = Pods \ {p}]
  /\ longest' = [longest EXCEPT ![p] = <<>>]

\* Mutant: the keys of the store start over with every write.
ExtendOverwrites(p, s) ==
  /\ chain' = [chain EXCEPT ![p] = @ \o s]
  /\ store' = [store EXCEPT ![p] = s]

\* The block, or the blocks, s are appended and persisted.
Extend(p, s) ==
  /\ chain' = [chain EXCEPT ![p] = @ \o s]
  /\ store' = [store EXCEPT ![p] = @ \o s]

\* A failed write: the blocks s before it are stored, the replica restarts from
\* its store (PreStart, PostStart) and catches up again.
FailedWrite(p, s) ==
  /\ Fault
  /\ store' = [store EXCEPT ![p] = @ \o s]
  /\ chain' = [chain EXCEPT ![p] = store'[p]]
  /\ BeginCatchUp(p)

\* Mutant: announcements that arrive during a catch-up are dropped.
BlockMintedDrops(p) ==
  LET h == Head(inbox[p])
  IN /\ p \in alive
     /\ inbox[p] # <<>>
     /\ inbox' = [inbox EXCEPT ![p] = Tail(@)]
     /\ \/ /\ Idle(p) /\ Accepts(chain[p], h)
           /\ Extend(p, <<h>>)
           /\ UNCHANGED <<catching, toAsk, longest>>
        \/ /\ Idle(p) /\ ~Accepts(chain[p], h)
           /\ BeginCatchUp(p)
           /\ UNCHANGED <<chain, store>>
        \/ /\ ~Idle(p)
           /\ UNCHANGED <<chain, store, catching, toAsk, longest>>
     /\ UNCHANGED <<alive, topicVars, nodeVars, minted, submitted, faults>>

\* append: the announced block extends the tip, or the replica catches up.
BlockMinted(p) ==
  LET h == Head(inbox[p])
  IN /\ Idle(p)
     /\ inbox[p] # <<>>
     /\ inbox' = [inbox EXCEPT ![p] = Tail(@)]
     /\ \/ /\ Accepts(chain[p], h)
           /\ Extend(p, <<h>>)
           /\ UNCHANGED <<catching, toAsk, longest, faults>>
        \/ /\ Accepts(chain[p], h)
           /\ FailedWrite(p, <<>>)
        \/ /\ ~Accepts(chain[p], h)
           /\ BeginCatchUp(p)
           /\ UNCHANGED <<chain, store, faults>>
     /\ UNCHANGED <<alive, topicVars, nodeVars, minted, submitted>>

\* Mutant: there is no timeout on a peer that does not answer.
AskPeerWaits(p, q) ==
  /\ p \in catching
  /\ q \in toAsk[p]
  /\ Idle(q)
  /\ toAsk' = [toAsk EXCEPT ![p] = @ \ {q}]
  /\ LET answer == Since(chain[q], LastIndex(chain[p]) + 1)
     IN longest' = [longest EXCEPT ![p] =
                      IF Len(answer) > Len(@) THEN answer ELSE @]
  /\ UNCHANGED <<alive, chain, store, inbox, catching, topicVars, nodeVars,
                 minted, submitted, faults>>

\* catchUp asks peer q for the blocks past the tip.  A peer that is down or
\* busy with a catch-up of its own is skipped.
AskPeer(p, q) ==
  /\ p \in catching
  /\ q \in toAsk[p]
  /\ toAsk' = [toAsk EXCEPT ![p] = @ \ {q}]
  /\ \/ /\ Idle(q)
        /\ LET answer == Since(chain[q], LastIndex(chain[p]) + 1)
           IN longest' = [longest EXCEPT ![p] =
                            IF Len(answer) > Len(@) THEN answer ELSE @]
     \/ /\ ~Idle(q)
        /\ UNCHANGED longest
  /\ UNCHANGED <<alive, chain, store, inbox, catching, topicVars, nodeVars,
                 minted, submitted, faults>>

\* The node that waits for the end of this catch-up may go on.
SyncDone(p) == node' = IF host = p /\ node = "syncing" THEN "running" ELSE node

\* The longest answer is appended, up to the first block that does not fit.  A
\* failed write ends catchUp early, and SyncDone is answered all the same.
EndCatchUp(p) ==
  /\ p \in catching
  /\ toAsk[p] = {}
  /\ \E n \in Appendable(chain[p], longest[p]) :
       \/ /\ n + 1 \notin Appendable(chain[p], longest[p])
          /\ Extend(p, SubSeq(longest[p], 1, n))
          /\ catching' = catching \ {p}
          /\ longest' = [longest EXCEPT ![p] = <<>>]
          /\ SyncDone(p)
          /\ UNCHANGED <<toAsk, host, pending, mining, faults>>
       \/ /\ n + 1 \in Appendable(chain[p], longest[p])
          /\ FailedWrite(p, SubSeq(longest[p], 1, n))
          /\ SyncDone(p)
          /\ UNCHANGED <<host, pending, mining>>
  /\ UNCHANGED <<alive, inbox, topicVars, minted, submitted>>

\* The topic actor handles the subscription sent in PostStart.
Subscribe(p) ==
  /\ p \in alive \ subscribed
  /\ subscribed' = subscribed \cup {p}
  /\ UNCHANGED <<replicaVars, topic, nodeVars, minted, submitted, faults>>

\* The topic actor of the node's pod sends the next announcement to every
\* subscriber, or the network loses it on the way to some of the other pods.
FanOut ==
  /\ topic # <<>>
  /\ topic' = Tail(topic)
  /\ \E reached \in SUBSET subscribed :
       /\ subscribed \cap {host} \subseteq reached
       /\ IF reached = subscribed THEN UNCHANGED faults ELSE Fault
       /\ inbox' = [p \in Pods |->
            IF p \in reached THEN Append(inbox[p], Head(topic)) ELSE inbox[p]]
  /\ UNCHANGED <<alive, chain, store, toAsk, longest, catching, subscribed,
                 nodeVars, minted, submitted>>

-----------------------------------------------------------------------------
(* Node, Broker, Miner *)

\* The singleton is gone, and with it the broker's transactions and the miner's
\* work.
NodeGone ==
  /\ node' = "down"
  /\ host' = None
  /\ pending' = {}
  /\ mining' = None

\* A pod wins the singleton: PostStart spawns broker and miner.
NodeStart(p) ==
  /\ node = "down"
  /\ p \in alive
  /\ node' = "starting"
  /\ host' = p
  /\ UNCHANGED <<replicaVars, topicVars, pending, mining, minted, submitted,
                 faults>>

\* The local replica answers the node once its mailbox is empty.
ReplicaAnswers == host # None /\ Idle(host) /\ inbox[host] = <<>>

\* Then the node asks its local replica to catch up and waits.
SyncChain ==
  /\ node = "starting"
  /\ ReplicaAnswers
  /\ node' = "syncing"
  /\ BeginCatchUp(host)
  /\ UNCHANGED <<alive, chain, store, inbox, topicVars, host, pending, mining,
                 minted, submitted, faults>>

\* An Ask of the node times out because its replica is busy: the type assertion
\* on the missing reply panics, and the singleton is gone until it is started
\* again.
AskTimeout ==
  /\ node \in {"syncing", "running"}
  /\ host \in catching
  /\ Fault
  /\ NodeGone
  /\ UNCHANGED <<replicaVars, topicVars, minted, submitted>>

\* The transaction goes to the broker; the answer is read from the replica.
SubmitTransaction(x) ==
  /\ node = "running"
  /\ ReplicaAnswers
  /\ x \notin submitted
  /\ submitted' = submitted \cup {x}
  /\ pending' = pending \cup {x}
  /\ UNCHANGED <<replicaVars, topicVars, node, host, mining, minted, faults>>

\* A ready miner starts on the tip of the local replica.  A busy one drops the
\* request.
MineBlock ==
  /\ node = "running"
  /\ ReplicaAnswers
  /\ mining = None
  /\ Len(minted) < MaxBlocks
  /\ mining' = Last(chain[host])
  /\ UNCHANGED <<replicaVars, topicVars, node, host, pending, minted, submitted,
                 faults>>

\* Mutant: pending transactions are not cleared.
ProofFoundKeepsPending ==
  /\ node = "running"
  /\ ReplicaAnswers
  /\ mining # None
  /\ mining' = None
  /\ minted' = Append(minted, NextBlock(chain[host], pending, mining))
  /\ topic' = Append(topic, Len(minted'))
  /\ UNCHANGED <<replicaVars, subscribed, node, host, pending, submitted,
                 faults>>

\* Mutant: the miner is not told that it may work again.
ProofFoundForgetsReady ==
  /\ node = "running"
  /\ ReplicaAnswers
  /\ mining # None
  /\ Last(chain[host]) = mining
  /\ minted' = Append(minted, NextBlock(chain[host], pending, mining))
  /\ topic' = Append(topic, Len(minted'))
  /\ pending' = {}
  /\ UNCHANGED <<replicaVars, subscribed, node, host, mining, submitted, faults>>

\* The proof arrives: it is dropped if the tip has moved, else the block takes
\* all pending transactions and is announced.
ProofFound ==
  /\ node = "running"
  /\ ReplicaAnswers
  /\ mining # None
  /\ mining' = None
  /\ \/ /\ Last(chain[host]) # mining
        /\ UNCHANGED <<topic, pending, minted>>
     \/ /\ Last(chain[host]) = mining
        /\ minted' = Append(minted, NextBlock(chain[host], pending, mining))
        /\ topic' = Append(topic, Len(minted'))
        /\ pending' = {}
  /\ UNCHANGED <<replicaVars, subscribed, node, host, submitted, faults>>

-----------------------------------------------------------------------------
(* Failures of pods *)

\* A pod dies with its replica's memory, and with the singleton if it lives
\* there.  What its topic actor has not sent is lost.
CrashPod(p) ==
  /\ p \in alive
  /\ Fault
  /\ alive' = alive \ {p}
  /\ chain' = [chain EXCEPT ![p] = <<>>]
  /\ inbox' = [inbox EXCEPT ![p] = <<>>]
  /\ catching' = catching \ {p}
  /\ toAsk' = [toAsk EXCEPT ![p] = {}]
  /\ longest' = [longest EXCEPT ![p] = <<>>]
  /\ subscribed' = subscribed \ {p}
  /\ IF host = p THEN NodeGone /\ topic' = <<>>
                 ELSE UNCHANGED <<nodeVars, topic>>
  /\ UNCHANGED <<store, minted, submitted>>

\* The pod comes back: PreStart loads the chain from the store, validating every
\* block again, and PostStart subscribes and catches up.
RestartPod(p) ==
  /\ p \notin alive
  /\ Valid(store[p])
  /\ alive' = alive \cup {p}
  /\ chain' = [chain EXCEPT ![p] = store[p]]
  /\ BeginCatchUp(p)
  /\ UNCHANGED <<store, inbox, topicVars, nodeVars, minted, submitted, faults>>

-----------------------------------------------------------------------------
ReplicaStep(p) ==
  \/ BlockMinted(p) \/ EndCatchUp(p) \/ Subscribe(p)
  \/ \E q \in Pods : AskPeer(p, q)

Next ==
  \/ \E p \in Pods :
       ReplicaStep(p) \/ NodeStart(p) \/ CrashPod(p) \/ RestartPod(p)
  \/ FanOut \/ SyncChain \/ AskTimeout
  \/ \E x \in Transactions : SubmitTransaction(x)
  \/ MineBlock \/ ProofFound

\* Actors with messages run, and a proof-of-work ends.
Fairness ==
  /\ \A p \in Pods : WF_vars(ReplicaStep(p))
  /\ WF_vars(FanOut)
  /\ WF_vars(SyncChain)
  /\ WF_vars(ProofFound)

Spec == Init /\ [][Next]_vars /\ Fairness

-----------------------------------------------------------------------------
(* Properties *)

\* Every chain a replica holds or stores is one that New and Append build, so a
\* restarted replica always loads, and memory and disk agree (Append, catchUp,
\* PreStart), through forks, lost announcements and failed writes.
ChainsValid ==
  \A p \in Pods :
    /\ p \in alive => chain[p] = store[p]
    /\ \A i \in 1 .. Len(store[p]) :
         LET block == minted[store[p][i]]
             previous == IF i = 1 THEN 0 ELSE store[p][i - 1]
         IN block.index = i /\ block.prev = previous /\ block.proofOf = previous

\* A stored chain only grows: no block that was persisted is ever replaced.
StoresGrow ==
  [][\A p \in Pods : store[p] = SubSeq(store'[p], 1, Len(store[p]))]_vars

\* Without failures the replicas agree whenever all announcements have been
\* handled, although proofs race with announcements and catch-ups with blocks.
QuietReplicasAgree ==
  (faults = 0 /\ topic = <<>> /\ catching = {} /\ \A p \in Pods : inbox[p] = <<>>)
    => \A p, q \in Pods : chain[p] = chain[q]

\* A transaction submitted once is in at most one block ever announced, and not
\* pending any more once it is in one (GetTransactions, ClearTransactions).
TransactionsOnce ==
  /\ \A i, j \in Hashes :
       i # j => minted[i].transactions \cap minted[j].transactions = {}
  /\ \A i \in Hashes : minted[i].transactions \cap pending = {}

\* A catch-up ends, even when all replicas wait for each other's answers.
CatchUpEnds == \A p \in Pods : p \in catching ~> p \notin catching

\* A busy miner becomes ready again, or is replaced by that of a new node: no
\* request is lost that would leave it busy for ever (ProofFound, Ready).
MinerReturns == mining # None ~> mining = None

\* No forks can occur: of two chains in the cluster one is a prefix of the other
\* (comments of Node and catchUp, README.md).
NoForks ==
  \A p, q \in Pods : \A i \in Hashes :
    i <= Len(store[p]) /\ i <= Len(store[q]) => store[p][i] = store[q][i]
=============================================================================
