--------------------------------- MODULE P2p ---------------------------------
(***************************************************************************)
(* P2pService of p2p/: how nodes find each other. A node that starts says  *)
(* hello to every port of the range; a node that hears hello adds the      *)
(* sender and answers with the peers it knows; a node that hears welcome   *)
(* says hello to those it does not know. A dial that fails takes the peer  *)
(* off the list, by way of the channel failCh.                             *)
(*                                                                         *)
(* Each send is a goroutine and a connection of its own: sends overtake    *)
(* each other, and each dials when it gets to it. A process that dies      *)
(* takes with it any of the messages it sends or has not handled.          *)
(***************************************************************************)
EXTENDS Naturals, Bags, FiniteSets

CONSTANTS
  Nodes,        \* nodes; each has a port of the discovery range
  Running,      \* nodes that run at first, and know each other
  Prompt,       \* a failed dial is dealt with before the node dialled is back
  MaxCrashes    \* bound: processes that die

ASSUME P2pAssumption ==
  /\ IsFiniteSet(Nodes) /\ Running \subseteq Nodes
  /\ Prompt \in BOOLEAN /\ MaxCrashes \in Nat

VARIABLES
  up,       \* nodes that listen
  peers,    \* per node: P2pService.peers
  wire,     \* sends that have not been handled: a bag
  failed,   \* pairs <<n, p>>: p waits in failCh of n
  crashes   \* how many processes have died

p2pVars == <<up, peers, wire, failed, crashes>>

Message(from, to, body) == [from |-> from, to |-> to, body |-> body]
Hello == [type |-> "hello"]
Welcome(known) == [type |-> "welcome", known |-> known]

Sends(n, to, body) == SetToBag({Message(n, p, body) : p \in to})
Taken(m) == wire (-) SetToBag({m})

P2pInit ==
  /\ up = Running /\ wire = EmptyBag
  /\ peers = [n \in Nodes |-> IF n \in Running THEN Running \ {n} ELSE {}]
  /\ failed = {} /\ crashes = 0

-----------------------------------------------------------------------------
\* Run and Discover: the node listens and says hello to all others.
Start(n) ==
  /\ n \notin up /\ (Prompt => \A p \in Nodes : <<p, n>> \notin failed)
  /\ up' = up \cup {n}
  /\ wire' = wire (+) Sends(n, Nodes \ {n}, Hello)
  /\ UNCHANGED <<peers, failed, crashes>>

AddPeer(n, p) == peers' = [peers EXCEPT ![n] = @ \cup ({p} \ {n})]

Arrives(m, type) == m \in DOMAIN wire /\ m.to \in up /\ m.body.type = type

\* handleJoin. The answer names the sender too, which is on the list by now.
HandleJoin_NoWelcome(m) ==   \* mutant: the sender is added but not answered
  /\ Arrives(m, "hello")
  /\ AddPeer(m.to, m.from)
  /\ wire' = Taken(m)
  /\ UNCHANGED <<up, failed, crashes>>
HandleJoin(m) ==
  /\ Arrives(m, "hello")
  /\ AddPeer(m.to, m.from)
  /\ wire' = Taken(m) (+) Sends(m.to, {m.from}, Welcome(peers'[m.to]))
  /\ UNCHANGED <<up, failed, crashes>>

HandleWelcome_ToSelf(m) ==   \* mutant: this node may be among the known peers
  /\ Arrives(m, "welcome")
  /\ AddPeer(m.to, m.from)
  /\ wire' = Taken(m) (+) Sends(m.to, m.body.known \ peers'[m.to], Hello)
  /\ UNCHANGED <<up, failed, crashes>>
HandleWelcome(m) ==
  /\ Arrives(m, "welcome")
  /\ AddPeer(m.to, m.from)
  /\ wire' = Taken(m) (+) Sends(m.to, m.body.known \ (peers'[m.to] \cup {m.to}), Hello)
  /\ UNCHANGED <<up, failed, crashes>>

-----------------------------------------------------------------------------
\* Transporter.send: nobody listens. failCh holds one at a time.
DialFails(m) ==
  /\ m \in DOMAIN wire /\ m.to \notin up /\ m.from \in up
  /\ <<m.from, m.to>> \notin failed
  /\ wire' = Taken(m) /\ failed' = failed \cup {<<m.from, m.to>>}
  /\ UNCHANGED <<up, peers, crashes>>

\* onFail and removePeer.
OnFail(n, p) ==
  /\ <<n, p>> \in failed /\ failed' = failed \ {<<n, p>>}
  /\ peers' = [peers EXCEPT ![n] = @ \ {p}]
  /\ UNCHANGED <<up, wire, crashes>>

\* A send of the dead process goes on only when it has reached a listener.
Crash(n) ==
  /\ n \in up /\ crashes < MaxCrashes /\ crashes' = crashes + 1
  /\ up' = up \ {n}
  /\ peers' = [peers EXCEPT ![n] = {}]
  /\ failed' = {f \in failed : f[1] # n}
  /\ \E lost \in SUBSET {m \in DOMAIN wire : n \in {m.from, m.to}} :
       wire' = [m \in {m \in DOMAIN wire \ lost : m.from = n => m.to \in up} |-> wire[m]]

DiscoveryStep ==
  \/ \E m \in DOMAIN wire : HandleJoin(m) \/ HandleWelcome(m) \/ DialFails(m)
  \/ \E n, p \in Nodes : OnFail(n, p)

-----------------------------------------------------------------------------
P2pTypeOK ==
  /\ up \subseteq Nodes /\ crashes \in 0 .. MaxCrashes
  /\ peers \in [Nodes -> SUBSET Nodes]
  /\ failed \subseteq Nodes \X Nodes
  /\ \A m \in DOMAIN wire : m.from \in Nodes /\ m.to \in Nodes \ {m.from} /\ wire[m] > 0

\* Whatever order nodes start, die and come back in, and however hellos,
\* welcomes and failed dials overtake each other: in the end all nodes that
\* run know each other.
MeshCompletes == <>[](\A n \in up : up \ {n} \subseteq peers[n])
=============================================================================
