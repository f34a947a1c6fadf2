------------------------------- MODULE MevInv -------------------------------
(***************************************************************************)
(* The inductive invariant behind the safety properties of Mev: what holds *)
(* between any two steps of the driver, and suffices to see that it still  *)
(* holds after the next one.                                               *)
(***************************************************************************)
EXTENDS Mev

\* Where a call holds the pointer mev_follow() moves.
Holding == {"follow", "hole", "array", "quantum", "copy", "commit"}

\* Who may be where: a module that is not there, or leaving, has no open file.
PlaceInv ==
  /\ pc[Loader] \in {"unloaded", "adding", "loaded", "trim", "del"}
  /\ \A t \in Threads : pc[t] \in InCall \union {"closed", "idle", "trim"}
  /\ pc[Loader] \in {"unloaded", "trim", "del"} => \A t \in Threads : pc[t] = "closed"
  /\ pc[Loader] # "unloaded" => regions > 0
  /\ \A p \in Proc : pc[p] \notin Holding \union {"trim", "up"} => cursor[p] = NULL

\* Those who queue for the semaphore wait, and queue once.
QueueInv ==
  /\ \A i \in 1 .. Len(waiters) : pc[waiters[i]] = "wait"
  /\ \A i, j \in 1 .. Len(waiters) : waiters[i] = waiters[j] => i = j

\* The semaphore counts the free places of the section: there is one.
LockInv ==
  /\ pc[Loader] = "adding" => ~sem_ready
  /\ ~early =>
       /\ sem <= 1
       /\ \A t \in Threads : pc[t] \in Section =>
            /\ sem_ready /\ sem = 0
            /\ \A u \in Threads : pc[u] \in Section => u = t

\* No pointer names an address that kmalloc() has yet to return, and what it
\* returns has no next.
AddressInv ==
  LET Known == live \union freed \union {NULL, WILD} IN
  /\ live \intersect freed = {}
  /\ container.data \in Known
  /\ \A a \in Addr : nxt[a] \in Known /\ (a \notin live => nxt[a] = NULL)
  /\ \A p \in Proc : cursor[p] \in Known

\* A call that got past the division has something to divide by; past the array
\* it has an array to put quanta in, and where it copies there is a quantum.
SlotInv ==
  \A t \in Threads :
    LET here == cursor[t] IN
    /\ pc[t] \in Holding => ItemSize(call[t]) # 0
    /\ pc[t] \in {"quantum", "copy"} /\ here \in live => data[here] # NULL
    /\ pc[t] = "copy" /\ here \in live =>
         SPos(call[t]) \in DOMAIN data[here] /\ data[here][SPos(call[t])] # NULL

\* A trim has the device to itself.
AloneInv == \A p \in Proc : pc[p] = "trim" => \A u \in Proc \ {p} : ~Busy(u)

\* The live nodes are a list: every next is live and has one predecessor.
ListInv ==
  /\ \A a \in live : nxt[a] \in live \union {NULL}
  /\ \A a, b \in live : nxt[a] = nxt[b] /\ nxt[a] # NULL => a = b

\* Its head, which a trim moves along, has no predecessor.
IsHead(a) == /\ a \in live \union {NULL, WILD}
             /\ a # NULL => \A b \in live : nxt[b] # a

\* Who points to the head and into the list.
PointerInv ==
  /\ (\A p \in Proc : pc[p] # "trim") => IsHead(container.data)
  /\ \A p \in Proc : pc[p] = "trim" => IsHead(cursor[p])
  /\ \A t \in Threads : pc[t] \in Holding => cursor[t] \in live \union {WILD}

\* A formatted container is neither wild nor without geometry, and no call
\* remembers the time before.
FormatInv ==
  /\ container.data # WILD
  /\ container.quantum = QuantumSize /\ container.qset = QsetSize
  /\ \A p \in Proc : cursor[p] # WILD
  /\ \A t \in Threads : pc[t] \in InCall =>
       call[t].quantum = QuantumSize /\ call[t].qset = QsetSize

\* The inductive invariant.  With the fault itself: a driver that is used
\* without overlapping trims never runs into freed memory.
IInv ==
  /\ TypeOK /\ PlaceInv /\ QueueInv /\ LockInv /\ AddressInv /\ SlotInv
  /\ ~overlap => AloneInv /\ ListInv /\ PointerInv /\ fault # "freed"
  /\ formatted /\ ~overlap => FormatInv
=============================================================================
