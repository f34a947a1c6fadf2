----------------------------- MODULE FlatDevice -----------------------------
(***************************************************************************)
(* What a memory device promises whoever uses it: a size, and a byte at    *)
(* each position.  A call may transfer less than it was asked for, and may *)
(* fail; what a read delivers is what was written there last.  Of bytes    *)
(* that nobody wrote, or that a failing write was about to replace,        *)
(* nothing is known: they are JUNK, and a read may stop before them.       *)
(***************************************************************************)
EXTENDS Integers, Sequences

CONSTANTS Files, Capacity, Starts, Counts, Bytes, JUNK, ERROR

VARIABLES
  size,
  bytes,   \* position -> byte
  f_pos,   \* file -> position
  out      \* the bytes the last call transferred, or ERROR

Positions == 0 .. Capacity - 1

\* A call with room for n bytes transfers some of them; none only if n is 0 or
\* there is a reason to.
Texts(n) == UNION {[1 .. k -> Bytes \union {JUNK}] : k \in 0 .. n}
Fails == out' = ERROR

\* Where the call takes place: the position of a file, which moves, or a
\* position of its own.
At(p) ==
  \/ p \in Starts /\ UNCHANGED f_pos
  \/ \E f \in Files :
       /\ p = f_pos[f]
       /\ f_pos' = [f_pos EXCEPT ![f] = IF Fails THEN @ ELSE @ + Len(out')]

\* Everything up to the end, or up to what was never written, may be delivered.
Read(p, n) ==
  /\ UNCHANGED <<size, bytes>>
  /\ \/ Fails
     \/ /\ out' \in Texts(n)
        /\ out' # <<>> => p + Len(out') <= size
        /\ \A i \in DOMAIN out' : bytes[p + i - 1] \in {out'[i], JUNK}
        /\ n > 0 /\ p < size /\ bytes[p] # JUNK => out' # <<>>

\* What a write reports is stored, and is not nothing; or the write fails, and
\* then only bytes in its range may have changed.
Write(p, n) ==
  \/ /\ out' \in Texts(n)
     /\ n > 0 => out' # <<>>
     /\ \A i \in DOMAIN out' : out'[i] \in Bytes
     /\ size' = IF size < p + Len(out') THEN p + Len(out') ELSE size
     /\ bytes' = [x \in Positions |->
                   IF x - p + 1 \in DOMAIN out' THEN out'[x - p + 1] ELSE bytes[x]]
  \/ /\ Fails
     /\ UNCHANGED size
     /\ bytes' \in [Positions -> Bytes \union {JUNK}]
     /\ \A x \in Positions \ (p .. p + n - 1) : bytes'[x] = bytes[x]

\* Opened for writing only, the device is emptied.
Open(f, truncate) ==
  /\ out' = <<>>
  /\ f_pos' = [f_pos EXCEPT ![f] = 0]
  /\ IF truncate THEN bytes' = [x \in Positions |-> JUNK] /\ size' = 0
                 ELSE UNCHANGED <<bytes, size>>

Init ==
  /\ size = 0 /\ bytes = [x \in Positions |-> JUNK]
  /\ f_pos = [f \in Files |-> 0] /\ out = <<>>

Next ==
  \/ \E f \in Files, truncate \in BOOLEAN : Open(f, truncate)
  \/ \E p \in 0 .. Capacity, n \in Counts : At(p) /\ (Read(p, n) \/ Write(p, n))

Spec == Init /\ [][Next]_<<size, bytes, f_pos, out>>
=============================================================================
