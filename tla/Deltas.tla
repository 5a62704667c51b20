--------------------------------- MODULE Deltas ---------------------------------
(***************************************************************************)
(* Delta objects: delta.go reads a delta's instructions, delta_apply.go    *)
(* applies them to a base.                                                 *)
(*                                                                         *)
(* Data abstraction.  Data is a sequence of bytes.  A payload has the two  *)
(* sizes of its header and its instructions, each decoded: a copy of size  *)
(* bytes from offset off, or data to add.  "reserved" is the instruction   *)
(* zero, and "cut" one whose bytes are not all there.                      *)
(***************************************************************************)
EXTENDS Naturals, Sequences, SequencesExt

CONSTANTS
    ZeroSize,   \* what a copy of size zero copies: 0x10000
    Wrap        \* sizes are uint64: 2^64
ASSUME DeltasAssumption == ZeroSize \in Nat \ {0} /\ Wrap \in Nat \ {0}

Copy(off, size) == [op |-> "copy", off |-> off, size |-> size, data |-> <<>>]
Add(data)       == [op |-> "add", off |-> 0, size |-> Len(data), data |-> data]
Odd(op)         == [op |-> op, off |-> 0, size |-> 0, data |-> <<>>]

\* What the payload of a delta is made of.
IsPayload(payload) ==
    /\ {payload.source, payload.target} \subseteq Nat
    /\ payload.cmds \in Seq({payload.cmds[i] : i \in DOMAIN payload.cmds})
    /\ \A i \in DOMAIN payload.cmds :
           LET cmd == payload.cmds[i] IN
           /\ cmd = [op |-> cmd.op, off |-> cmd.off, size |-> cmd.size, data |-> cmd.data]
           /\ {cmd.off, cmd.size} \subseteq Nat
           /\ cmd.data \in Seq({cmd.data[k] : k \in DOMAIN cmd.data})
           /\ cmd.op = "add" => cmd.size = Len(cmd.data)

\* parseSize
SizeOf(cmd) == IF cmd.op = "copy" /\ cmd.size = 0 THEN ZeroSize ELSE cmd.size

\* parseDeltaCommand: an instruction that does not fit counts nothing.
Fits(cmd, source, target) ==
    /\ SizeOf(cmd) <= target
    /\ cmd.op = "copy" => cmd.off + SizeOf(cmd) <= source

\* The loop of parseDelta: it stops when the target is full or overfull (the size left
\* wraps around), and at an instruction that does not fit, without an error.
Reads(st, target) == ~st.ended /\ 0 < st.left /\ st.left <= target
ReadCommand(payload, st, cmd) ==
    IF ~Reads(st, payload.target) \/ st.err THEN st
    ELSE IF cmd.op \in {"reserved", "cut"} THEN [st EXCEPT !.err = TRUE]
    ELSE IF ~Fits(cmd, payload.source, payload.target) THEN [st EXCEPT !.ended = TRUE]
    ELSE [st EXCEPT !.left = (@ + Wrap - SizeOf(cmd)) % Wrap,
                    !.changes = Append(@, [cmd EXCEPT !.size = SizeOf(cmd)])]

\* parseDelta
ParseDelta(payload) ==
    LET st[n \in 0 .. Len(payload.cmds)] ==
            IF n = 0 THEN [left |-> payload.target, ended |-> FALSE, err |-> FALSE, changes |-> <<>>]
            ELSE ReadCommand(payload, st[n - 1], payload.cmds[n])
        end == st[Len(payload.cmds)]
    IN  [err     |-> \/ payload.cmds = <<>>               \* payload too short
                     \/ end.err
                     \/ Reads(end, payload.target),        \* missing cmd byte
         source  |-> payload.source,
         changes |-> end.changes]

\* ApplyDelta: the size of the target is not looked at again.
Applies(base, delta) ==
    /\ Len(base) = delta.source
    /\ \A i \in DOMAIN delta.changes :
           delta.changes[i].op = "copy" =>
               /\ delta.changes[i].off + delta.changes[i].size <= Len(base)
               /\ delta.changes[i].size # 0
Change(base, ch) ==
    IF ch.op = "add" THEN ch.data ELSE SubSeq(base, ch.off + 1, ch.off + ch.size)
ApplyDelta(base, delta) ==
    FlattenSeq([i \in DOMAIN delta.changes |-> Change(base, delta.changes[i])])

-----------------------------------------------------------------------------
\* What a payload means (gitformat-pack), for those that are as they should be:
\* made for a base of this size, with instructions inside it that make a target of
\* the size the header names.
Made(base, payload) ==
    FlattenSeq([i \in DOMAIN payload.cmds |->
        LET cmd == payload.cmds[i] IN
        IF cmd.op = "add" THEN cmd.data
        ELSE [k \in 1 .. SizeOf(cmd) |-> base[cmd.off + k]]])
WellFormed(base, payload) ==
    /\ payload.source = Len(base) /\ payload.cmds # <<>>
    /\ \A i \in DOMAIN payload.cmds :
           LET cmd == payload.cmds[i] IN
           \/ cmd.op = "add" /\ cmd.data # <<>>
           \/ cmd.op = "copy" /\ cmd.off + SizeOf(cmd) <= Len(base)
    /\ payload.target = Len(Made(base, payload)) /\ payload.target < Wrap
=============================================================================
