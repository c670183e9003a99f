----------------------------- MODULE Resampler -----------------------------
(***************************************************************************)
(* dynamic_resampler (aoo/src/resampler.cpp): the ring of frames through   *)
(* which a source and a sink change block size and sample rate.  The ring  *)
(* has size frames and three more which mirror the last frame (at -1) and  *)
(* the first two (at size and size + 1), so that interpolation needs no    *)
(* bound checks.  rdpos, balance and advance are fractions of a frame: they*)
(* are counted in units of 1 / Unit frame (rounding errors of doubles are  *)
(* left out).  A frame is the number of the frame since the last reset, 0  *)
(* for the zeros that reset() writes, Old for anything older.  All channels*)
(* are treated alike: there is one.                                        *)
(***************************************************************************)
EXTENDS Integers, FiniteSets, FiniteSetsExt

CONSTANTS
    Unit,       \* the resolution of positions
    Setups,     \* the arguments setup() is called with
    Drift,      \* by how much the advance may differ from the nominal one
    MaxFrames,  \* bound: frames written after a reset
    MaxSetups   \* bound: calls of setup() and reset()

VARIABLES
    args,       \* the arguments of the last setup()
    method, size, advance,
    buffer, wrpos, rdpos, balance,
    written,    \* frames written since the reset
    taken,      \* how far (in units) the reader has come since the reset
    heard,      \* pairs <<frame read, frame that belongs there>> of the last read
    setups

vars == <<args, method, size, advance, buffer, wrpos, rdpos, balance,
          written, taken, heard, setups>>

Old == -1
latency_linear == 1
latency_cubic == 2

Latency(m) == CASE m = "cubic" -> latency_cubic
                [] m = "linear" -> latency_linear
                [] OTHER -> 0

-----------------------------------------------------------------------------
(* setup(), update() and reset() *)

MethodOf(a) ==
    CASE a.fixed_sr /\ a.srfrom = a.srto -> "none"
      [] a.fixed_sr /\ a.srto < a.srfrom /\ a.srfrom % a.srto = 0 -> "skip"
      [] OTHER -> IF a.mode \in {"hold", "linear", "cubic"} THEN a.mode ELSE "linear"

Bypass(a) == MethodOf(a) = "none" /\ a.fixed_n /\ a.nfrom = a.nto

\* The larger of the two blocks, in frames of the writer.
Largest(a) == Max({a.nfrom, IF a.srto < a.srfrom
                            THEN (2 * a.nto * a.srfrom + a.srto) \div (2 * a.srto)
                            ELSE a.nto})

\* A plausible bug: AOO_RESAMPLER_SPACE is 2.
SizeOf_tight(a) == IF Bypass(a) THEN 0 ELSE 2 * Largest(a)

\* AOO_RESAMPLER_SPACE is 2.5; there is no ring when it is bypassed.
SizeOf(a) == IF Bypass(a) THEN 0 ELSE (5 * Largest(a)) \div 2

Nominal(a) == (Unit * a.srfrom) \div a.srto

\* What the ring holds after reset(): old is what it held before.
Cleared(m, sz, old) ==
    [i \in -1 .. sz + 1 |->
        CASE m = "cubic" -> IF i \in {-1, 0, 1, sz - 1} THEN 0 ELSE old[i]
          [] m = "linear" -> IF i = 0 THEN 0 ELSE old[i]
          [] OTHER -> old[i]]

Restart(m, sz, old) ==
    /\ buffer' = Cleared(m, sz, old)
    /\ wrpos' = Latency(m)
    /\ rdpos' = 0
    /\ balance' = Latency(m) * Unit
    /\ written' = 0
    /\ taken' = 0
    /\ heard' = {}
    /\ setups' = setups + 1

\* A ring of another size is allocated and filled with zeros, one of the same
\* size is kept.
setup(a) ==
    /\ setups < MaxSetups
    /\ args' = a
    /\ method' = MethodOf(a)
    /\ size' = SizeOf(a)
    /\ advance' = IF MethodOf(a) = "none" THEN advance ELSE Nominal(a)
    /\ Restart(MethodOf(a), SizeOf(a),
               [i \in -1 .. SizeOf(a) + 1 |-> IF SizeOf(a) = size THEN Old ELSE 0])

reset ==
    /\ setups < MaxSetups
    /\ Restart(method, size, [i \in DOMAIN buffer |-> Old])
    /\ UNCHANGED <<args, method, size, advance>>

\* The sink corrects the clock drift unless the sample rate is fixed.
update(d) ==
    /\ ~args.fixed_sr
    /\ advance' = Nominal(args) + d
    /\ UNCHANGED <<args, method, size, buffer, wrpos, rdpos, balance, written, taken,
                   heard, setups>>

-----------------------------------------------------------------------------
(* write() *)

\* A plausible bug: no frame is left free for the interpolation.
CanWrite_full(n) == (size * Unit - balance) \div Unit >= n

CanWrite(n) == (size * Unit - balance) \div Unit - 1 >= n

Mirrored(b, pos, end) ==
    [i \in DOMAIN b |->
        CASE i >= size /\ (pos < 2 \/ end > size) -> b[i - size]
          [] i = -1 /\ end >= size -> b[size - 1]
          [] OTHER -> b[i]]

\* The ring with n new frames at wrpos and after it.
Copied(n) ==
    [i \in DOMAIN buffer |->
        IF i \in 0 .. size - 1 /\ (i - wrpos) % size < n
        THEN written + 1 + ((i - wrpos) % size)
        ELSE buffer[i]]

write(n) ==
    /\ ~Bypass(args)
    /\ CanWrite(n)
    /\ written + n <= MaxFrames
    /\ buffer' = IF method = "none" THEN Copied(n)
                 ELSE Mirrored(Copied(n), wrpos, wrpos + n)
    /\ wrpos' = IF wrpos + n >= size THEN wrpos + n - size ELSE wrpos + n
    /\ balance' = balance + n * Unit
    /\ written' = written + n
    /\ UNCHANGED <<args, method, size, advance, rdpos, taken, heard, setups>>

-----------------------------------------------------------------------------
(* read() *)

\* How far one frame of output moves the reader.
Step == CASE method = "none" -> Unit
          [] method = "skip" -> (advance \div Unit) * Unit
          [] OTHER -> advance

\* A plausible bug: the frames that interpolation looks ahead are not kept back.
CanRead_ahead(n) == balance >= n * Step

CanRead(n) == balance - Latency(method) * Unit >= n * Step

\* The frames around a position which one frame of output is made of.
Around == CASE method = "cubic" -> -1 .. 2
            [] method = "linear" -> 0 .. 1
            [] OTHER -> {0}

Wrap(pos) == IF pos >= size * Unit THEN pos - size * Unit ELSE pos

\* The frame that was written as the j-th after the reset, zeros first.
Stream(j) == IF j < Latency(method) THEN 0 ELSE j - Latency(method) + 1

read(n) ==
    /\ ~Bypass(args)
    /\ CanRead(n)
    /\ heard' = {<<buffer[Wrap(rdpos + i * Step) \div Unit + k],
                   Stream((taken + i * Step) \div Unit + k)>> :
                 i \in 0 .. n - 1, k \in Around}
    /\ rdpos' = Wrap(rdpos + n * Step)
    /\ balance' = balance - n * Step
    /\ taken' = taken + n * Step
    /\ UNCHANGED <<args, method, size, advance, buffer, wrpos, written, setups>>

-----------------------------------------------------------------------------
Init ==
    \E a \in Setups :
        /\ args = a
        /\ method = MethodOf(a)
        /\ size = SizeOf(a)
        /\ advance = Nominal(a)
        /\ buffer = [i \in -1 .. SizeOf(a) + 1 |-> 0]
        /\ wrpos = Latency(MethodOf(a))
        /\ rdpos = 0
        /\ balance = Latency(MethodOf(a)) * Unit
        /\ written = 0 /\ taken = 0 /\ heard = {} /\ setups = 0

\* Blocks have their nominal size unless the block size of the user of the
\* resampler may vary: then they may be shorter.
Blocks(n) == IF args.fixed_n THEN {n} ELSE 1 .. n

Next ==
    \/ \E a \in Setups : setup(a)
    \/ reset
    \/ \E d \in Drift : update(d)
    \/ \E n \in Blocks(args.nfrom) : write(n)
    \/ \E n \in Blocks(args.nto) : read(n)

Spec == Init /\ [][Next]_vars

-----------------------------------------------------------------------------
(* A block of output is made of the frames that were written, each at its  *)
(* place in the stream: no frame of an earlier lap of the ring, no frame of*)
(* the time before the last reset() and no stale mirror is ever heard      *)
(* (write(), read() and reset() in resampler.cpp).                         *)
ReadsWritten == \A p \in heard : p[1] = p[2]

(* When a block cannot be read there is room for another block to be       *)
(* written, so that a sink which decodes only after a refused read never   *)
(* meets "bug: couldn't write to resampler" (sink.cpp) and a source is not *)
(* stuck (AOO_RESAMPLER_SPACE "must be larger than 2!").                   *)
NoStall == ~Bypass(args) /\ ~CanRead(args.nto) => CanWrite(args.nfrom)

(* The resampler plays what was written and never blocks the stream.       *)
ResamplerSound == ReadsWritten /\ NoStall
=============================================================================
