----------------------------- MODULE GzipProofs -----------------------------
(***************************************************************************)
(* What the compressing middleware guarantees for any number of responses  *)
(* and compressors, any minimum and bodies of any length: no response gets *)
(* units of another, and every one gets its own, whole, in one encoding    *)
(* and under the header that fits.  The argument follows the units: what a *)
(* handler has written is on the wire, in the buffer or in the compressor  *)
(* of its response, in the order it was written in.  And the pool gets     *)
(* every compressor back.                                                  *)
(***************************************************************************)
EXTENDS GzipResponse, SequenceTheorems, TLAPS

----------------------------------------------------------------------------
(* The inductive invariant: what is known of each response, and OneOwner.  *)

(* The fields of a gzipWriter fit the phase of its request.                *)
WriterFits(r) ==
    /\ phase[r] = "idle" => ~w[r].wraps /\ written[r] = 0
    /\ phase[r] \notin {"idle", "handler"} => ~Undecided(r)
    /\ w[r].compress => w[r].decided
    /\ w[r].decided => w[r].wraps
    /\ ~Undecided(r) => w[r].buf = <<>>
    /\ w[r].gz # None <=> w[r].compress /\ phase[r] = "handler"

(* The units that leave a response all have one encoding.                  *)
Packed == (Units \X {"gzip"}) \cup {Trailer}

OneEncoding(r) ==
    wire[r] \in Seq(IF w[r].compress THEN Packed ELSE Units \X {"raw"})

(* Where the units are that a handler has written. *)
NothingLost(r) ==
    /\ Undecided(r) => wire[r] = <<>> /\ w[r].buf = Body(r)
    /\ Direct(r) => wire[r] = Coded(Body(r), "raw")
    /\ w[r].gz # None =>
          wire[r] \o Coded(kept[w[r].gz], "gzip") = Coded(Body(r), "gzip")
    /\ w[r].compress /\ phase[r] \in {"finished", "ended"} =>
          wire[r] = Append(Coded(Body(r), "gzip"), Trailer)

(* After a flush nothing written before it is left behind.                 *)
FlushedIsOut(r) == Len(wire[r]) >= flushed[r]

(* The header is decided before it is sent, and stays.                     *)
HeaderFits(r) ==
    /\ w[r].compress <=> header[r].encoding = "gzip"
    /\ w[r].compress => ~header[r].length /\ sent[r] # None
    /\ sent[r] # None => sent[r].header = header[r]
    /\ Undecided(r) \/ phase[r] = "idle" => sent[r] = None
    /\ wire[r] # <<>> => sent[r] # None

Fits(r) ==
    /\ WriterFits(r)
    /\ OneEncoding(r)
    /\ NothingLost(r)
    /\ FlushedIsOut(r)
    /\ HeaderFits(r)

IInv == TypeOK /\ OneOwner /\ \A r \in Requests : Fits(r)

----------------------------------------------------------------------------
(* Units.                                                                  *)

LEMMA CodedSeq ==
    ASSUME NEW S, NEW s \in Seq(S), NEW c
    PROVE  /\ Coded(s, c) \in Seq(S \X {c})
           /\ Len(Coded(s, c)) = Len(s)
           /\ \A i \in 1..Len(s) : Coded(s, c)[i] = <<s[i], c>>
<1>1. Len(s) \in Nat /\ DOMAIN s = 1..Len(s) /\ \A i \in 1..Len(s) : s[i] \in S
    BY LenProperties, ElementOfSeq
<1>2. Coded(s, c) \in [1..Len(s) -> S \X {c}]
    BY <1>1 DEF Coded
<1>3. Coded(s, c) \in Seq(S \X {c})
    BY <1>1, <1>2, SeqDef
<1> QED
    BY <1>1, <1>2, <1>3, LenProperties DEF Coded

LEMMA CodedEmpty == ASSUME NEW c PROVE Coded(<<>>, c) = <<>>
<1>1. <<>> \in Seq({})
    BY EmptySeq
<1>2. /\ Coded(<<>>, c) \in Seq({} \X {c})
      /\ Len(Coded(<<>>, c)) = 0
    BY <1>1, CodedSeq, EmptySeq
<1> QED
    BY <1>2, EmptySeq

LEMMA CodedConcat ==
    ASSUME NEW S, NEW s \in Seq(S), NEW t \in Seq(S), NEW c
    PROVE  Coded(s \o t, c) = Coded(s, c) \o Coded(t, c)
<1>1. /\ s \o t \in Seq(S)
      /\ Len(s) \in Nat /\ Len(t) \in Nat
      /\ Len(s \o t) = Len(s) + Len(t)
      /\ \A i \in 1..Len(s) + Len(t) :
            (s \o t)[i] = IF i <= Len(s) THEN s[i] ELSE t[i - Len(s)]
    BY ConcatProperties, LenProperties
<1> DEFINE a == Coded(s \o t, c)
           b == Coded(s, c) \o Coded(t, c)
<1>2. /\ a \in Seq(S \X {c})
      /\ Len(a) = Len(s) + Len(t)
      /\ \A i \in 1..Len(a) : a[i] = <<(s \o t)[i], c>>
    BY <1>1, CodedSeq
<1>3. /\ Coded(s, c) \in Seq(S \X {c}) /\ Len(Coded(s, c)) = Len(s)
      /\ \A i \in 1..Len(s) : Coded(s, c)[i] = <<s[i], c>>
      /\ Coded(t, c) \in Seq(S \X {c}) /\ Len(Coded(t, c)) = Len(t)
      /\ \A i \in 1..Len(t) : Coded(t, c)[i] = <<t[i], c>>
    BY CodedSeq
<1>4. /\ b \in Seq(S \X {c})
      /\ Len(b) = Len(s) + Len(t)
      /\ \A i \in 1..Len(s) + Len(t) :
            b[i] = IF i <= Len(s) THEN Coded(s, c)[i] ELSE Coded(t, c)[i - Len(s)]
    <2> DEFINE x == Coded(s, c)
               y == Coded(t, c)
    <2>1. x \in Seq(S \X {c}) /\ y \in Seq(S \X {c})
        BY <1>3
    <2> HIDE DEF x, y
    <2>2. /\ x \o y \in Seq(S \X {c})
          /\ Len(x \o y) = Len(x) + Len(y)
          /\ \A i \in 1..Len(x) + Len(y) :
                (x \o y)[i] = IF i <= Len(x) THEN x[i] ELSE y[i - Len(x)]
        BY <2>1, ConcatProperties
    <2> QED
        BY <1>3, <2>2 DEF x, y
<1> HIDE DEF a, b
<1>5. ASSUME NEW i \in 1..Len(a) PROVE a[i] = b[i]
    <2>1. CASE i <= Len(s)
        <3>1. i \in 1..Len(s)
            BY <1>1, <1>2, <2>1
        <3>2. b[i] = <<s[i], c>>
            BY <1>1, <1>2, <1>3, <1>4, <2>1, <3>1
        <3> QED
            BY <1>1, <1>2, <2>1, <3>2
    <2>2. CASE ~(i <= Len(s))
        <3>1. i - Len(s) \in 1..Len(t)
            BY <1>1, <1>2, <2>2
        <3>2. b[i] = <<t[i - Len(s)], c>>
            BY <1>1, <1>2, <1>3, <1>4, <2>2, <3>1
        <3> QED
            BY <1>1, <1>2, <2>2, <3>2
    <2> QED
        BY <2>1, <2>2
<1>6. a = b
    BY <1>2, <1>4, <1>5, SeqEqual
<1> QED
    BY <1>6 DEF a, b

LEMMA UnitsConcat == \A a, b \in Seq(Units) : a \o b \in Seq(Units)
<1> HIDE DEF Units
<1> QED
    BY ConcatProperties

LEMMA PackedAssociates ==
    \A x, y, z \in Seq(Packed) : (x \o y) \o z = x \o (y \o z)
<1> HIDE DEF Packed
<1> QED
    BY ConcatAssociative

(* Three stretches of a compressed response.                               *)
LEMMA PackedConcat ==
    ASSUME NEW s \in Seq(Packed), NEW a \in Seq(Units), NEW b \in Seq(Units)
    PROVE  /\ a \o b \in Seq(Units)
           /\ Coded(a \o b, "gzip") = Coded(a, "gzip") \o Coded(b, "gzip")
           /\ s \o Coded(a \o b, "gzip") = (s \o Coded(a, "gzip")) \o Coded(b, "gzip")
<1>1. Coded(a \o b, "gzip") = Coded(a, "gzip") \o Coded(b, "gzip")
    BY CodedConcat
<1> DEFINE x == Coded(a, "gzip")
           y == Coded(b, "gzip")
<1>2. x \in Seq(Units \X {"gzip"}) /\ y \in Seq(Units \X {"gzip"})
    BY CodedSeq
<1>3. Units \X {"gzip"} \subseteq Packed
    BY DEF Packed
<1> HIDE DEF x, y
<1>4. x \in Seq(Packed) /\ y \in Seq(Packed)
    BY <1>2, <1>3, SeqMonotonic
<1>5. s \o (x \o y) = (s \o x) \o y
    BY <1>4, PackedAssociates
<1>6. a \o b \in Seq(Units)
    BY UnitsConcat
<1> QED
    BY <1>1, <1>5, <1>6 DEF x, y

(* A compressor that lets out all or nothing of what it has changes no     *)
(* order. *)
PackOrdered(s, u, m) ==
    LET out == SubSeq(u, 1, m)
        in == SubSeq(u, m + 1, Len(u))
    IN  /\ out \in Seq(Units) /\ in \in Seq(Units)
        /\ s \o Coded(out, "gzip") \in Seq(Packed)
        /\ Len(s \o Coded(out, "gzip")) >= Len(s)
        /\ (s \o Coded(out, "gzip")) \o Coded(in, "gzip") = s \o Coded(u, "gzip")

LEMMA PackKeepsOrder ==
    ASSUME NEW s \in Seq(Packed), NEW u \in Seq(Units), NEW m \in {0, Len(u)}
    PROVE  PackOrdered(s, u, m)
<1> DEFINE out == SubSeq(u, 1, m)
           in == SubSeq(u, m + 1, Len(u))
<1>1. Len(u) \in Nat /\ m \in 0..Len(u)
    BY LenProperties
<1>2. /\ out \in Seq(Units) /\ in \in Seq(Units)
      /\ out \o in = u
    <2>1. CASE m = 0
        <3>1. out = <<>> /\ in = u
            BY <1>1, <2>1, SubSeqEmpty, SubSeqFull
        <3> QED
            BY <3>1, EmptySeq, ConcatEmptySeq
    <2>2. CASE m = Len(u)
        <3>1. out = u /\ in = <<>>
            BY <1>1, <2>2, SubSeqEmpty, SubSeqFull
        <3> QED
            BY <3>1, EmptySeq, ConcatEmptySeq
    <2> QED
        BY <2>1, <2>2
<1> HIDE DEF out, in
<1>3. /\ Coded(out, "gzip") \in Seq(Units \X {"gzip"})
      /\ Coded(in, "gzip") \in Seq(Units \X {"gzip"})
      /\ Coded(u, "gzip") = Coded(out, "gzip") \o Coded(in, "gzip")
    <2>1. Coded(out \o in, "gzip") = Coded(out, "gzip") \o Coded(in, "gzip")
        <3>1. out \in Seq(Units) /\ in \in Seq(Units)
            BY <1>2
        <3> QED
            BY <3>1, CodedConcat
    <2>2. u = out \o in
        BY <1>2
    <2>3. Coded(u, "gzip") = Coded(out \o in, "gzip")
        BY <2>2, Zenon
    <2>4. Coded(u, "gzip") = Coded(out, "gzip") \o Coded(in, "gzip")
        BY <2>1, <2>3, Zenon
    <2>5. \A v \in Seq(Units) : Coded(v, "gzip") \in Seq(Units \X {"gzip"})
        BY CodedSeq
    <2> QED
        BY <1>2, <2>4, <2>5
<1>4. /\ Coded(out, "gzip") \in Seq(Packed)
      /\ Coded(in, "gzip") \in Seq(Packed)
    BY <1>3, SeqMonotonic DEF Packed
<1>5. /\ s \o Coded(out, "gzip") \in Seq(Packed)
      /\ Len(s \o Coded(out, "gzip")) >= Len(s)
    BY <1>4, ConcatProperties, LenProperties
<1>6. (s \o Coded(out, "gzip")) \o Coded(in, "gzip") = s \o Coded(u, "gzip")
    <2> DEFINE x == Coded(out, "gzip")
               y == Coded(in, "gzip")
    <2>1. x \in Seq(Packed) /\ y \in Seq(Packed)
        BY <1>4
    <2> HIDE DEF x, y
    <2>2. (s \o x) \o y = s \o (x \o y)
        BY <2>1, PackedAssociates
    <2> QED
        BY <1>3, <2>2 DEF x, y
<1> QED
    BY <1>2, <1>5, <1>6 DEF out, in, PackOrdered

LEMMA BodySeq ==
    ASSUME TypeOK, NEW r \in Requests
    PROVE  /\ Body(r) \in Seq(Units)
           /\ Len(Body(r)) = written[r]
           /\ written[r] = 0 => Body(r) = <<>>
<1>1. written[r] \in Nat /\ written[r] <= MaxUnits
    BY GzipAssumption DEF TypeOK
<1>2. Body(r) \in [1..written[r] -> Units]
    BY <1>1, GzipAssumption DEF Body, Units
<1>3. Body(r) \in Seq(Units)
    BY <1>1, <1>2, SeqDef
<1>4. Len(Body(r)) = written[r]
    BY <1>1, <1>2, <1>3, LenProperties DEF Body
<1> QED
    BY <1>3, <1>4, EmptySeq

(* What a handler writes comes behind what it has written.                 *)
LEMMA BodyGrows ==
    ASSUME TypeOK, NEW r \in Requests, NEW n \in Nat, written[r] + n <= MaxUnits,
           written' = [written EXCEPT ![r] = @ + n]
    PROVE  /\ NextUnits(r, n) \in Seq(Units)
           /\ Len(NextUnits(r, n)) = n
           /\ Body(r)' = Body(r) \o NextUnits(r, n)
           /\ written'[r] = written[r] + n
           /\ written' \in [Requests -> 0..MaxUnits]
<1>1. written[r] \in Nat /\ written'[r] = written[r] + n /\ MaxUnits \in Nat
    BY GzipAssumption DEF TypeOK
<1>2. NextUnits(r, n) \in [1..n -> Units]
    BY <1>1 DEF NextUnits, Units
<1>3. NextUnits(r, n) \in Seq(Units)
    BY <1>2, SeqDef
<1>4. Len(NextUnits(r, n)) = n
    BY <1>2, <1>3, LenProperties DEF NextUnits
<1>5. Body(r) \in Seq(Units) /\ Len(Body(r)) = written[r]
    BY BodySeq
<1>6. Body(r)' \in [1..(written[r] + n) -> Units]
    BY <1>1 DEF Body, Units
<1>7. Body(r)' \in Seq(Units)
    BY <1>1, <1>6, SeqDef
<1>8. Len(Body(r)') = written[r] + n
    BY <1>1, <1>6, <1>7, LenProperties DEF Body
<1>9. /\ Body(r) \o NextUnits(r, n) \in Seq(Units)
      /\ Len(Body(r) \o NextUnits(r, n)) = written[r] + n
      /\ \A i \in 1..written[r] + n : (Body(r) \o NextUnits(r, n))[i] =
            IF i <= written[r] THEN Body(r)[i] ELSE NextUnits(r, n)[i - written[r]]
    <2> DEFINE x == Body(r)
               y == NextUnits(r, n)
    <2>1. x \in Seq(Units) /\ y \in Seq(Units)
        BY <1>3, <1>5
    <2> HIDE DEF x, y
    <2>2. /\ x \o y \in Seq(Units)
          /\ Len(x \o y) = Len(x) + Len(y)
          /\ \A i \in 1..Len(x) + Len(y) :
                (x \o y)[i] = IF i <= Len(x) THEN x[i] ELSE y[i - Len(x)]
        BY <2>1, ConcatProperties
    <2> QED
        BY <1>4, <1>5, <2>2 DEF x, y
<1>10. ASSUME NEW i \in 1..(written[r] + n)
       PROVE  Body(r)'[i] = (Body(r) \o NextUnits(r, n))[i]
    <2>1. Body(r)'[i] = i
        BY <1>1 DEF Body
    <2>2. CASE i <= written[r]
        BY <1>1, <1>9, <2>1, <2>2 DEF Body
    <2>3. CASE ~(i <= written[r])
        <3>1. i - written[r] \in 1..n
            BY <1>1, <2>3
        <3>2. NextUnits(r, n)[i - written[r]] = i
            BY <1>1, <3>1 DEF NextUnits
        <3> QED
            BY <1>9, <2>1, <2>3, <3>2
    <2> QED
        BY <2>2, <2>3
<1>11. Body(r)' = Body(r) \o NextUnits(r, n)
    BY <1>7, <1>8, <1>9, <1>10, SeqEqual
<1> QED
    BY <1>1, <1>3, <1>4, <1>11 DEF TypeOK

----------------------------------------------------------------------------
(* Steps.                                                                  *)

(* A step of r leaves the other responses alone, and their compressors.    *)
Frame(r) ==
    \A s \in Requests \ {r} :
        /\ phase'[s] = phase[s]
        /\ header'[s] = header[s]
        /\ sent'[s] = sent[s]
        /\ wire'[s] = wire[s]
        /\ w'[s] = w[s]
        /\ written'[s] = written[s]
        /\ flushed'[s] = flushed[s]
        /\ w[s].gz # None => kept'[w[s].gz] = kept[w[s].gz]

LEMMA OthersFit ==
    ASSUME NEW r \in Requests, Frame(r), NEW s \in Requests \ {r}, Fits(s)
    PROVE  Fits(s)'
<1>1. WriterFits(s)'
    BY DEF Frame, Fits, WriterFits, Undecided
<1>2. OneEncoding(s)'
    BY DEF Frame, Fits, OneEncoding
<1>3. NothingLost(s)'
    <2>1. Body(s)' = Body(s)
        BY DEF Frame, Body
    <2> QED
        BY <2>1 DEF Frame, Fits, NothingLost, Undecided, Direct
<1>4. FlushedIsOut(s)'
    BY DEF Frame, Fits, FlushedIsOut
<1>5. HeaderFits(s)'
    BY DEF Frame, Fits, HeaderFits, Undecided
<1> QED
    BY <1>1, <1>2, <1>3, <1>4, <1>5 DEF Fits

(* What a step has to keep; the rest of TypeOK follows from it.            *)
Keeps(r) == TypeOK' /\ OneOwner' /\ Frame(r) /\ Fits(r)'

Writers == [wraps : BOOLEAN, buf : Seq(Units), decided : BOOLEAN,
            compress : BOOLEAN, gz : Compressors \cup {None}]

(* The writer of one request changes, those of the others do not.          *)
LEMMA WriterChanged ==
    ASSUME TypeOK, NEW r \in Requests, NEW e \in Writers, w' = [w EXCEPT ![r] = e]
    PROVE  /\ w' \in [Requests -> Writers]
           /\ w'[r] = e
           /\ \A s \in Requests \ {r} : w'[s] = w[s]
           /\ Len(e.buf) < MinLength => \A s \in Requests : Len(w'[s].buf) < MinLength
<1>1. w \in [Requests -> Writers] /\ \A s \in Requests : Len(w[s].buf) < MinLength
    BY DEF TypeOK, Writers
<1>2. /\ w' \in [Requests -> Writers]
      /\ w'[r] = e
      /\ \A s \in Requests \ {r} : w'[s] = w[s]
    BY <1>1
<1> QED
    BY <1>1, <1>2

LEMMA WriterTyped == TypeOK => \A r \in Requests : w[r] \in Writers
BY DEF TypeOK, Writers

LEMMA HandleStep ==
    ASSUME IInv, NEW r \in Requests, NEW accepts \in BOOLEAN, Handle(r, accepts)
    PROVE  Keeps(r)
<1>1. TypeOK'
    <2> DEFINE e == [w[r] EXCEPT !.wraps = accepts]
    <2>1. w[r] \in Writers /\ Len(w[r].buf) < MinLength
        BY WriterTyped DEF IInv, TypeOK
    <2>2. e \in Writers /\ Len(e.buf) < MinLength
        BY <2>1 DEF Writers
    <2>3. w' = [w EXCEPT ![r] = e]
        BY DEF Handle
    <2> HIDE DEF e
    <2>4. w' \in [Requests -> Writers] /\ \A s \in Requests : Len(w'[s].buf) < MinLength
        BY <2>2, <2>3, WriterChanged DEF IInv
    <2>5. phase' \in [Requests -> {"idle", "handler", "finished", "ended", "dead"}]
        BY DEF Handle, IInv, TypeOK
    <2> QED
        BY <2>4, <2>5 DEF Handle, IInv, TypeOK, Writers
<1> USE DEF IInv, TypeOK
<1>2. OneOwner'
    BY DEF Handle, OneOwner
<1>3. Frame(r)
    BY DEF Handle, Frame
<1>4. Fits(r)
    OBVIOUS
<1>5. /\ w[r].wraps = FALSE /\ w[r].decided = FALSE /\ w[r].compress = FALSE
      /\ w[r].gz = None /\ w[r].buf = <<>> /\ written[r] = 0
    BY <1>4 DEF Fits, WriterFits, Undecided, Handle
<1>6. w'[r] = [w[r] EXCEPT !.wraps = accepts] /\ phase'[r] = "handler"
    BY DEF Handle
<1>7. WriterFits(r)'
    BY <1>5, <1>6 DEF Handle, WriterFits, Undecided
<1>8. Body(r) = <<>> /\ Body(r)' = <<>> /\ wire[r] = <<>>
    <2>1. Body(r) = <<>>
        BY <1>5, BodySeq
    <2>2. wire[r] = <<>>
        BY <1>4, <1>5, <2>1, CodedEmpty DEF Fits, NothingLost, Direct
    <2> QED
        BY <2>1, <2>2 DEF Handle, Body
<1>9. OneEncoding(r)' /\ FlushedIsOut(r)'
    BY <1>4, <1>5, <1>6 DEF Handle, Fits, OneEncoding, FlushedIsOut
<1>10. NothingLost(r)'
    BY <1>5, <1>6, <1>8, CodedEmpty DEF Handle, NothingLost, Undecided, Direct
<1>11. HeaderFits(r)'
    <2>1. sent[r] = None
        BY <1>4 DEF Fits, HeaderFits, Handle
    <2> QED
        BY <1>4, <1>5, <1>6, <1>8, <2>1 DEF Handle, Fits, HeaderFits, Undecided
<1> QED
    BY <1>1, <1>2, <1>3, <1>7, <1>9, <1>10, <1>11 DEF Keeps, Fits

(* What is known of a response that is being handled.                      *)
LEMMA Handling ==
    ASSUME IInv, NEW r \in Requests, phase[r] = "handler"
    PROVE  /\ w[r].compress => /\ w[r].gz \in Compressors \ pool
                               /\ dest[w[r].gz] = r
                               /\ w[r].decided /\ w[r].wraps /\ w[r].buf = <<>>
           /\ ~w[r].compress => w[r].gz = None
           /\ ~Undecided(r) => w[r].buf = <<>>
           /\ w[r].buf \in Seq(Units)
           /\ \A s \in Requests \ {r} :
                 w[r].gz # None => w[s].gz # w[r].gz
<1> USE DEF IInv, TypeOK
<1>1. WriterFits(r)
    BY DEF Fits
<1>2. w[r].gz # None => w[r].gz \in Compressors \ pool /\ dest[w[r].gz] = r
    BY DEF OneOwner
<1>3. \A s \in Requests \ {r} : w[r].gz # None => w[s].gz # w[r].gz
    BY <1>2 DEF OneOwner
<1> QED
    BY <1>1, <1>2, <1>3 DEF WriterFits, Undecided

(* The header of r goes out, unless it has, as it will be after the step.  *)
LEMMA HeaderSent ==
    ASSUME IInv, NEW r \in Requests, SendHeader(r), header'[r] \in Headers
    PROVE  /\ sent' \in [Requests -> [status : Statuses, header : Headers] \cup {None}]
           /\ sent'[r] # None
           /\ sent[r] = None => sent'[r].header = header'[r]
           /\ sent[r] # None => sent'[r] = sent[r]
           /\ \A s \in Requests \ {r} : sent'[s] = sent[s]
<1> DEFINE h == [status |-> status[r], header |-> header'[r]]
<1>1. h \in [status : Statuses, header : Headers] /\ h.header = header'[r] /\ h # None
    BY GzipAssumption DEF IInv, TypeOK
<1>2. sent' = [sent EXCEPT ![r] = IF sent[r] = None THEN h ELSE sent[r]]
    BY DEF SendHeader
<1> HIDE DEF h
<1> QED
    BY <1>1, <1>2 DEF IInv, TypeOK

(* Nothing moves but the header. *)
LEMMA HeaderGoes ==
    ASSUME IInv, NEW r \in Requests,
           phase[r] # "idle", ~Undecided(r),
           phase' = phase \/ (phase[r] = "finished" /\ phase' = [phase EXCEPT ![r] = "ended"]),
           flushed' = flushed \/ (Direct(r) /\ flushed' = [flushed EXCEPT ![r] = written[r]]),
           UNCHANGED <<status, header, wire, w, dest, kept, pool, written>>,
           SendHeader(r)
    PROVE  Keeps(r)
<1> USE DEF IInv, TypeOK
<1>1. /\ sent' \in [Requests -> [status : Statuses, header : Headers] \cup {None}]
      /\ sent'[r] # None
      /\ sent[r] = None => sent'[r].header = header'[r]
      /\ sent[r] # None => sent'[r] = sent[r]
      /\ \A s \in Requests \ {r} : sent'[s] = sent[s]
    BY HeaderSent
<1>2. TypeOK'
    BY <1>1
<1>3. OneOwner'
    BY DEF OneOwner
<1>4. Frame(r)
    BY <1>1 DEF Frame
<1>5. Fits(r)
    OBVIOUS
<1>6. WriterFits(r)'
    BY <1>5 DEF Fits, WriterFits, Undecided
<1>7. Body(r)' = Body(r) /\ w'[r] = w[r] /\ wire'[r] = wire[r]
    BY DEF Body
<1>8. NothingLost(r)' /\ OneEncoding(r)'
    BY <1>5, <1>7 DEF Fits, NothingLost, OneEncoding, Undecided, Direct
<1>9. FlushedIsOut(r)'
    <2>1. Direct(r) => Len(wire[r]) = written[r]
        <3>1. Body(r) \in Seq(Units) /\ Len(Body(r)) = written[r]
            BY BodySeq
        <3>2. Len(Coded(Body(r), "raw")) = written[r]
            BY <3>1, CodedSeq
        <3> QED
            BY <1>5, <3>2 DEF Fits, NothingLost
    <2>2. Len(wire[r]) >= flushed[r] /\ written[r] \in Nat
        BY <1>5 DEF Fits, FlushedIsOut
    <2> QED
        BY <2>1, <2>2 DEF FlushedIsOut
<1>10. HeaderFits(r)'
    BY <1>1, <1>5, <1>7 DEF Fits, HeaderFits, Undecided
<1> QED
    BY <1>2, <1>3, <1>4, <1>6, <1>8, <1>9, <1>10 DEF Keeps, Fits

(* What is held back goes out raw, with what the handler adds to it.       *)
LEMMA RawGoes ==
    ASSUME IInv, NEW r \in Requests, NEW new \in Seq(Units),
           phase[r] \in {"handler", "finished"}, ~w[r].compress,
           phase' = phase
             \/ (phase[r] = "handler" /\ phase' = [phase EXCEPT ![r] = "finished"]),
           w' = IF Undecided(r)
                THEN [w EXCEPT ![r] = [@ EXCEPT !.buf = <<>>, !.decided = TRUE]] ELSE w,
           UNCHANGED <<status, header, dest, kept, pool>>,
           written' \in [Requests -> 0..MaxUnits],
           \A s \in Requests \ {r} : written'[s] = written[s],
           Body(r)' = Body(r) \o new,
           flushed' = flushed
             \/ (new = <<>> /\ flushed' = [flushed EXCEPT ![r] = written[r]]),
           InnerWrite(r, w[r].buf \o new)
    PROVE  Keeps(r)
<1> USE DEF IInv, TypeOK
<1>1. /\ sent' \in [Requests -> [status : Statuses, header : Headers] \cup {None}]
      /\ sent'[r] # None
      /\ sent[r] = None => sent'[r].header = header'[r]
      /\ sent[r] # None => sent'[r] = sent[r]
      /\ \A s \in Requests \ {r} : sent'[s] = sent[s]
    BY HeaderSent DEF InnerWrite
<1>2. Fits(r)
    OBVIOUS
<1>3. /\ w' \in [Requests -> [wraps : BOOLEAN, buf : Seq(Units), decided : BOOLEAN,
                              compress : BOOLEAN, gz : Compressors \cup {None}]]
      /\ w'[r].buf = <<>> /\ w'[r].wraps = w[r].wraps
      /\ w'[r].compress = w[r].compress /\ w'[r].gz = w[r].gz
      /\ w'[r].decided = w[r].wraps
      /\ \A s \in Requests \ {r} : w'[s] = w[s]
    <2>1. ~Undecided(r) => w[r].buf = <<>>
        BY <1>2 DEF Fits, WriterFits
    <2>2. w[r].decided => w[r].wraps
        BY <1>2 DEF Fits, WriterFits
    <2>3. CASE Undecided(r)
        <3> DEFINE e == [w[r] EXCEPT !.buf = <<>>, !.decided = TRUE]
        <3> HIDE DEF IInv, TypeOK
        <3>1. w[r] \in Writers /\ <<>> \in Seq(Units)
            BY WriterTyped, EmptySeq DEF IInv
        <3>2. /\ e \in Writers /\ e.buf = <<>> /\ e.wraps = w[r].wraps
              /\ e.compress = w[r].compress /\ e.gz = w[r].gz /\ e.decided
            BY <3>1 DEF Writers
        <3>3. w' = [w EXCEPT ![r] = e]
            BY <2>3
        <3> HIDE DEF e
        <3>4. /\ w' \in [Requests -> Writers] /\ w'[r] = e
              /\ \A s \in Requests \ {r} : w'[s] = w[s]
            BY <3>2, <3>3, WriterChanged DEF IInv
        <3> QED
            BY <2>3, <3>2, <3>4 DEF Undecided, Writers
    <2>4. CASE ~Undecided(r)
        <3>1. w' = w
            BY <2>4
        <3>2. w[r].buf = <<>> /\ w[r].decided = w[r].wraps
            <4>1. w[r] \in Writers
                BY WriterTyped
            <4> HIDE DEF IInv, TypeOK
            <4> QED
                BY <2>1, <2>2, <2>4, <4>1 DEF Undecided, Writers
        <3>3. w \in [Requests -> Writers]
            BY DEF Writers
        <3> HIDE DEF IInv, TypeOK
        <3> QED
            BY <3>1, <3>2, <3>3 DEF Writers
    <2> QED
        BY <2>3, <2>4
<1>4. w[r].gz = None /\ ~w'[r].compress
    BY <1>2, <1>3 DEF Fits, WriterFits
<1>5. WriterFits(r)'
    BY <1>2, <1>3, <1>4 DEF Fits, WriterFits, Undecided
<1>6. wire'[r] = Coded(Body(r)', "raw")
    <2>1. /\ Body(r) \in Seq(Units) /\ Body(r)' \in Seq(Units)
          /\ <<>> \in Seq(Units)
        BY BodySeq, ConcatProperties, EmptySeq
    <2>2. wire'[r] = wire[r] \o Coded(w[r].buf \o new, "raw")
        BY DEF InnerWrite
    <2>3. CASE Undecided(r)
        <3>1. wire[r] = <<>> /\ w[r].buf = Body(r)
            BY <1>2, <2>3 DEF Fits, NothingLost
        <3>2. wire'[r] = <<>> \o Coded(Body(r)', "raw")
            BY <2>2, <3>1
        <3>3. Coded(Body(r)', "raw") \in Seq(Units \X {"raw"})
            BY <2>1, CodedSeq
        <3> QED
            BY <3>2, <3>3, ConcatEmptySeq
    <2>4. CASE ~Undecided(r)
        <3>1. w[r].buf = <<>> /\ Direct(r)
            BY <1>2, <2>4 DEF Fits, WriterFits, Undecided, Direct
        <3>2. wire[r] = Coded(Body(r), "raw")
            BY <1>2, <3>1 DEF Fits, NothingLost
        <3>3. w[r].buf \o new = new
            BY <3>1, ConcatEmptySeq
        <3>4. wire'[r] = Coded(Body(r), "raw") \o Coded(new, "raw")
            BY <2>2, <3>2, <3>3
        <3>5. Coded(Body(r) \o new, "raw") = Coded(Body(r), "raw") \o Coded(new, "raw")
            <4> DEFINE x == Body(r)
            <4>1. x \in Seq(Units)
                BY <2>1
            <4> HIDE DEF x, IInv, TypeOK
            <4>2. Coded(x \o new, "raw") = Coded(x, "raw") \o Coded(new, "raw")
                BY <4>1, CodedConcat
            <4> QED
                BY <4>2 DEF x
        <3> QED
            BY <3>4, <3>5
    <2> QED
        BY <2>3, <2>4
<1>7. /\ wire'[r] \in Seq(Units \X {"raw"})
      /\ Len(wire'[r]) = Len(Body(r)')
      /\ \A s \in Requests \ {r} : wire'[s] = wire[s]
      /\ wire' = [s \in Requests |-> wire'[s]]
    <2>1. Body(r)' \in Seq(Units)
        BY BodySeq, ConcatProperties
    <2>2. /\ \A s \in Requests \ {r} : wire'[s] = wire[s]
          /\ wire' = [s \in Requests |-> wire'[s]]
        BY DEF InnerWrite
    <2>3. /\ Coded(Body(r)', "raw") \in Seq(Units \X {"raw"})
          /\ Len(Coded(Body(r)', "raw")) = Len(Body(r)')
        BY <2>1, CodedSeq
    <2> QED
        BY <1>6, <2>2, <2>3
<1>8. wire' \in [Requests -> Seq(Codes)]
    <2>1. Units \X {"raw"} \subseteq Codes
        BY DEF Codes
    <2>2. wire'[r] \in Seq(Codes)
        BY <1>7, <2>1, SeqMonotonic
    <2> QED
        BY <1>7, <2>2
<1>9. TypeOK'
    <2>1. Len(w'[r].buf) < MinLength
        BY <1>3, EmptySeq, GzipAssumption
    <2>2. \A s \in Requests : Len(w'[s].buf) < MinLength
        BY <1>3, <2>1
    <2> QED
        BY <1>1, <1>3, <1>8, <2>2
<1>10. OneOwner'
    <2>1. \A s \in Requests : w'[s].gz = w[s].gz
        BY <1>3
    <2> QED
        BY <2>1 DEF OneOwner
<1>11. Frame(r)
    BY <1>1, <1>3, <1>7 DEF Frame
<1>12. OneEncoding(r)'
    BY <1>4, <1>7 DEF OneEncoding
<1>13. NothingLost(r)'
    BY <1>3, <1>4, <1>6 DEF NothingLost, Undecided, Direct
<1>14. FlushedIsOut(r)'
    <2>1. Len(Body(r)) = written[r] /\ Body(r) \in Seq(Units)
        BY BodySeq
    <2>2. Len(Body(r)') >= Len(Body(r)) /\ Len(Body(r)) \in Nat
        BY <2>1, ConcatProperties, LenProperties
    <2>3. Len(wire[r]) <= Len(Body(r))
        <3>1. CASE Undecided(r)
            BY <1>2, <2>2, <3>1, EmptySeq DEF Fits, NothingLost
        <3>2. CASE ~Undecided(r)
            <4>1. wire[r] = Coded(Body(r), "raw")
                BY <1>2, <3>2 DEF Fits, NothingLost, Undecided, Direct
            <4>2. Len(Coded(Body(r), "raw")) = Len(Body(r))
                BY <2>1, CodedSeq
            <4> QED
                BY <2>2, <4>1, <4>2
        <3> QED
            BY <3>1, <3>2
    <2>4. Len(wire[r]) >= flushed[r] /\ flushed[r] \in Nat
        BY <1>2 DEF Fits, FlushedIsOut
    <2>5. Len(wire[r]) \in Nat
        BY LenProperties
    <2> QED
        BY <1>7, <2>1, <2>2, <2>3, <2>4, <2>5 DEF FlushedIsOut
<1>15. HeaderFits(r)'
    BY <1>1, <1>2, <1>3, <1>4 DEF Fits, HeaderFits, Undecided
<1> QED
    BY <1>5, <1>9, <1>10, <1>11, <1>12, <1>13, <1>14, <1>15 DEF Keeps, Fits

(* A compressor lets out all or nothing of what it has and is given: one   *)
(* at work, or one fresh from the pool.                                    *)
LEMMA PackGoes ==
    ASSUME IInv, NEW r \in Requests, NEW z \in Compressors, NEW new \in Seq(Units),
           NEW u, NEW m \in {0, Len(u)},
           phase[r] = "handler", UNCHANGED <<phase, status>>,
           \/ /\ w[r].compress /\ w[r].gz = z
              /\ UNCHANGED <<header, w, dest, pool>>
              /\ u = kept[z] \o new
           \/ /\ Undecided(r) /\ Decide(r, z)
              /\ u = w[r].buf \o new,
           Pack(z, u, m),
           written' \in [Requests -> 0..MaxUnits],
           \A s \in Requests \ {r} : written'[s] = written[s],
           Body(r)' = Body(r) \o new,
           flushed' = flushed
             \/ (m = Len(u) /\ new = <<>> /\ flushed' = [flushed EXCEPT ![r] = written[r]])
    PROVE  Keeps(r)
<1> USE DEF IInv, TypeOK
<1>1. Fits(r)
    OBVIOUS
<1>2. /\ dest'[z] = r
      /\ dest' = [y \in Compressors |-> IF y = z THEN r ELSE dest[y]]
      /\ pool' = pool \ {z}
      /\ \A s \in Requests \ {r} : w[s].gz # z /\ w'[s] = w[s] /\ header'[s] = header[s]
      /\ w' \in [Requests -> [wraps : BOOLEAN, buf : Seq(Units), decided : BOOLEAN,
                              compress : BOOLEAN, gz : Compressors \cup {None}]]
      /\ w'[r].buf = <<>> /\ w'[r].wraps = w[r].wraps /\ w'[r].compress
      /\ w'[r].gz = z /\ w'[r].decided
      /\ header' \in [Requests -> Headers]
      /\ header'[r].encoding = "gzip" /\ ~header'[r].length
      /\ sent[r] # None => header'[r] = header[r]
    <2>1. CASE w[r].compress /\ w[r].gz = z /\ UNCHANGED <<header, w, dest, pool>>
        <3>1. /\ z \notin pool /\ dest[z] = r /\ w[r].decided /\ w[r].buf = <<>>
              /\ \A s \in Requests \ {r} : w[s].gz # z
            BY <2>1, Handling, GzipAssumption
        <3>2. /\ w' = w /\ w[r].buf = <<>> /\ w[r].compress /\ w[r].gz = z
              /\ w[r].decided
            BY <2>1, <3>1
        <3>3. header[r].encoding = "gzip" /\ ~header[r].length
            BY <1>1, <2>1 DEF Fits, HeaderFits
        <3>4. /\ dest' = [y \in Compressors |-> IF y = z THEN r ELSE dest[y]]
              /\ dest'[z] = r /\ pool' = pool \ {z}
            BY <2>1, <3>1
        <3>5. header' = header /\ header' \in [Requests -> Headers]
            BY <2>1
        <3> QED
            BY <2>1, <3>1, <3>2, <3>3, <3>4, <3>5
    <2>2. CASE Undecided(r) /\ Decide(r, z)
        <3>1. z \in pool /\ \A s \in Requests : w[s].gz # z
            BY <2>2 DEF Decide, OneOwner
        <3>2. sent[r] = None
            BY <1>1, <2>2 DEF Fits, HeaderFits
        <3>3. header' = [header EXCEPT ![r] =
                            [header[r] EXCEPT !.encoding = "gzip", !.length = FALSE]]
            BY <2>2 DEF Decide
        <3>4. header[r] \in Headers
            OBVIOUS
        <3>5. /\ [header[r] EXCEPT !.encoding = "gzip", !.length = FALSE] \in Headers
              /\ [header[r] EXCEPT !.encoding = "gzip", !.length = FALSE].encoding = "gzip"
              /\ ~[header[r] EXCEPT !.encoding = "gzip", !.length = FALSE].length
            BY <3>4 DEF Headers
        <3>6. w' = [w EXCEPT ![r] = [w[r] EXCEPT !.buf = <<>>, !.decided = TRUE,
                                                !.compress = TRUE, !.gz = z]]
            BY <2>2 DEF Decide
        <3>7. dest' = [dest EXCEPT ![z] = r] /\ pool' = pool \ {z}
            BY <2>2 DEF Decide
        <3>8. /\ w' \in [Requests -> [wraps : BOOLEAN, buf : Seq(Units), decided : BOOLEAN,
                                      compress : BOOLEAN, gz : Compressors \cup {None}]]
              /\ w'[r].buf = <<>> /\ w'[r].wraps = w[r].wraps /\ w'[r].compress
              /\ w'[r].gz = z /\ w'[r].decided
              /\ \A s \in Requests \ {r} : w'[s] = w[s]
            <4> DEFINE e == [w[r] EXCEPT !.buf = <<>>, !.decided = TRUE,
                                         !.compress = TRUE, !.gz = z]
            <4>1. /\ e \in [wraps : BOOLEAN, buf : Seq(Units), decided : BOOLEAN,
                            compress : BOOLEAN, gz : Compressors \cup {None}]
                  /\ e.buf = <<>> /\ e.wraps = w[r].wraps /\ e.compress
                  /\ e.gz = z /\ e.decided
                <5>1. w[r] \in [wraps : BOOLEAN, buf : Seq(Units), decided : BOOLEAN,
                                compress : BOOLEAN, gz : Compressors \cup {None}]
                    OBVIOUS
                <5>2. <<>> \in Seq(Units)
                    BY EmptySeq
                <5> HIDE DEF IInv, TypeOK
                <5> QED
                    BY <5>1, <5>2
            <4>2. w' = [w EXCEPT ![r] = e]
                BY <3>6
            <4> HIDE DEF e
            <4> QED
                BY <4>1, <4>2
        <3>9. /\ header' \in [Requests -> Headers]
              /\ header'[r].encoding = "gzip" /\ ~header'[r].length
              /\ \A s \in Requests \ {r} : header'[s] = header[s]
            BY <3>3, <3>5
        <3>10. /\ dest' = [y \in Compressors |-> IF y = z THEN r ELSE dest[y]]
               /\ dest'[z] = r
            BY <3>7
        <3> QED
            BY <3>1, <3>2, <3>7, <3>8, <3>9, <3>10
    <2> QED
        BY <2>1, <2>2
<1>3. /\ u \in Seq(Units) /\ wire[r] \in Seq(Packed)
      /\ wire[r] \o Coded(u, "gzip") = Coded(Body(r)', "gzip")
    <2>1. Body(r) \in Seq(Units) /\ kept[z] \in Seq(Units)
        BY BodySeq
    <2>2. CASE w[r].compress /\ w[r].gz = z /\ u = kept[z] \o new
        <3>1. wire[r] \in Seq(Packed)
            BY <1>1, <2>2 DEF Fits, OneEncoding
        <3>2. wire[r] \o Coded(kept[z], "gzip") = Coded(Body(r), "gzip")
            BY <1>1, <2>2, GzipAssumption DEF Fits, NothingLost
        <3> HIDE DEF IInv, TypeOK
        <3>3. /\ u \in Seq(Units)
              /\ wire[r] \o Coded(u, "gzip") = Coded(Body(r), "gzip") \o Coded(new, "gzip")
            <4> DEFINE x == wire[r]
                       k == kept[z]
            <4>1. x \in Seq(Packed) /\ k \in Seq(Units)
                BY <2>1, <3>1
            <4> HIDE DEF x, k
            <4>2. /\ k \o new \in Seq(Units)
                  /\ x \o Coded(k \o new, "gzip") = (x \o Coded(k, "gzip")) \o Coded(new, "gzip")
                BY <4>1, PackedConcat
            <4> QED
                BY <2>2, <3>2, <4>2 DEF x, k
        <3>4. Coded(Body(r)', "gzip") = Coded(Body(r), "gzip") \o Coded(new, "gzip")
            BY <2>1, CodedConcat
        <3> QED
            BY <3>1, <3>3, <3>4
    <2>3. CASE Undecided(r) /\ u = w[r].buf \o new
        <3>1. wire[r] = <<>> /\ w[r].buf = Body(r)
            BY <1>1, <2>3 DEF Fits, NothingLost
        <3>2. u \in Seq(Units) /\ u = Body(r)'
            BY <2>1, <2>3, <3>1, ConcatProperties
        <3>3. Coded(u, "gzip") \in Seq(Units \X {"gzip"})
            BY <3>2, CodedSeq
        <3>4. <<>> \o Coded(u, "gzip") = Coded(u, "gzip")
            BY <3>3, ConcatEmptySeq
        <3> QED
            BY <3>1, <3>2, <3>4, EmptySeq
    <2> QED
        BY <2>2, <2>3
<1> DEFINE out == SubSeq(u, 1, m)
           in == SubSeq(u, m + 1, Len(u))
<1>4. /\ out \in Seq(Units) /\ in \in Seq(Units)
      /\ wire[r] \o Coded(out, "gzip") \in Seq(Packed)
      /\ Len(wire[r] \o Coded(out, "gzip")) >= Len(wire[r])
      /\ (wire[r] \o Coded(out, "gzip")) \o Coded(in, "gzip") = Coded(Body(r)', "gzip")
    <2> DEFINE x == wire[r]
    <2>1. x \in Seq(Packed) /\ u \in Seq(Units)
        BY <1>3
    <2> HIDE DEF x, IInv, TypeOK
    <2>2. /\ out \in Seq(Units) /\ in \in Seq(Units)
          /\ x \o Coded(out, "gzip") \in Seq(Packed)
          /\ Len(x \o Coded(out, "gzip")) >= Len(x)
          /\ (x \o Coded(out, "gzip")) \o Coded(in, "gzip") = x \o Coded(u, "gzip")
        <3>1. PackOrdered(x, u, m)
            BY <2>1, PackKeepsOrder
        <3> QED
            BY <3>1 DEF PackOrdered
    <2> QED
        BY <1>3, <2>2 DEF x
<1>5. /\ wire' = [wire EXCEPT ![r] = @ \o Coded(out, "gzip")]
      /\ kept' = [kept EXCEPT ![z] = in]
      /\ SendHeader(r)
    BY <1>2 DEF Pack
<1>6. m = Len(u) => in = <<>>
    <2>1. Len(u) \in Nat
        BY <1>3, LenProperties
    <2> QED
        BY <2>1, SubSeqEmpty
<1> HIDE DEF out, in
<1>7. /\ wire'[r] = wire[r] \o Coded(out, "gzip")
      /\ \A s \in Requests \ {r} : wire'[s] = wire[s]
      /\ kept'[z] = in /\ kept' \in [Compressors -> Seq(Units)]
      /\ \A y \in Compressors \ {z} : kept'[y] = kept[y]
    BY <1>4, <1>5
<1>8. wire' \in [Requests -> Seq(Codes)]
    <2>1. Packed \subseteq Codes
        BY DEF Packed, Codes
    <2>2. wire'[r] \in Seq(Codes)
        BY <1>4, <1>7, <2>1, SeqMonotonic
    <2> QED
        BY <1>5, <1>7, <2>2
<1>9. /\ sent' \in [Requests -> [status : Statuses, header : Headers] \cup {None}]
      /\ sent'[r] # None
      /\ sent[r] = None => sent'[r].header = header'[r]
      /\ sent[r] # None => sent'[r] = sent[r]
      /\ \A s \in Requests \ {r} : sent'[s] = sent[s]
    BY <1>2, <1>5, HeaderSent
<1>10. /\ w'[r].buf = <<>> /\ w'[r].wraps = w[r].wraps /\ w'[r].compress
       /\ w'[r].gz = z /\ w'[r].decided
    BY <1>2
<1>11. w[r].wraps
    BY <1>1 DEF Fits, WriterFits, Undecided
<1>12. TypeOK'
    <2>1. \A s \in Requests : Len(w'[s].buf) < MinLength
        <3>1. Len(w'[r].buf) < MinLength
            BY <1>10, EmptySeq, GzipAssumption
        <3>2. \A s \in Requests \ {r} : w'[s] = w[s]
            BY <1>2
        <3>3. \A s \in Requests : Len(w[s].buf) < MinLength
            OBVIOUS
        <3> QED
            BY <3>1, <3>2, <3>3
    <2>2. /\ dest' \in [Compressors -> Requests \cup {None}]
          /\ pool' \subseteq Compressors
        BY <1>2
    <2>3. flushed' \in [Requests -> 0..MaxUnits]
        OBVIOUS
    <2>4. /\ phase' \in [Requests -> {"idle", "handler", "finished", "ended", "dead"}]
          /\ status' \in [Requests -> Statuses]
        OBVIOUS
    <2> QED
        BY <1>2, <1>7, <1>8, <1>9, <2>1, <2>2, <2>3, <2>4
<1>13. OneOwner'
    <2>1. \A s \in Requests \ {r} : w'[s].gz = w[s].gz /\ w[s].gz # z
        BY <1>2
    <2>2. w'[r].gz = z /\ w[r].gz \in {None, z} /\ None \notin Compressors
        BY <1>1, <1>10, GzipAssumption DEF Fits, WriterFits, Undecided
    <2>3. \A y \in Compressors \ {z} :
              /\ dest'[y] = dest[y] /\ kept'[y] = kept[y]
              /\ y \in pool' <=> y \in pool
        BY <1>2, <1>7
    <2>4. dest'[z] = r /\ z \notin pool'
        BY <1>2
    <2>5. \A s \in Requests, y \in Compressors \ {z} : w'[s].gz = y <=> w[s].gz = y
        BY <2>1, <2>2
    <2>6. \A s \in Requests : w'[s].gz = z <=> dest'[z] = s
        BY <2>1, <2>2, <2>4
    <2>7. ASSUME NEW y \in Compressors, y \in pool'
          PROVE  dest'[y] = None /\ kept'[y] = <<>> /\ \A s \in Requests : w'[s].gz # y
        <3>1. y \in Compressors \ {z} /\ y \in pool
            BY <2>3, <2>4, <2>7
        <3>2. dest[y] = None /\ kept[y] = <<>> /\ \A s \in Requests : w[s].gz # y
            BY <3>1 DEF OneOwner
        <3> QED
            BY <2>3, <2>5, <3>1, <3>2
    <2>8. ASSUME NEW y \in Compressors, y \notin pool', NEW s \in Requests
          PROVE  w'[s].gz = y <=> dest'[y] = s
        <3>1. CASE y = z
            BY <2>6, <3>1
        <3>2. CASE y # z
            <4>1. y \notin pool /\ dest'[y] = dest[y]
                BY <2>3, <2>8, <3>2
            <4>2. w[s].gz = y <=> dest[y] = s
                BY <4>1 DEF OneOwner
            <4> QED
                BY <2>5, <3>2, <4>1, <4>2
        <3> QED
            BY <3>1, <3>2
    <2> QED
        BY <2>7, <2>8 DEF OneOwner
<1>14. Frame(r)
    BY <1>2, <1>7, <1>9 DEF Frame
<1>15. WriterFits(r)'
    BY <1>10, <1>11, GzipAssumption DEF WriterFits, Undecided
<1>16. OneEncoding(r)'
    BY <1>4, <1>7, <1>10 DEF OneEncoding
<1>17. NothingLost(r)'
    <2>1. ~Undecided(r)' /\ ~Direct(r)'
        BY <1>10, <1>11 DEF Undecided, Direct
    <2> QED
        BY <1>4, <1>7, <1>10, <2>1 DEF NothingLost
<1>18. FlushedIsOut(r)'
    <2>1. Len(wire[r]) >= flushed[r] /\ flushed[r] \in Nat /\ Len(wire[r]) \in Nat
        BY <1>1, <1>3, LenProperties DEF Fits, FlushedIsOut
    <2>2. Len(wire'[r]) \in Nat /\ Len(wire'[r]) >= Len(wire[r])
        BY <1>4, <1>7, LenProperties
    <2>3. ASSUME m = Len(u), new = <<>> PROVE Len(wire'[r]) = written[r]
        <3>1. in = <<>>
            BY <1>6, <2>3
        <3>2. wire'[r] \o <<>> = Coded(Body(r)', "gzip")
            BY <1>4, <1>7, <3>1, CodedEmpty
        <3>3. wire'[r] = Coded(Body(r)', "gzip")
            BY <1>4, <1>7, <3>2, ConcatEmptySeq
        <3>4. Body(r) \in Seq(Units) /\ Len(Body(r)) = written[r]
            BY BodySeq
        <3>5. Body(r)' = Body(r)
            BY <2>3, <3>4, ConcatEmptySeq
        <3>6. Len(Coded(Body(r), "gzip")) = Len(Body(r))
            BY <3>4, CodedSeq
        <3> QED
            BY <3>3, <3>4, <3>5, <3>6
    <2> QED
        BY <2>1, <2>2, <2>3 DEF FlushedIsOut
<1>19. HeaderFits(r)'
    BY <1>1, <1>2, <1>9, <1>10 DEF Fits, HeaderFits, Undecided
<1> QED
    BY <1>12, <1>13, <1>14, <1>15, <1>16, <1>17, <1>18, <1>19 DEF Keeps, Fits

(* What is held back grows, and stays shorter than MinLength.              *)
LEMMA HeldStep ==
    ASSUME IInv, NEW r \in Requests, NEW n \in 1..MaxUnits, WriteHeld(r, n)
    PROVE  Keeps(r)
<1> USE DEF IInv, TypeOK
<1>1. Fits(r) /\ Undecided(r) /\ phase[r] = "handler" /\ written[r] + n <= MaxUnits
    BY DEF WriteHeld, Produce
<1>2. /\ NextUnits(r, n) \in Seq(Units) /\ Len(NextUnits(r, n)) = n
      /\ Body(r)' = Body(r) \o NextUnits(r, n)
      /\ written' \in [Requests -> 0..MaxUnits]
      /\ \A s \in Requests \ {r} : written'[s] = written[s]
    <2>1. n \in Nat /\ written' = [written EXCEPT ![r] = @ + n]
        BY GzipAssumption DEF WriteHeld, Produce
    <2>2. \A s \in Requests \ {r} : written'[s] = written[s]
        BY <2>1
    <2> QED
        BY <1>1, <2>1, <2>2, BodyGrows
<1>3. wire[r] = <<>> /\ w[r].buf = Body(r)
    BY <1>1 DEF Fits, NothingLost
<1> DEFINE held == w[r].buf \o NextUnits(r, n)
<1>4. /\ held \in Seq(Units) /\ Len(held) = Len(w[r].buf) + n
      /\ held = Body(r)' /\ Len(held) < MinLength
    <2> DEFINE x == w[r].buf
               y == NextUnits(r, n)
    <2>1. x \in Seq(Units) /\ y \in Seq(Units) /\ Len(y) = n /\ x = Body(r)
        BY <1>2, <1>3
    <2>2. Len(x) + n < MinLength
        BY DEF WriteHeld
    <2> HIDE DEF x, y, IInv, TypeOK
    <2>3. x \o y \in Seq(Units) /\ Len(x \o y) = Len(x) + Len(y)
        BY <2>1, ConcatProperties
    <2> QED
        BY <1>2, <1>3, <2>1, <2>2, <2>3 DEF x, y
<1>5. w' = [w EXCEPT ![r].buf = held]
    BY DEF WriteHeld
<1> HIDE DEF held
<1>6. /\ w' \in [Requests -> [wraps : BOOLEAN, buf : Seq(Units), decided : BOOLEAN,
                              compress : BOOLEAN, gz : Compressors \cup {None}]]
      /\ w'[r].buf = held /\ w'[r].wraps = w[r].wraps /\ w'[r].compress = w[r].compress
      /\ w'[r].gz = w[r].gz /\ w'[r].decided = w[r].decided
      /\ \A s \in Requests \ {r} : w'[s] = w[s]
    BY <1>4, <1>5
<1>7. TypeOK'
    <2>1. \A s \in Requests : Len(w'[s].buf) < MinLength
        BY <1>4, <1>6
    <2> QED
        BY <1>2, <1>6, <2>1 DEF WriteHeld, Produce
<1>8. OneOwner'
    <2>1. \A s \in Requests : w'[s].gz = w[s].gz
        BY <1>6
    <2> QED
        BY <2>1 DEF WriteHeld, OneOwner
<1>9. Frame(r)
    BY <1>2, <1>6 DEF WriteHeld, Produce, Frame
<1>10. phase' = phase /\ wire' = wire /\ sent' = sent /\ header' = header /\ flushed' = flushed
    BY DEF WriteHeld, Produce
<1>11. Undecided(r)' /\ ~Direct(r)'
    BY <1>1, <1>6 DEF Undecided, Direct
<1>12. WriterFits(r)' /\ OneEncoding(r)' /\ FlushedIsOut(r)'
    BY <1>1, <1>6, <1>10, <1>11 DEF Fits, WriterFits, OneEncoding, FlushedIsOut, Undecided
<1>13. NothingLost(r)'
    <2>1. ~w'[r].compress /\ w'[r].gz = None
        BY <1>1, <1>6 DEF Fits, WriterFits, Undecided
    <2> QED
        BY <1>3, <1>4, <1>6, <1>10, <1>11, <2>1 DEF NothingLost
<1>14. HeaderFits(r)'
    BY <1>1, <1>6, <1>10 DEF Fits, HeaderFits, Undecided
<1> QED
    BY <1>7, <1>8, <1>9, <1>12, <1>13, <1>14 DEF Keeps, Fits

(* A compressor is closed and goes back to the pool.                       *)
LEMMA CloseStep ==
    ASSUME IInv, NEW r \in Requests, phase[r] = "handler", w[r].compress,
           phase' = [phase EXCEPT ![r] = "finished"],
           PutBack(r, w[r].gz),
           UNCHANGED <<status, header, sent, written, flushed>>
    PROVE  Keeps(r)
<1> USE DEF IInv, TypeOK
<1> DEFINE z == w[r].gz
           k == kept[z]
<1>1. Fits(r)
    OBVIOUS
<1>2. /\ z \in Compressors \ pool /\ dest[z] = r
      /\ w[r].decided /\ w[r].wraps /\ w[r].buf = <<>>
      /\ \A s \in Requests \ {r} : w[s].gz # z
    BY Handling, GzipAssumption
<1>3. /\ wire' = [wire EXCEPT ![r] = Append(wire[r] \o Coded(k, "gzip"), Trailer)]
      /\ kept' = [kept EXCEPT ![z] = <<>>]
      /\ pool' = pool \cup {z}
      /\ w' = [w EXCEPT ![r].gz = None]
      /\ dest' = [dest EXCEPT ![z] = None]
    BY <1>2 DEF PutBack, CloseCompressor
<1>4. /\ wire[r] \in Seq(Packed) /\ k \in Seq(Units)
      /\ wire[r] \o Coded(k, "gzip") = Coded(Body(r), "gzip")
    BY <1>1, <1>2, GzipAssumption DEF Fits, NothingLost, OneEncoding
<1>5. /\ wire'[r] = Append(Coded(Body(r), "gzip"), Trailer)
      /\ \A s \in Requests \ {r} : wire'[s] = wire[s]
      /\ wire' = [s \in Requests |-> wire'[s]]
    BY <1>3, <1>4
<1>6. /\ wire'[r] \in Seq(Packed) /\ wire'[r] # <<>>
      /\ Len(wire'[r]) >= Len(wire[r]) /\ Len(wire[r]) \in Nat /\ Len(wire'[r]) \in Nat
    <2> DEFINE x == wire[r]
               y == Coded(k, "gzip")
    <2>1. x \in Seq(Packed) /\ y \in Seq(Units \X {"gzip"})
        <3>1. k \in Seq(Units)
            BY <1>4
        <3> HIDE DEF k
        <3>2. Coded(k, "gzip") \in Seq(Units \X {"gzip"})
            BY <3>1, CodedSeq
        <3> QED
            BY <1>4, <3>2
    <2>2. Units \X {"gzip"} \subseteq Packed /\ Trailer \in Packed
        BY DEF Packed
    <2>3. wire'[r] = Append(x \o y, Trailer)
        BY <1>4, <1>5
    <2> HIDE DEF x, y, IInv, TypeOK
    <2>4. y \in Seq(Packed)
        BY <2>1, <2>2, SeqMonotonic
    <2>5. x \o y \in Seq(Packed) /\ Len(x \o y) = Len(x) + Len(y)
        BY <2>1, <2>4, ConcatProperties
    <2>6. Len(x) \in Nat /\ Len(y) \in Nat
        BY <2>1, <2>4, LenProperties
    <2>7. /\ Append(x \o y, Trailer) \in Seq(Packed)
          /\ Len(Append(x \o y, Trailer)) = Len(x \o y) + 1
          /\ Append(x \o y, Trailer) # <<>>
        BY <2>2, <2>5, AppendProperties
    <2> QED
        BY <2>3, <2>5, <2>6, <2>7 DEF x
<1>7. wire' \in [Requests -> Seq(Codes)]
    <2>1. Packed \subseteq Codes
        BY DEF Packed, Codes
    <2>2. wire'[r] \in Seq(Codes)
        BY <1>6, <2>1, SeqMonotonic
    <2> QED
        BY <1>5, <2>2
<1>8. /\ w' \in [Requests -> [wraps : BOOLEAN, buf : Seq(Units), decided : BOOLEAN,
                              compress : BOOLEAN, gz : Compressors \cup {None}]]
      /\ w'[r].buf = <<>> /\ w'[r].wraps /\ w'[r].compress /\ w'[r].gz = None
      /\ w'[r].decided
      /\ \A s \in Requests \ {r} : w'[s] = w[s]
    <2> DEFINE e == [w[r] EXCEPT !.gz = None]
    <2>1. w' = [w EXCEPT ![r] = e]
        BY <1>3
    <2> HIDE DEF IInv, TypeOK, z
    <2>2. w[r] \in Writers
        BY WriterTyped DEF IInv
    <2>3. /\ e \in Writers
          /\ e.buf = w[r].buf /\ e.wraps = w[r].wraps /\ e.compress = w[r].compress
          /\ e.gz = None /\ e.decided = w[r].decided
        BY <2>2 DEF Writers
    <2> HIDE DEF e
    <2>4. /\ w' \in [Requests -> Writers] /\ w'[r] = e
          /\ \A s \in Requests \ {r} : w'[s] = w[s]
        BY <2>1, <2>3, WriterChanged DEF IInv
    <2> QED
        BY <1>2, <2>3, <2>4 DEF Writers
<1>9. /\ kept' \in [Compressors -> Seq(Units)] /\ kept'[z] = <<>>
      /\ \A y \in Compressors \ {z} : kept'[y] = kept[y] /\ dest'[y] = dest[y]
      /\ dest' \in [Compressors -> Requests \cup {None}] /\ dest'[z] = None
    BY <1>2, <1>3, EmptySeq
<1> HIDE DEF z, k
<1>10. phase'[r] = "finished" /\ \A s \in Requests \ {r} : phase'[s] = phase[s]
    OBVIOUS
<1>11. TypeOK'
    <2>1. \A s \in Requests : Len(w'[s].buf) < MinLength
        <3>1. Len(w'[r].buf) < MinLength
            BY <1>8, EmptySeq, GzipAssumption
        <3>2. \A s \in Requests \ {r} : w'[s] = w[s]
            BY <1>8
        <3>3. \A s \in Requests : Len(w[s].buf) < MinLength
            OBVIOUS
        <3> QED
            BY <3>1, <3>2, <3>3
    <2>2. pool' \subseteq Compressors
        BY <1>2, <1>3
    <2>3. phase' \in [Requests -> {"idle", "handler", "finished", "ended", "dead"}]
        OBVIOUS
    <2>4. /\ status' \in [Requests -> Statuses] /\ header' \in [Requests -> Headers]
          /\ sent' \in [Requests -> [status : Statuses, header : Headers] \cup {None}]
          /\ written' \in [Requests -> 0..MaxUnits] /\ flushed' \in [Requests -> 0..MaxUnits]
        OBVIOUS
    <2> QED
        BY <1>7, <1>8, <1>9, <2>1, <2>2, <2>3, <2>4
<1>12. OneOwner'
    <2>1. \A s \in Requests : w'[s].gz # z
        <3>1. w'[r].gz # z
            BY <1>2, <1>8, GzipAssumption
        <3>2. ASSUME NEW s \in Requests \ {r} PROVE w'[s].gz # z
            <4> HIDE DEF IInv, TypeOK
            <4> QED
                BY <1>2, <1>8
        <3> QED
            BY <3>1, <3>2
    <2>2. \A s \in Requests, y \in Compressors \ {z} : w'[s].gz = y <=> w[s].gz = y
        <3>1. w[r].gz = z
            BY DEF z
        <3>2. \A y \in Compressors : w'[r].gz # y
            BY <1>8, GzipAssumption
        <3>3. \A s \in Requests \ {r} : w'[s].gz = w[s].gz
            BY <1>8
        <3> QED
            BY <3>1, <3>2, <3>3
    <2>3. ASSUME NEW y \in Compressors, y \in pool'
          PROVE  dest'[y] = None /\ kept'[y] = <<>> /\ \A s \in Requests : w'[s].gz # y
        <3>1. CASE y = z
            BY <1>9, <2>1, <3>1
        <3>2. CASE y # z
            <4>1. y \in pool
                BY <1>3, <2>3, <3>2
            <4>2. dest[y] = None /\ kept[y] = <<>> /\ \A s \in Requests : w[s].gz # y
                BY <4>1 DEF OneOwner
            <4> QED
                BY <1>9, <2>2, <3>2, <4>2
        <3> QED
            BY <3>1, <3>2
    <2>4. ASSUME NEW y \in Compressors, y \notin pool', NEW s \in Requests
          PROVE  w'[s].gz = y <=> dest'[y] = s
        <3>1. y # z /\ y \notin pool
            BY <1>3, <2>4
        <3>2. w[s].gz = y <=> dest[y] = s
            BY <3>1 DEF OneOwner
        <3> QED
            BY <1>9, <2>2, <3>1, <3>2
    <2> QED
        BY <2>3, <2>4 DEF OneOwner
<1>13. Frame(r)
    <2>1. \A s \in Requests \ {r} : w'[s] = w[s] /\ wire'[s] = wire[s] /\ phase'[s] = phase[s]
        BY <1>5, <1>8, <1>10
    <2> QED
        BY <1>2, <1>9, <2>1, GzipAssumption DEF Frame
<1>14. ~Undecided(r)' /\ ~Direct(r)'
    BY <1>8 DEF Undecided, Direct
<1>15. WriterFits(r)' /\ OneEncoding(r)'
    BY <1>6, <1>8, <1>10, <1>14 DEF WriterFits, OneEncoding
<1>16. NothingLost(r)'
    <2>1. Body(r)' = Body(r)
        BY DEF Body
    <2> QED
        BY <1>5, <1>8, <1>14, <2>1 DEF NothingLost
<1>17. FlushedIsOut(r)'
    <2>1. Len(wire[r]) >= flushed[r] /\ flushed[r] \in Nat
        BY <1>1 DEF Fits, FlushedIsOut
    <2> QED
        BY <1>6, <2>1 DEF FlushedIsOut
<1>18. HeaderFits(r)'
    BY <1>1, <1>8, <1>10, <1>14 DEF Fits, HeaderFits
<1> QED
    BY <1>11, <1>12, <1>13, <1>15, <1>16, <1>17, <1>18 DEF Keeps, Fits

(* The steps that move no unit.                                            *)
LEMMA QuietStep ==
    ASSUME IInv, NEW r \in Requests,
           UNCHANGED <<header, sent, wire, dest, kept, pool, flushed>>,
           \/ /\ status' \in [Requests -> Statuses]
              /\ UNCHANGED <<phase, w, written>>
           \/ /\ phase[r] = "handler" /\ Direct(r)
              /\ phase' = [phase EXCEPT ![r] = "finished"]
              /\ UNCHANGED <<status, w, written>>
           \/ /\ phase[r] = "handler" /\ Undecided(r) /\ w[r].buf = <<>>
              /\ phase' = [phase EXCEPT ![r] = "finished"]
              /\ w' = [w EXCEPT ![r] = [@ EXCEPT !.buf = <<>>, !.decided = TRUE]]
              /\ UNCHANGED <<status, written>>
           \/ /\ phase[r] = "finished" /\ w[r].compress
              /\ phase' = [phase EXCEPT ![r] = "dead"]
              /\ written' \in [Requests -> 0..MaxUnits]
              /\ \A s \in Requests \ {r} : written'[s] = written[s]
              /\ UNCHANGED <<status, w>>
    PROVE  Keeps(r)
<1> USE DEF IInv, TypeOK
<1>1. Fits(r)
    OBVIOUS
<1>2. /\ w' \in [Requests -> [wraps : BOOLEAN, buf : Seq(Units), decided : BOOLEAN,
                              compress : BOOLEAN, gz : Compressors \cup {None}]]
      /\ w'[r].buf = w[r].buf /\ w'[r].wraps = w[r].wraps /\ w'[r].compress = w[r].compress
      /\ w'[r].gz = w[r].gz
      /\ \A s \in Requests \ {r} : w'[s] = w[s]
    <2>1. CASE w' = w
        <3>1. w \in [Requests -> [wraps : BOOLEAN, buf : Seq(Units), decided : BOOLEAN,
                                  compress : BOOLEAN, gz : Compressors \cup {None}]]
            OBVIOUS
        <3> HIDE DEF IInv, TypeOK
        <3> QED
            BY <2>1, <3>1
    <2>2. CASE /\ w' = [w EXCEPT ![r] = [@ EXCEPT !.buf = <<>>, !.decided = TRUE]]
               /\ phase[r] = "handler" /\ Undecided(r) /\ w[r].buf = <<>>
        <3> DEFINE e == [w[r] EXCEPT !.buf = <<>>, !.decided = TRUE]
        <3>1. /\ e \in [wraps : BOOLEAN, buf : Seq(Units), decided : BOOLEAN,
                        compress : BOOLEAN, gz : Compressors \cup {None}]
              /\ e.buf = <<>> /\ e.wraps = w[r].wraps /\ e.compress = w[r].compress
              /\ e.gz = w[r].gz /\ e.decided
            <4>1. w[r] \in [wraps : BOOLEAN, buf : Seq(Units), decided : BOOLEAN,
                            compress : BOOLEAN, gz : Compressors \cup {None}]
                OBVIOUS
            <4> HIDE DEF IInv, TypeOK
            <4> QED
                BY <4>1, EmptySeq
        <3>2. w' = [w EXCEPT ![r] = e]
            BY <2>2
        <3> HIDE DEF e
        <3> QED
            BY <2>2, <3>1, <3>2
    <2> QED
        BY <2>1, <2>2
<1>3. /\ phase' \in [Requests -> {"idle", "handler", "finished", "ended", "dead"}]
      /\ \A s \in Requests \ {r} : phase'[s] = phase[s]
    OBVIOUS
<1>4. written' \in [Requests -> 0..MaxUnits] /\ \A s \in Requests \ {r} : written'[s] = written[s]
    OBVIOUS
<1>5. TypeOK'
    <2>1. \A s \in Requests : Len(w'[s].buf) < MinLength
        BY <1>2
    <2>2. /\ status' \in [Requests -> Statuses] /\ header' \in [Requests -> Headers]
          /\ sent' \in [Requests -> [status : Statuses, header : Headers] \cup {None}]
          /\ flushed' \in [Requests -> 0..MaxUnits]
        OBVIOUS
    <2> QED
        BY <1>2, <1>3, <1>4, <2>1, <2>2
<1>6. OneOwner'
    <2>1. \A s \in Requests : w'[s].gz = w[s].gz
        BY <1>2
    <2> QED
        BY <2>1 DEF OneOwner
<1>7. Frame(r)
    BY <1>2, <1>3, <1>4 DEF Frame
<1>8. Body(r) \in Seq(Units)
    BY BodySeq
<1>9. CASE phase' = phase /\ w' = w /\ written' = written
    <2>1. Body(r)' = Body(r)
        BY <1>9 DEF Body
    <2>2. Fits(r)'
        BY <1>1, <1>9, <2>1 DEF Fits, WriterFits, OneEncoding, NothingLost, FlushedIsOut,
                                HeaderFits, Undecided, Direct
    <2> QED
        BY <1>5, <1>6, <1>7, <2>2 DEF Keeps
<1>10. CASE /\ phase[r] = "handler" /\ Direct(r) /\ w' = w /\ written' = written
            /\ phase' = [phase EXCEPT ![r] = "finished"]
    <2>1. Body(r)' = Body(r) /\ phase'[r] = "finished"
        BY <1>10 DEF Body
    <2>2. ~w[r].compress /\ ~Undecided(r) /\ w[r].gz = None
        BY <1>1, <1>10 DEF Fits, WriterFits, Direct, Undecided
    <2>3. Fits(r)'
        BY <1>1, <1>10, <2>1, <2>2 DEF Fits, WriterFits, OneEncoding, NothingLost, FlushedIsOut,
                                HeaderFits, Undecided, Direct
    <2> QED
        BY <1>5, <1>6, <1>7, <2>3 DEF Keeps
<1>11. CASE /\ phase[r] = "handler" /\ Undecided(r) /\ w[r].buf = <<>>
            /\ w' = [w EXCEPT ![r] = [@ EXCEPT !.buf = <<>>, !.decided = TRUE]]
            /\ phase' = [phase EXCEPT ![r] = "finished"] /\ written' = written
    <2>1. Body(r)' = Body(r) /\ phase'[r] = "finished"
        BY <1>11 DEF Body
    <2>2. /\ ~w[r].compress /\ w[r].gz = None /\ w[r].wraps
          /\ wire[r] = <<>> /\ Body(r) = <<>> /\ sent[r] = None
        BY <1>1, <1>11 DEF Fits, WriterFits, NothingLost, HeaderFits, Undecided
    <2>3. ~Undecided(r)' /\ Direct(r)'
        <3>1. w'[r].decided
            BY <1>11
        <3> QED
            BY <1>2, <2>2, <3>1 DEF Undecided, Direct
    <2>4. WriterFits(r)' /\ OneEncoding(r)' /\ FlushedIsOut(r)' /\ HeaderFits(r)'
        BY <1>1, <1>2, <1>11, <2>1, <2>2, <2>3
           DEF Fits, WriterFits, OneEncoding, FlushedIsOut, HeaderFits
    <2>5. NothingLost(r)'
        BY <1>2, <2>1, <2>2, <2>3, CodedEmpty DEF NothingLost
    <2> QED
        BY <1>5, <1>6, <1>7, <2>4, <2>5 DEF Keeps, Fits
<1>12. CASE /\ phase[r] = "finished" /\ w[r].compress /\ w' = w
            /\ phase' = [phase EXCEPT ![r] = "dead"]
    <2>1. phase'[r] = "dead" /\ ~Undecided(r) /\ ~Direct(r) /\ w[r].gz = None
        BY <1>1, <1>12 DEF Fits, WriterFits, Undecided, Direct
    <2>2. ~Undecided(r)' /\ ~Direct(r)'
        BY <1>12, <2>1 DEF Undecided, Direct
    <2>3. Fits(r)'
        BY <1>1, <1>12, <2>1, <2>2 DEF Fits, WriterFits, OneEncoding, NothingLost, FlushedIsOut,
                                       HeaderFits
    <2> QED
        BY <1>5, <1>6, <1>7, <2>3 DEF Keeps
<1> QED
    BY <1>9, <1>10, <1>11, <1>12

LEMMA InitIInv == Init => IInv
<1> SUFFICES ASSUME Init PROVE IInv
    OBVIOUS
<1> USE DEF Init
<1>1. TypeOK
    <2>1. header \in [Requests -> Headers]
        OBVIOUS
    <2>2. Len(<<>>) = 0 /\ 0 < MinLength /\ MaxUnits \in Nat
        BY EmptySeq, GzipAssumption
    <2>3. <<>> \in Seq(Units) /\ <<>> \in Seq(Codes)
        BY EmptySeq
    <2>4. "ok" \in Statuses
        BY DEF Statuses
    <2> QED
        BY <2>1, <2>2, <2>3, <2>4 DEF TypeOK
<1>2. OneOwner
    BY GzipAssumption DEF OneOwner
<1>3. ASSUME NEW r \in Requests PROVE Fits(r)
    <2>1. Body(r) = <<>>
        BY <1>1, BodySeq
    <2>2. ~Undecided(r) /\ Direct(r)
        BY DEF Undecided, Direct
    <2>3. WriterFits(r) /\ NothingLost(r)
        BY <2>1, <2>2, CodedEmpty DEF WriterFits, NothingLost
    <2>4. <<>> \in Seq(Units \X {"raw"}) /\ Len(<<>>) = 0
        BY EmptySeq
    <2>5. OneEncoding(r) /\ FlushedIsOut(r)
        BY <2>4 DEF OneEncoding, FlushedIsOut
    <2>6. header[r].encoding # "gzip"
        OBVIOUS
    <2> QED
        BY <2>2, <2>3, <2>5, <2>6 DEF Fits, HeaderFits
<1> QED
    BY <1>1, <1>2, <1>3 DEF IInv

(* Each operation of the middleware is one of the steps above.             *)
LEMMA Grown ==
    ASSUME IInv, NEW r \in Requests, NEW n \in 1..MaxUnits, Produce(r, n)
    PROVE  /\ NextUnits(r, n) \in Seq(Units)
           /\ Body(r)' = Body(r) \o NextUnits(r, n)
           /\ written' \in [Requests -> 0..MaxUnits]
           /\ \A s \in Requests \ {r} : written'[s] = written[s]
           /\ phase[r] = "handler" /\ UNCHANGED <<phase, status, flushed>>
<1>1. /\ n \in Nat /\ written[r] + n <= MaxUnits
      /\ written' = [written EXCEPT ![r] = @ + n]
    BY GzipAssumption DEF Produce
<1>2. TypeOK
    BY DEF IInv
<1>3. \A s \in Requests \ {r} : written'[s] = written[s]
    BY <1>1, <1>2 DEF TypeOK
<1> QED
    BY <1>1, <1>2, <1>3, BodyGrows DEF Produce

LEMMA Same ==
    ASSUME IInv, NEW r \in Requests, written' = written
    PROVE  /\ Body(r)' = Body(r) \o <<>>
           /\ <<>> \in Seq(Units)
           /\ written' \in [Requests -> 0..MaxUnits]
           /\ \A s \in Requests \ {r} : written'[s] = written[s]
           /\ w[r].buf \o <<>> = w[r].buf
           /\ \A z \in Compressors : kept[z] \o <<>> = kept[z]
<1>1. /\ Body(r) \in Seq(Units) /\ w[r].buf \in Seq(Units)
      /\ \A z \in Compressors : kept[z] \in Seq(Units)
    BY BodySeq DEF IInv, TypeOK
<1>2. Body(r)' = Body(r)
    BY DEF Body
<1>3. \A u \in Seq(Units) : u \o <<>> = u
    BY ConcatEmptySeq
<1> QED
    BY <1>1, <1>2, <1>3, EmptySeq DEF IInv, TypeOK

LEMMA DecidesStep ==
    ASSUME IInv, NEW r \in Requests, NEW n \in 1..MaxUnits, WriteDecides(r, n)
    PROVE  Keeps(r)
<1> DEFINE new == NextUnits(r, n)
           units == w[r].buf \o new
<1>1. /\ new \in Seq(Units) /\ Body(r)' = Body(r) \o new
      /\ written' \in [Requests -> 0..MaxUnits]
      /\ \A s \in Requests \ {r} : written'[s] = written[s]
      /\ phase[r] = "handler" /\ UNCHANGED <<phase, status, flushed>>
      /\ Undecided(r)
    BY Grown DEF WriteDecides
<1>2. CASE \E z \in Compressors :
               Decide(r, z) /\ \E m \in {0, Len(units)} : Pack(z, units, m)
    <2>1. PICK z \in Compressors, m \in {0, Len(units)} : Decide(r, z) /\ Pack(z, units, m)
        BY <1>2
    <2> HIDE DEF new
    <2> QED
        BY <1>1, <2>1, PackGoes
<1>3. CASE DecideRaw(r) /\ InnerWrite(r, units)
    <2>1. ~w[r].compress
        BY <1>1 DEF IInv, Fits, WriterFits, Undecided
    <2>2. w' = [w EXCEPT ![r] = [@ EXCEPT !.buf = <<>>, !.decided = TRUE]]
          /\ UNCHANGED <<status, header, dest, kept, pool>>
        BY <1>1, <1>3 DEF DecideRaw
    <2> HIDE DEF new
    <2> QED
        BY <1>1, <1>3, <2>1, <2>2, RawGoes
<1> QED
    BY <1>2, <1>3 DEF WriteDecides

LEMMA PackedStep ==
    ASSUME IInv, NEW r \in Requests, NEW n \in 1..MaxUnits, WritePacked(r, n)
    PROVE  Keeps(r)
<1> DEFINE new == NextUnits(r, n)
           z == w[r].gz
           units == kept[z] \o new
<1>1. /\ new \in Seq(Units) /\ Body(r)' = Body(r) \o new
      /\ written' \in [Requests -> 0..MaxUnits]
      /\ \A s \in Requests \ {r} : written'[s] = written[s]
      /\ phase[r] = "handler" /\ UNCHANGED <<phase, status, flushed>>
    BY Grown DEF WritePacked
<1>2. w[r].compress /\ UNCHANGED <<header, w, dest, pool>>
    BY DEF WritePacked
<1>3. z \in Compressors
    BY <1>1, <1>2, Handling
<1>4. PICK m \in {0, Len(units)} : Pack(z, units, m)
    BY DEF WritePacked
<1>5. w[r].gz = z
    OBVIOUS
<1> HIDE DEF new, z
<1> QED
    BY <1>1, <1>2, <1>3, <1>4, <1>5, PackGoes

LEMMA RawStep ==
    ASSUME IInv, NEW r \in Requests, NEW n \in 1..MaxUnits, WriteRaw(r, n)
    PROVE  Keeps(r)
<1> DEFINE new == NextUnits(r, n)
<1>1. /\ new \in Seq(Units) /\ Body(r)' = Body(r) \o new
      /\ written' \in [Requests -> 0..MaxUnits]
      /\ \A s \in Requests \ {r} : written'[s] = written[s]
      /\ phase[r] = "handler" /\ UNCHANGED <<phase, status, flushed>>
    BY Grown DEF WriteRaw
<1>2. /\ ~w[r].compress /\ ~Undecided(r) /\ w[r].buf = <<>>
      /\ UNCHANGED <<header, w, dest, kept, pool>>
    BY DEF WriteRaw, Direct, Undecided, IInv, Fits, WriterFits
<1>3. InnerWrite(r, w[r].buf \o new)
    BY <1>1, <1>2, ConcatEmptySeq DEF WriteRaw
<1> HIDE DEF new
<1> QED
    BY <1>1, <1>2, <1>3, RawGoes

LEMMA HeaderNowStep ==
    ASSUME IInv, NEW r \in Requests, WriteHeaderNow(r)
    PROVE  Keeps(r)
<1>1. phase[r] = "handler" /\ UNCHANGED <<phase, status, written, flushed>>
    BY DEF WriteHeaderNow
<1>2. CASE Undecided(r)
    <2>1. ~w[r].compress
        BY <1>2 DEF IInv, Fits, WriterFits, Undecided
    <2>2. /\ w' = [w EXCEPT ![r] = [@ EXCEPT !.buf = <<>>, !.decided = TRUE]]
          /\ UNCHANGED <<status, header, dest, kept, pool>>
          /\ InnerWrite(r, w[r].buf)
        BY <1>1, <1>2 DEF WriteHeaderNow, DecideRaw
    <2>3. /\ Body(r)' = Body(r) \o <<>> /\ <<>> \in Seq(Units)
          /\ written' \in [Requests -> 0..MaxUnits]
          /\ \A s \in Requests \ {r} : written'[s] = written[s]
          /\ w[r].buf = w[r].buf \o <<>>
        BY <1>1, Same
    <2>4. InnerWrite(r, w[r].buf \o <<>>)
        BY <2>2, <2>3
    <2> QED
        BY <1>1, <1>2, <2>1, <2>2, <2>3, <2>4, RawGoes
<1>3. CASE ~Undecided(r)
    BY <1>1, <1>3, HeaderGoes DEF WriteHeaderNow
<1> QED
    BY <1>2, <1>3

LEMMA FlushStep ==
    ASSUME IInv, NEW r \in Requests, Flush(r)
    PROVE  Keeps(r)
<1>1. /\ phase[r] = "handler" /\ UNCHANGED <<phase, status, written>>
      /\ flushed' = [flushed EXCEPT ![r] = written[r]]
    BY DEF Flush
<1>2. /\ Body(r)' = Body(r) \o <<>> /\ <<>> \in Seq(Units)
      /\ written' \in [Requests -> 0..MaxUnits]
      /\ \A s \in Requests \ {r} : written'[s] = written[s]
      /\ w[r].buf = w[r].buf \o <<>>
      /\ \A z \in Compressors : kept[z] = kept[z] \o <<>>
    BY <1>1, Same
<1>3. CASE Undecided(r) /\ DecideRaw(r) /\ InnerWrite(r, w[r].buf)
    <2>1. ~w[r].compress
        BY <1>3 DEF IInv, Fits, WriterFits, Undecided
    <2>2. /\ w' = [w EXCEPT ![r] = [@ EXCEPT !.buf = <<>>, !.decided = TRUE]]
          /\ UNCHANGED <<status, header, dest, kept, pool>>
        BY <1>1, <1>3 DEF DecideRaw
    <2>3. InnerWrite(r, w[r].buf \o <<>>)
        BY <1>2, <1>3
    <2> QED
        BY <1>1, <1>2, <1>3, <2>1, <2>2, <2>3, RawGoes
<1>4. CASE /\ w[r].compress
           /\ UNCHANGED <<header, w, dest, pool>>
           /\ Pack(w[r].gz, kept[w[r].gz], Len(kept[w[r].gz]))
    <2> DEFINE z == w[r].gz
               u == kept[z]
               m == Len(u)
    <2>1. z \in Compressors /\ w[r].gz = z
        BY <1>1, <1>4, Handling
    <2>2. Pack(z, u, m) /\ m \in {0, Len(u)} /\ m = Len(u) /\ u = kept[z]
        BY <1>4
    <2> HIDE DEF z, u, m
    <2>3. u = kept[z] \o <<>>
        BY <1>2, <2>1, <2>2
    <2> QED
        BY <1>1, <1>2, <1>4, <2>1, <2>2, <2>3, PackGoes
<1>5. CASE Direct(r) /\ UNCHANGED <<header, w, wire, dest, kept, pool>> /\ SendHeader(r)
    <2>1. ~Undecided(r)
        BY <1>5 DEF Direct, Undecided
    <2> QED
        BY <1>1, <1>5, <2>1, HeaderGoes
<1> QED
    BY <1>3, <1>4, <1>5 DEF Flush

LEMMA FinishStep ==
    ASSUME IInv, NEW r \in Requests, Finish(r)
    PROVE  Keeps(r)
<1>1. /\ phase[r] = "handler" /\ phase' = [phase EXCEPT ![r] = "finished"]
      /\ UNCHANGED <<status, written, flushed>>
    BY DEF Finish
<1>2. CASE Undecided(r) /\ DecideRaw(r) /\ w[r].buf = <<>> /\ UNCHANGED <<sent, wire>>
    <2>1. /\ w' = [w EXCEPT ![r] = [@ EXCEPT !.buf = <<>>, !.decided = TRUE]]
          /\ UNCHANGED <<header, dest, kept, pool>>
        BY <1>2 DEF DecideRaw
    <2> QED
        BY <1>1, <1>2, <2>1, QuietStep
<1>3. CASE Undecided(r) /\ DecideRaw(r) /\ InnerWrite(r, w[r].buf)
    <2>1. ~w[r].compress
        BY <1>3 DEF IInv, Fits, WriterFits, Undecided
    <2>2. /\ w' = [w EXCEPT ![r] = [@ EXCEPT !.buf = <<>>, !.decided = TRUE]]
          /\ UNCHANGED <<status, header, dest, kept, pool>>
        BY <1>1, <1>3 DEF DecideRaw
    <2>3. /\ Body(r)' = Body(r) \o <<>> /\ <<>> \in Seq(Units)
          /\ written' \in [Requests -> 0..MaxUnits]
          /\ \A s \in Requests \ {r} : written'[s] = written[s]
          /\ w[r].buf = w[r].buf \o <<>>
        BY <1>1, Same
    <2>4. InnerWrite(r, w[r].buf \o <<>>)
        BY <1>3, <2>3
    <2> QED
        BY <1>1, <1>3, <2>1, <2>2, <2>3, <2>4, RawGoes
<1>4. CASE w[r].compress /\ PutBack(r, w[r].gz) /\ UNCHANGED <<header, sent>>
    BY <1>1, <1>4, CloseStep
<1>5. CASE Direct(r) /\ UNCHANGED <<header, sent, wire, w, dest, kept, pool>>
    BY <1>1, <1>5, QuietStep
<1> QED
    BY <1>2, <1>3, <1>4, <1>5 DEF Finish

LEMMA OuterStep ==
    ASSUME IInv, NEW r \in Requests, OuterWrite(r)
    PROVE  Keeps(r)
<1>1. /\ phase[r] = "finished" /\ written[r] < MaxUnits
      /\ written' = [written EXCEPT ![r] = @ + 1]
      /\ UNCHANGED <<status, header, w, dest, kept, pool, flushed>>
    BY DEF OuterWrite
<1>2. TypeOK /\ Fits(r) /\ MaxUnits \in Nat
    BY GzipAssumption DEF IInv
<1>3. written[r] + 1 <= MaxUnits /\ 1 \in Nat
    BY <1>1, <1>2 DEF TypeOK
<1>4. /\ NextUnits(r, 1) \in Seq(Units)
      /\ Body(r)' = Body(r) \o NextUnits(r, 1)
      /\ written' \in [Requests -> 0..MaxUnits]
    BY <1>1, <1>2, <1>3, BodyGrows
<1>5. \A s \in Requests \ {r} : written'[s] = written[s]
    BY <1>1, <1>2 DEF TypeOK
<1>6. CASE w[r].compress
    BY <1>1, <1>4, <1>5, <1>6, QuietStep DEF OuterWrite
<1>7. CASE ~w[r].compress
    <2> DEFINE new == NextUnits(r, 1)
    <2>1. ~Undecided(r) /\ w[r].buf = <<>>
        BY <1>1, <1>2 DEF Fits, WriterFits
    <2>2. phase' = phase /\ InnerWrite(r, w[r].buf \o new)
        BY <1>4, <1>7, <2>1, ConcatEmptySeq DEF OuterWrite
    <2>3. new \in Seq(Units) /\ Body(r)' = Body(r) \o new
        BY <1>4
    <2> HIDE DEF new
    <2> QED
        BY <1>1, <1>4, <1>5, <1>7, <2>1, <2>2, <2>3, RawGoes
<1> QED
    BY <1>6, <1>7

LEMMA EveryStep ==
    ASSUME IInv, Next
    PROVE  \E r \in Requests : Keeps(r)
<1>1. PICK r \in Requests :
         \/ \E accepts \in BOOLEAN : Handle(r, accepts)
         \/ \E n \in 1..MaxUnits :
               WriteHeld(r, n) \/ WriteDecides(r, n) \/ WritePacked(r, n) \/ WriteRaw(r, n)
         \/ \E s \in Statuses : SetStatus(r, s)
         \/ WriteHeaderNow(r) \/ Flush(r) \/ Finish(r) \/ OuterWrite(r) \/ EndResponse(r)
    BY DEF Next
<1>2. ASSUME NEW accepts \in BOOLEAN, Handle(r, accepts) PROVE Keeps(r)
    BY <1>2, HandleStep
<1>3. ASSUME NEW n \in 1..MaxUnits,
             WriteHeld(r, n) \/ WriteDecides(r, n) \/ WritePacked(r, n) \/ WriteRaw(r, n)
      PROVE  Keeps(r)
    BY <1>3, HeldStep, DecidesStep, PackedStep, RawStep
<1>4. ASSUME NEW s \in Statuses, SetStatus(r, s) PROVE Keeps(r)
    <2>1. status' \in [Requests -> Statuses]
        BY <1>4 DEF SetStatus, IInv, TypeOK
    <2>2. UNCHANGED <<phase, header, sent, wire, w, dest, kept, pool, written, flushed>>
        BY <1>4 DEF SetStatus
    <2> QED
        BY <2>1, <2>2, QuietStep
<1>5. CASE EndResponse(r)
    <2>1. phase[r] = "finished" /\ ~Undecided(r)
        BY <1>5 DEF EndResponse, IInv, Fits, WriterFits
    <2> QED
        BY <1>5, <2>1, HeaderGoes DEF EndResponse
<1>6. CASE WriteHeaderNow(r)
    BY <1>6, HeaderNowStep
<1>7. CASE Flush(r)
    BY <1>7, FlushStep
<1>8. CASE Finish(r)
    BY <1>8, FinishStep
<1>9. CASE OuterWrite(r)
    BY <1>9, OuterStep
<1> QED
    BY <1>1, <1>2, <1>3, <1>4, <1>5, <1>6, <1>7, <1>8, <1>9

LEMMA NextIInv == IInv /\ [Next]_vars => IInv'
<1> SUFFICES ASSUME IInv, [Next]_vars PROVE IInv'
    OBVIOUS
<1>1. CASE Next
    <2>1. PICK r \in Requests : Keeps(r)
        BY <1>1, EveryStep
    <2>2. \A s \in Requests : Fits(s)'
        BY <2>1, OthersFit DEF Keeps, IInv
    <2> QED
        BY <2>1, <2>2 DEF Keeps, IInv
<1>2. CASE UNCHANGED vars
    <2>1. UNCHANGED <<phase, status, header, sent, wire, w, dest, kept, pool, written, flushed>>
        BY <1>2 DEF vars
    <2>2. TypeOK' /\ OneOwner'
        BY <2>1 DEF IInv, TypeOK, OneOwner
    <2>3. ASSUME NEW r \in Requests PROVE Fits(r)'
        <3>1. Fits(r) /\ Body(r)' = Body(r) /\ (Undecided(r)' <=> Undecided(r))
                     /\ (Direct(r)' <=> Direct(r))
            BY <2>1 DEF IInv, Body, Undecided, Direct
        <3>2. WriterFits(r)' /\ OneEncoding(r)' /\ FlushedIsOut(r)' /\ HeaderFits(r)'
            BY <2>1, <3>1 DEF Fits, WriterFits, OneEncoding, FlushedIsOut, HeaderFits
        <3>3. NothingLost(r)'
            BY <2>1, <3>1 DEF Fits, NothingLost
        <3> QED
            BY <3>2, <3>3 DEF Fits
    <2> QED
        BY <2>2, <2>3 DEF IInv
<1> QED
    BY <1>1, <1>2

----------------------------------------------------------------------------
(* Where the compressors are.                                              *)

(* The pool loses nothing: a compressor is out of it only while a handler  *)
(* is running that compresses with it (finish is deferred and runs after a *)
(* panic, too).                                                            *)
PoolComesBack ==
    \A z \in Compressors \ pool :
        \E r \in Requests : phase[r] = "handler" /\ w[r].compress /\ w[r].gz = z

(* A compressor out of the pool writes to somebody. *)
Lent == \A z \in Compressors \ pool : dest[z] \in Requests

LEMMA LentStep == IInv /\ Lent /\ [Next]_vars => Lent'
<1> SUFFICES ASSUME IInv, Lent, [Next]_vars PROVE Lent'
    OBVIOUS
<1>1. dest \in [Compressors -> Requests \cup {None}]
    BY DEF IInv, TypeOK
<1>2. ASSUME NEW r \in Requests, NEW z \in Compressors, Decide(r, z)
      PROVE  Lent'
    BY <1>1, <1>2 DEF Lent, Decide
<1>3. ASSUME NEW r \in Requests, NEW z, PutBack(r, z)
      PROVE  Lent'
    BY <1>1, <1>3 DEF Lent, PutBack, CloseCompressor
<1>4. ASSUME UNCHANGED <<dest, pool>>
      PROVE  Lent'
    BY <1>4 DEF Lent
<1>5. CASE UNCHANGED vars
    BY <1>4, <1>5 DEF vars
<1>6. ASSUME NEW r \in Requests, NEW n \in 1..MaxUnits,
             WriteHeld(r, n) \/ WriteDecides(r, n) \/ WritePacked(r, n) \/ WriteRaw(r, n)
      PROVE  Lent'
    BY <1>2, <1>4, <1>6 DEF WriteHeld, WriteDecides, WritePacked, WriteRaw, DecideRaw
<1>7. ASSUME NEW r \in Requests,
             \/ \E accepts \in BOOLEAN : Handle(r, accepts)
             \/ \E s \in Statuses : SetStatus(r, s)
             \/ WriteHeaderNow(r)
             \/ Flush(r)
             \/ OuterWrite(r)
             \/ EndResponse(r)
      PROVE  Lent'
    BY <1>4, <1>7 DEF Handle, SetStatus, WriteHeaderNow, Flush, OuterWrite, EndResponse, DecideRaw
<1>8. ASSUME NEW r \in Requests, Finish(r)
      PROVE  Lent'
    BY <1>3, <1>4, <1>8 DEF Finish, DecideRaw
<1> QED
    BY <1>5, <1>6, <1>7, <1>8 DEF Next

----------------------------------------------------------------------------
(* What follows of the middleware.                                         *)

(* IInv holds in every state.                                              *)
THEOREM Invariance == Spec => []IInv
BY InitIInv, NextIInv, PTL DEF Spec

(* Every variable keeps its type; what is held back stays shorter than     *)
(* MinLength (Write). *)
THEOREM TypeCorrect == Spec => []TypeOK
<1>1. IInv => TypeOK
    BY DEF IInv
<1> QED
    BY <1>1, Invariance, PTL

(* No compressor ever serves two responses, and one in the pool is empty   *)
(* and writes to nobody (decide and finish). *)
THEOREM PoolIsShared == Spec => []OneOwner
<1>1. IInv => OneOwner
    BY DEF IInv
<1> QED
    BY <1>1, Invariance, PTL

(* No compressor is ever lost, so that with no handler running the pool    *)
(* has them all (the deferred finish).                                     *)
THEOREM PoolRefills == Spec => []PoolComesBack
<1>1. Init => Lent
    BY DEF Init, Lent
<1>2. IInv /\ Lent => PoolComesBack
    <2> SUFFICES ASSUME IInv, Lent, NEW z \in Compressors, z \notin pool
                 PROVE  \E r \in Requests : phase[r] = "handler" /\ w[r].compress /\ w[r].gz = z
        BY DEF PoolComesBack
    <2>1. dest[z] \in Requests /\ w[dest[z]].gz = z
        BY DEF IInv, OneOwner, Lent
    <2>2. z # None
        BY GzipAssumption
    <2>3. WriterFits(dest[z])
        BY <2>1 DEF IInv, Fits
    <2> QED
        BY <2>1, <2>2, <2>3 DEF WriterFits
<1> QED
    BY <1>1, <1>2, LentStep, Invariance, PTL DEF Spec

(* A response that has ended is the body that was written, whole and in    *)
(* one encoding, and a flush leaves nothing behind (Flush and finish). *)
THEOREM BodiesAreWhole == Spec => []Identical
<1>1. IInv => Identical
    <2> SUFFICES ASSUME IInv, NEW r \in Requests
                 PROVE  (phase[r] = "ended" => Whole(r)) /\ Len(wire[r]) >= flushed[r]
        BY DEF Identical
    <2>1. Fits(r)
        BY DEF IInv
    <2>2. ASSUME phase[r] = "ended" PROVE Whole(r)
        <3>1. ~Undecided(r)
            BY <2>1, <2>2 DEF Fits, WriterFits
        <3>2. CASE Direct(r)
            BY <2>1, <3>2 DEF Fits, NothingLost, Whole
        <3>3. CASE ~Direct(r)
            BY <2>1, <2>2, <3>1, <3>3 DEF Fits, NothingLost, Whole, Direct, Undecided
        <3> QED
            BY <3>2, <3>3
    <2> QED
        BY <2>1, <2>2 DEF Fits, FlushedIsOut
<1> QED
    BY <1>1, Invariance, PTL

(* The header a client gets fits the units it gets (decide, which changes   *)
(* it only while none has gone out). *)
THEOREM HeadersFit == Spec => []Labelled
<1>1. IInv => Labelled
    <2> SUFFICES ASSUME IInv, NEW r \in Requests
                 PROVE  /\ Undecided(r) => sent[r] = None /\ wire[r] = <<>>
                        /\ \A i \in DOMAIN wire[r] :
                              /\ sent[r] # None
                              /\ wire[r][i][2] = "gzip" => sent[r].header.encoding = "gzip"
                                                             /\ ~sent[r].header.length
                              /\ wire[r][i][2] = "raw" => sent[r].header.encoding # "gzip"
        BY DEF Labelled
    <2>1. Fits(r)
        BY DEF IInv
    <2>2. ASSUME NEW i \in DOMAIN wire[r]
          PROVE  /\ sent[r] # None
                 /\ wire[r][i][2] = "gzip" => w[r].compress
                 /\ wire[r][i][2] = "raw" => ~w[r].compress
        <3>1. wire[r] # <<>>
            BY EmptySeq
        <3>2. sent[r] # None
            BY <2>1, <3>1 DEF Fits, HeaderFits
        <3>3. CASE w[r].compress
            <4>1. wire[r] \in Seq(Packed)
                BY <2>1, <3>3 DEF Fits, OneEncoding
            <4>2. wire[r][i] \in Packed
                BY <4>1, LenProperties, ElementOfSeq
            <4> QED
                BY <3>2, <3>3, <4>2 DEF Packed, Trailer
        <3>4. CASE ~w[r].compress
            <4>1. wire[r] \in Seq(Units \X {"raw"})
                BY <2>1, <3>4 DEF Fits, OneEncoding
            <4>2. wire[r][i] \in Units \X {"raw"}
                BY <4>1, LenProperties, ElementOfSeq
            <4> QED
                BY <3>2, <3>4, <4>2
        <3> QED
            BY <3>3, <3>4
    <2> QED
        BY <2>1, <2>2 DEF Fits, NothingLost, HeaderFits
<1> QED
    BY <1>1, Invariance, PTL
=============================================================================
