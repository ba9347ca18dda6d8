---------------------------- MODULE GzipResponse ----------------------------
(***************************************************************************)
(* compression/gzip.go: the middleware that compresses responses.  Each    *)
(* request is handled by a goroutine of its own; what they share is the    *)
(* pool of compressors.  A body is held back until it has MinLength units, *)
(* a flush, a header or the end of the handler decides what becomes of it. *)
(*                                                                         *)
(* A body is a sequence of units, numbered as the handler writes them, and *)
(* the wire of a response the sequence of units that have left the server, *)
(* each with the encoding it left in.  gin's own response writer (the      *)
(* inner writer), the compressors and the pool are external: the inner     *)
(* writer sends the header with the first thing it writes, a compressor    *)
(* keeps what it likes until it is flushed or closed, and the pool makes a *)
(* new compressor when it has none, which is no different from one that    *)
(* was there.                                                              *)
(***************************************************************************)
EXTENDS Naturals, Sequences

CONSTANTS
    Requests,
    Compressors,
    None,         \* no header sent, no compressor, no request
    MinLength,    \* Config.MinLength, in units
    MaxUnits      \* bound: units written to one response

Statuses == {"ok", "error", "bodyless"}

Headers == [text : BOOLEAN, encoding : {"none", "own", "gzip"}, length : BOOLEAN]

ASSUME GzipAssumption ==
    /\ None \notin Requests
    /\ None \notin Compressors
    /\ None \notin [status : Statuses, header : Headers]
    /\ MinLength \in Nat \ {0}
    /\ MaxUnits \in Nat

VARIABLES
    phase,    \* where each request is; "dead" when its goroutine has panicked
    status,   \* the inner writer's status
    header,   \* the response headers the middleware looks at
    sent,     \* the header as it was sent, None before
    wire,     \* the units that have left
    w,        \* the gzipWriter of each request
    dest,     \* the request a compressor writes to, None for io.Discard
    kept,     \* the units a compressor keeps
    pool,     \* the compressors in the pool
    written,  \* history: the number of units the handler has written
    flushed   \* history: that number at the last Flush

vars == <<phase, status, header, sent, wire, w, dest, kept, pool, written,
          flushed>>

(* The headers as they are when the middleware decides.  It looks at them  *)
(* at no other time (decide, gzip.go:129-134), and the first thing written *)
(* after the decision sends them, so that those of Init stand for all a    *)
(* handler may do to them before; what it does later reaches nobody.  The  *)
(* status, which gin keeps, may change between two writes.  A length is    *)
(* right for the body the handler writes. *)
Init ==
    /\ phase = [r \in Requests |-> "idle"]
    /\ status = [r \in Requests |-> "ok"]
    /\ header \in [Requests -> {h \in Headers : h.encoding # "gzip"}]
    /\ sent = [r \in Requests |-> None]
    /\ wire = [r \in Requests |-> <<>>]
    /\ w = [r \in Requests |-> [wraps |-> FALSE, buf |-> <<>>, decided |-> FALSE,
                                compress |-> FALSE, gz |-> None]]
    /\ dest = [z \in Compressors |-> None]
    /\ kept = [z \in Compressors |-> <<>>]
    /\ pool = Compressors
    /\ written = [r \in Requests |-> 0]
    /\ flushed = [r \in Requests |-> 0]

----------------------------------------------------------------------------
(* The inner writer.                                                       *)

Coded(units, code) == [i \in DOMAIN units |-> <<units[i], code>>]

(* What follows the last unit of a compressed body. *)
Trailer == <<0, "gzip">>

(* The header goes out once, with the status and headers of that moment.   *)
SendHeader(r) ==
    sent' = [sent EXCEPT ![r] =
               IF @ = None THEN [status |-> status[r], header |-> header'[r]] ELSE @]

InnerWrite(r, units) ==
    /\ wire' = [wire EXCEPT ![r] = @ \o Coded(units, "raw")]
    /\ SendHeader(r)

(* A compressor lets out the first n of the units it has kept or is given. *)
Pack(z, units, n) ==
    /\ wire' = [wire EXCEPT ![dest'[z]] = @ \o Coded(SubSeq(units, 1, n), "gzip")]
    /\ kept' = [kept EXCEPT ![z] = SubSeq(units, n + 1, Len(units))]
    /\ SendHeader(dest'[z])

(* The handler writes n more units. *)
NextUnits(r, n) == [i \in 1..n |-> written[r] + i]

Produce(r, n) ==
    /\ phase[r] = "handler"
    /\ status[r] # "bodyless"
    /\ written[r] + n <= MaxUnits
    /\ written' = [written EXCEPT ![r] = @ + n]
    /\ UNCHANGED <<phase, status, flushed>>

----------------------------------------------------------------------------
(* The middleware.                                                         *)

Undecided(r) == w[r].wraps /\ ~w[r].decided

(* Writes go to the inner writer, compressed by nobody. *)
Direct(r) == ~w[r].wraps \/ (w[r].decided /\ ~w[r].compress)

(* acceptsGzip decides whether the response is wrapped at all.             *)
Handle(r, accepts) ==
    /\ phase[r] = "idle"
    /\ phase' = [phase EXCEPT ![r] = "handler"]
    /\ w' = [w EXCEPT ![r].wraps = accepts]
    /\ UNCHANGED <<status, header, sent, wire, dest, kept, pool, written,
                   flushed>>

(* decide: a status with a body, a compressible type, no encoding yet.     *)
Eligible(r) ==
    /\ status[r] # "bodyless"
    /\ header[r].encoding = "none"
    /\ header[r].text

(* Variant: the Content-Length of the plain body stays. *)
DecideKeepsLength(r, z) ==
    /\ z \in pool
    /\ pool' = pool \ {z}
    /\ dest' = [dest EXCEPT ![z] = r]
    /\ header' = [header EXCEPT ![r].encoding = "gzip"]
    /\ w' = [w EXCEPT ![r] = [@ EXCEPT !.buf = <<>>, !.decided = TRUE,
                                       !.compress = TRUE, !.gz = z]]

(* decide(true) on an eligible response, with a compressor from the pool.  *)
Decide(r, z) ==
    /\ z \in pool
    /\ pool' = pool \ {z}
    /\ dest' = [dest EXCEPT ![z] = r]
    /\ header' = [header EXCEPT ![r] = [@ EXCEPT !.encoding = "gzip", !.length = FALSE]]
    /\ w' = [w EXCEPT ![r] = [@ EXCEPT !.buf = <<>>, !.decided = TRUE,
                                       !.compress = TRUE, !.gz = z]]

(* decide(false), or decide(true) on one that is not eligible.             *)
DecideRaw(r) ==
    /\ w' = [w EXCEPT ![r] = [@ EXCEPT !.buf = <<>>, !.decided = TRUE]]
    /\ UNCHANGED <<header, dest, kept, pool>>

(* Variant: what was held back is forgotten when it is decided. *)
WriteForgets(r, n) ==
    /\ Undecided(r)
    /\ Len(w[r].buf) + n >= MinLength
    /\ Produce(r, n)
    /\ \/ Eligible(r) /\ \E z \in Compressors :
             Decide(r, z) /\ \E m \in {0, n} : Pack(z, NextUnits(r, n), m)
       \/ ~Eligible(r) /\ DecideRaw(r) /\ InnerWrite(r, NextUnits(r, n))

(* Variant: a body of exactly MinLength is still held back. *)
WriteHeldPast(r, n) ==
    /\ Undecided(r)
    /\ Len(w[r].buf) + n <= MinLength
    /\ Produce(r, n)
    /\ w' = [w EXCEPT ![r].buf = @ \o NextUnits(r, n)]
    /\ UNCHANGED <<header, sent, wire, dest, kept, pool>>

(* Write: the body is still shorter than MinLength and is held back.       *)
WriteHeld(r, n) ==
    /\ Undecided(r)
    /\ Len(w[r].buf) + n < MinLength
    /\ Produce(r, n)
    /\ w' = [w EXCEPT ![r].buf = @ \o NextUnits(r, n)]
    /\ UNCHANGED <<header, sent, wire, dest, kept, pool>>

(* Write: it is long enough, and everything held back goes on its way.     *)
WriteDecides(r, n) ==
    /\ Undecided(r)
    /\ Len(w[r].buf) + n >= MinLength
    /\ Produce(r, n)
    /\ LET units == w[r].buf \o NextUnits(r, n) IN
          \/ Eligible(r) /\ \E z \in Compressors :
                Decide(r, z) /\ \E m \in {0, Len(units)} : Pack(z, units, m)
          \/ ~Eligible(r) /\ DecideRaw(r) /\ InnerWrite(r, units)

(* Write: to the compressor, once compression has begun. *)
WritePacked(r, n) ==
    /\ w[r].compress
    /\ Produce(r, n)
    /\ UNCHANGED <<header, w, dest, pool>>
    /\ LET units == kept[w[r].gz] \o NextUnits(r, n) IN
          \E m \in {0, Len(units)} : Pack(w[r].gz, units, m)

(* Write: straight to the inner writer. *)
WriteRaw(r, n) ==
    /\ Direct(r)
    /\ Produce(r, n)
    /\ UNCHANGED <<header, w, dest, kept, pool>>
    /\ InnerWrite(r, NextUnits(r, n))

(* WriteHeader is the inner writer's: a status counts until the header has *)
(* been sent.  A handler chooses a status without a body before it writes. *)
SetStatus(r, s) ==
    /\ phase[r] = "handler"
    /\ s = "bodyless" => written[r] = 0
    /\ status' = [status EXCEPT ![r] = IF sent[r] = None THEN s ELSE @]
    /\ UNCHANGED <<phase, header, sent, wire, w, dest, kept, pool, written,
                   flushed>>

(* Variant: the header goes out and the decision stays open. *)
HeaderUndecided(r) ==
    /\ phase[r] = "handler"
    /\ UNCHANGED <<phase, status, header, wire, w, dest, kept, pool, written, flushed>>
    /\ SendHeader(r)

(* WriteHeaderNow: what is held back goes out raw. *)
WriteHeaderNow(r) ==
    /\ phase[r] = "handler"
    /\ IF Undecided(r)
       THEN DecideRaw(r) /\ InnerWrite(r, w[r].buf)
       ELSE UNCHANGED <<header, w, wire, dest, kept, pool>> /\ SendHeader(r)
    /\ UNCHANGED <<phase, status, written, flushed>>

(* Variant: the compressor is not flushed. *)
FlushInner(r) ==
    /\ phase[r] = "handler"
    /\ flushed' = [flushed EXCEPT ![r] = written[r]]
    /\ IF Undecided(r)
       THEN DecideRaw(r) /\ InnerWrite(r, w[r].buf)
       ELSE UNCHANGED <<header, w, wire, dest, kept, pool>> /\ SendHeader(r)
    /\ UNCHANGED <<phase, status, written>>

(* Flush: the same, or what the compressor has kept, goes to the client.   *)
Flush(r) ==
    /\ phase[r] = "handler"
    /\ flushed' = [flushed EXCEPT ![r] = written[r]]
    /\ \/ /\ Undecided(r)
          /\ DecideRaw(r)
          /\ InnerWrite(r, w[r].buf)
       \/ /\ w[r].compress
          /\ UNCHANGED <<header, w, dest, pool>>
          /\ Pack(w[r].gz, kept[w[r].gz], Len(kept[w[r].gz]))
       \/ /\ Direct(r)
          /\ UNCHANGED <<header, w, wire, dest, kept, pool>>
          /\ SendHeader(r)
    /\ UNCHANGED <<phase, status, written>>

(* gz.Close: everything that is left, and the trailer. *)
CloseCompressor(r, z) ==
    /\ wire' = [wire EXCEPT ![dest[z]] = Append(@ \o Coded(kept[z], "gzip"), Trailer)]
    /\ kept' = [kept EXCEPT ![z] = <<>>]
    /\ pool' = pool \cup {z}
    /\ w' = [w EXCEPT ![r].gz = None]

(* Variant: the compressor goes back as it is. *)
PutBackOpen(r, z) ==
    /\ CloseCompressor(r, z)
    /\ UNCHANGED dest

(* The compressor is closed, reset to discard and put back. *)
PutBack(r, z) ==
    /\ CloseCompressor(r, z)
    /\ dest' = [dest EXCEPT ![z] = None]

(* finish, deferred: the handler has returned or panicked. *)
Finish(r) ==
    /\ phase[r] = "handler"
    /\ phase' = [phase EXCEPT ![r] = "finished"]
    /\ \/ /\ Undecided(r)
          /\ DecideRaw(r)
          /\ IF w[r].buf = <<>> THEN UNCHANGED <<sent, wire>>
                                ELSE InnerWrite(r, w[r].buf)
       \/ /\ w[r].compress
          /\ PutBack(r, w[r].gz)
          /\ UNCHANGED <<header, sent>>
       \/ /\ Direct(r)
          /\ UNCHANGED <<header, sent, wire, w, dest, kept, pool>>
    /\ UNCHANGED <<status, written, flushed>>

(* A middleware outside this one writes once more through the same writer: *)
(* there is no compressor any more to write to. *)
OuterWrite(r) ==
    /\ phase[r] = "finished"
    /\ status[r] # "bodyless"
    /\ written[r] < MaxUnits
    /\ written' = [written EXCEPT ![r] = @ + 1]
    /\ UNCHANGED <<status, header, w, dest, kept, pool, flushed>>
    /\ IF w[r].compress
       THEN phase' = [phase EXCEPT ![r] = "dead"] /\ UNCHANGED <<sent, wire>>
       ELSE InnerWrite(r, NextUnits(r, 1)) /\ UNCHANGED phase

(* The server ends the response, and sends the header if nothing else has. *)
EndResponse(r) ==
    /\ phase[r] = "finished"
    /\ phase' = [phase EXCEPT ![r] = "ended"]
    /\ UNCHANGED <<status, header, wire, w, dest, kept, pool, written, flushed>>
    /\ SendHeader(r)

Next ==
    \E r \in Requests :
       \/ \E accepts \in BOOLEAN : Handle(r, accepts)
       \/ \E n \in 1..MaxUnits :
             \/ WriteHeld(r, n)
             \/ WriteDecides(r, n)
             \/ WritePacked(r, n)
             \/ WriteRaw(r, n)
       \/ \E s \in Statuses : SetStatus(r, s)
       \/ WriteHeaderNow(r)
       \/ Flush(r)
       \/ Finish(r)
       \/ OuterWrite(r)
       \/ EndResponse(r)

Spec == Init /\ [][Next]_vars

----------------------------------------------------------------------------
(* Properties.                                                             *)

Units == 1..MaxUnits

Codes == (Units \X {"raw", "gzip"}) \cup {Trailer}

TypeOK ==
    /\ phase \in [Requests -> {"idle", "handler", "finished", "ended", "dead"}]
    /\ status \in [Requests -> Statuses]
    /\ header \in [Requests -> Headers]
    /\ sent \in [Requests -> [status : Statuses, header : Headers] \cup {None}]
    /\ wire \in [Requests -> Seq(Codes)]
    /\ w \in [Requests -> [wraps : BOOLEAN, buf : Seq(Units), decided : BOOLEAN,
                           compress : BOOLEAN, gz : Compressors \cup {None}]]
    /\ \A r \in Requests : Len(w[r].buf) < MinLength
    /\ dest \in [Compressors -> Requests \cup {None}]
    /\ kept \in [Compressors -> Seq(Units)]
    /\ pool \subseteq Compressors
    /\ written \in [Requests -> 0..MaxUnits]
    /\ flushed \in [Requests -> 0..MaxUnits]

Body(r) == [i \in 1..written[r] |-> i]

Whole(r) ==
    wire[r] \in {Coded(Body(r), "raw"), Append(Coded(Body(r), "gzip"), Trailer)}

(* A response that has ended carries every unit that was written, once and *)
(* in order, all raw or all compressed and closed; and after Flush the     *)
(* client has everything written before it: nothing stays behind in the    *)
(* buffer or the compressor (lines 208-209).                               *)
Identical ==
    \A r \in Requests :
        /\ phase[r] = "ended" => Whole(r)
        /\ Len(wire[r]) >= flushed[r]

(* "Isi respons setelah didekompresi identik byte demi byte" (line 4), for *)
(* every response, also one to which another middleware adds.              *)
AlwaysIdentical ==
    \A r \in Requests : phase[r] \in {"ended", "dead"} => Whole(r)

(* A compressor is in the pool, empty and writing to nobody, or it is the  *)
(* compressor of exactly one request and writes to that one: no response   *)
(* ever gets units of another.                                             *)
OneOwner ==
    \A z \in Compressors :
        IF z \in pool
        THEN dest[z] = None /\ kept[z] = <<>> /\ \A r \in Requests : w[r].gz # z
        ELSE \A r \in Requests : w[r].gz = z <=> dest[z] = r

(* What the client is told fits what it gets: compressed units only under  *)
(* the middleware's Content-Encoding, and never under the length of the    *)
(* plain body or under an encoding the handler has chosen.  As long as a   *)
(* body is held back it is told nothing, so that a middleware may still    *)
(* set a header (lines 109-112).                                           *)
Labelled ==
    \A r \in Requests :
        /\ Undecided(r) => sent[r] = None /\ wire[r] = <<>>
        /\ \A i \in DOMAIN wire[r] :
              /\ sent[r] # None
              /\ wire[r][i][2] = "gzip" => sent[r].header.encoding = "gzip"
                                             /\ ~sent[r].header.length
              /\ wire[r][i][2] = "raw" => sent[r].header.encoding # "gzip"
============================================================================
