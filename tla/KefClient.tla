------------------------------ MODULE KefClient ------------------------------
(***************************************************************************)
(* LsxClient: operations that share one speaker through a lock, each with  *)
(* a TCP connection of its own.  An operation waits for the lock, connects,*)
(* writes its request, reads what the speaker sends in whatever pieces TCP *)
(* makes of it, closes the connection and lets the speaker recover.        *)
(*                                                                         *)
(* The speaker decides what it sends when it accepts a connection: whole   *)
(* frames and junk, described by "pieces".  Time is not measured: a        *)
(* timeout may expire whenever its clause is being executed.               *)
(***************************************************************************)
EXTENDS KefRegisters, FiniteSetsExt, SequencesExt

CONSTANTS Ops,         \* operations on the client
          None,        \* Python's None
          Requests,    \* what they ask, a subset of RequestKinds
          Answers,     \* the sequences of pieces the speaker may send
          ReadSize,    \* the most bytes one read returns
          MaxFrames    \* _MAX_FRAMES_PER_EXCHANGE

RequestKinds == {"get_source", "get_volume", "set"}

\* A piece of the stream: a frame, or bytes that are none.
Junk == [kind : {"junk"}, bytes : Seq(Byte)]
PieceBytes(piece) == IF piece.kind = "junk" THEN piece.bytes ELSE FrameBytes(piece)

\* How any stream of bytes is described: frames, and then perhaps something that
\* does not begin with a frame.
Described(sent) ==
    /\ sent \in Seq(GetFrame \cup SetStatusFrame \cup Junk)
    /\ \A i \in DOMAIN sent : sent[i].kind = "junk" =>
         /\ i = Len(sent) /\ sent[i].bytes # <<>>
         /\ Malformed(sent[i].bytes) \/ Incomplete(sent[i].bytes)

Closer == "async_close"   \* the caller of async_close

\* How an exchange ends: CommandRejectedError, an error of connecting, ...
ResultKinds == {"answered", "accepted", "rejected", "malformed", "lost", "timeout",
                "unconnected", "refused", "cancelled"}
Result == [kind : ResultKinds, sent : BOOLEAN]
Ended(kind, sent) == [kind |-> kind, sent |-> sent]

ASSUME ClientAssumption ==
    /\ None \notin Ops \cup Result /\ Closer \notin Ops
    /\ Requests \subseteq RequestKinds
    /\ MaxFrames \in Nat \ {0} /\ ReadSize \in Nat \ {0} /\ ReadSize + 4 <= BufferLimit
    /\ \A sent \in Answers : Described(sent)

VARIABLES
    stage,     \* per operation: where it is
    request,   \* per operation: what it asks
    result,    \* per operation: None, or how the exchange ended so far
    lock,      \* _exchange_lock: its holder, then the waiters in order
    closer,    \* "open", "waiting" or "closed", which is _closed
    line,      \* the speaker's only connection: "free", "used" or "closing"
    received,  \* operations whose request was written
    pieces,    \* what the speaker sends on this connection ...
    taken,     \* ... and how many bytes of it were read
    buffer,    \* FrameParser._buffer
    examined,  \* frames_examined
    answer     \* what the exchange in hand returns

exchangeVars == <<pieces, taken, buffer, examined, answer>>
vars == <<stage, request, result, lock, closer, line, received, exchangeVars>>

Stages == {"idle", "waiting", "connecting", "responding", "closing", "resting", "done", "cut"}
OnLine == {"connecting", "responding", "closing", "resting"}

Init ==
    /\ stage = [o \in Ops |-> "idle"]
    /\ request = [o \in Ops |-> None]
    /\ result = [o \in Ops |-> None]
    /\ lock = <<>> /\ closer = "open" /\ line = "free" /\ received = {}
    /\ pieces = <<>> /\ taken = 0 /\ buffer = <<>> /\ examined = 0 /\ answer = None

Stream == FlattenSeq([i \in DOMAIN pieces |-> PieceBytes(pieces[i])])

Holds(o) == lock # <<>> /\ Head(lock) = o

\* Mutant of Without: whoever gives up stays in line for the lock.
StaysInLine(o) == lock

Without(o) == RemoveAt(lock, CHOOSE i \in DOMAIN lock : lock[i] = o)

\* The stream, the parser and the answer belong to one exchange.
Forget == pieces' = <<>> /\ taken' = 0 /\ buffer' = <<>> /\ examined' = 0 /\ answer' = None

-----------------------------------------------------------------------------
(* Taking the lock and connecting *)

Call(o) ==
    /\ stage[o] = "idle"
    /\ \E r \in Requests : request' = [request EXCEPT ![o] = r]
    /\ stage' = [stage EXCEPT ![o] = "waiting"]
    /\ lock' = Append(lock, o)
    /\ UNCHANGED <<result, closer, line, received, exchangeVars>>

\* Mutant of BeginConnect: _closed was looked at before the lock was awaited.
BeginConnectUnchecked(o) ==
    /\ stage[o] = "waiting" /\ Holds(o)
    /\ stage' = [stage EXCEPT ![o] = "connecting"]
    /\ UNCHANGED <<request, result, lock, closer, line, received, exchangeVars>>

\* The lock was released to the operation, on a client that is open.
BeginConnect(o) ==
    /\ stage[o] = "waiting" /\ Holds(o) /\ closer # "closed"
    /\ stage' = [stage EXCEPT ![o] = "connecting"]
    /\ UNCHANGED <<request, result, lock, closer, line, received, exchangeVars>>

\* ClientClosedError
RefuseClosed(o) ==
    /\ stage[o] = "waiting" /\ Holds(o) /\ closer = "closed"
    /\ stage' = [stage EXCEPT ![o] = "done"]
    /\ result' = [result EXCEPT ![o] = Ended("refused", FALSE)]
    /\ lock' = Tail(lock)
    /\ UNCHANGED <<request, closer, line, received, exchangeVars>>

\* Mutant of ConnectFails: the lock is not released.
ConnectFailsHoldingLock(o) ==
    /\ stage[o] = "connecting"
    /\ stage' = [stage EXCEPT ![o] = "done"]
    /\ result' = [result EXCEPT ![o] = Ended("unconnected", FALSE)]
    /\ UNCHANGED <<request, lock, closer, line, received, exchangeVars>>

\* Connecting timed out, was refused or failed: there is nothing to clean up.
ConnectFails(o) ==
    /\ stage[o] = "connecting"
    /\ stage' = [stage EXCEPT ![o] = "done"]
    /\ result' = [result EXCEPT ![o] = Ended("unconnected", FALSE)]
    /\ lock' = Tail(lock)
    /\ UNCHANGED <<request, closer, line, received, exchangeVars>>

\* The connection is accepted in the moment in which connecting times out or is
\* cancelled: asyncio closes the socket, and nobody waits for the speaker.
ConnectAbandoned(o) ==
    /\ stage[o] = "connecting"
    /\ stage' = [stage EXCEPT ![o] = "cut"]
    /\ \E kind \in {"unconnected", "cancelled"} : result' = [result EXCEPT ![o] = Ended(kind, FALSE)]
    /\ line' = "closing"
    /\ lock' = Tail(lock)
    /\ UNCHANGED <<request, closer, received, exchangeVars>>

\* The request is written at once, before anything is awaited.
Connected(o) ==
    /\ stage[o] = "connecting"
    /\ stage' = [stage EXCEPT ![o] = "responding"]
    /\ line' = "used"
    /\ received' = received \cup {o}
    /\ pieces' \in Answers
    /\ UNCHANGED <<request, result, lock, closer, taken, buffer, examined, answer>>

-----------------------------------------------------------------------------
(* Reading *)

\* Mutant of Decides: any value answers a GET.
DecidesAnyValue(r, frame) == frame.kind = "status" \/ r # "set"

\* The frames that end the exchange; values of other registers are skipped.
Decides(r, frame) ==
    \/ frame.kind = "status"
    \/ r = "get_source" /\ frame.register = SOURCE_REGISTER
    \/ r = "get_volume" /\ frame.register = VOLUME_REGISTER

Decoded(r, value) == IF r = "get_source" THEN DecodeSource(value) ELSE DecodeVolume(value)

\* What a frame that ends the exchange makes of it.  The value is decoded when
\* the exchange has returned, but nothing can change it until then.
Verdict(r, frame) ==
    IF frame.kind = "get"
    THEN IF Decoded(r, frame.value) = Undecodable THEN "malformed" ELSE "answered"
    ELSE IF r # "set" THEN "malformed"
    ELSE IF frame.status = SET_OK_STATUS THEN "accepted" ELSE "rejected"

Finish(o, kind) ==
    /\ stage' = [stage EXCEPT ![o] = "closing"]
    /\ result' = [result EXCEPT ![o] = Ended(kind, TRUE)]
    /\ line' = "closing"

TooMany(count) == count > MaxFrames

\* A chunk arrives: the parser is fed and its frames are looked at in order.
Read(o) ==
    /\ stage[o] = "responding"
    /\ \E size \in 1..Min({ReadSize, Len(Stream) - taken}) :
         LET fed    == Feed(buffer, SubSeq(Stream, taken + 1, taken + size))
             deciding == {i \in DOMAIN fed.frames : Decides(request[o], fed.frames[i])}
             seen   == IF deciding = {} THEN Len(fed.frames) ELSE Min(deciding)
         IN  /\ taken' = taken + size
             /\ buffer' = fed.rest
             /\ examined' = examined + seen
             /\ \/ /\ fed.failed \/ TooMany(examined + seen)
                   /\ Finish(o, "malformed")
                   /\ UNCHANGED answer
                \/ /\ ~fed.failed /\ ~TooMany(examined + seen) /\ deciding # {}
                   /\ Finish(o, Verdict(request[o], fed.frames[seen]))
                   /\ answer' = IF fed.frames[seen].kind = "get"
                                THEN Decoded(request[o], fed.frames[seen].value) ELSE None
                \/ /\ ~fed.failed /\ ~TooMany(examined + seen) /\ deciding = {}
                   /\ UNCHANGED <<stage, result, line, answer>>
    /\ UNCHANGED <<request, lock, closer, received, pieces>>

\* The speaker ends the stream.
EndOfStream(o) ==
    /\ stage[o] = "responding" /\ taken = Len(Stream)
    /\ Finish(o, IF buffer # <<>> THEN "malformed" ELSE "lost")
    /\ UNCHANGED <<request, lock, closer, received, exchangeVars>>

\* The connection breaks while the request is drained or the answer awaited.
Break(o) ==
    /\ stage[o] = "responding"
    /\ Finish(o, "lost")
    /\ UNCHANGED <<request, lock, closer, received, exchangeVars>>

\* The response timeout or the deadline of the command expires.
ResponseTimesOut(o) ==
    /\ stage[o] = "responding"
    /\ Finish(o, IF buffer # <<>> THEN "malformed" ELSE "timeout")
    /\ UNCHANGED <<request, lock, closer, received, exchangeVars>>

-----------------------------------------------------------------------------
(* Cleaning up, giving up, closing *)

\* The stream closed, was aborted after close_timeout, or was lost anyway.
WriterCloses(o) ==
    /\ stage[o] = "closing"
    /\ stage' = [stage EXCEPT ![o] = "resting"]
    /\ UNCHANGED <<request, result, lock, closer, line, received, exchangeVars>>

\* After reconnect_delay the speaker listens again and the lock is released.
ReconnectDelayEnds(o) ==
    /\ stage[o] = "resting"
    /\ stage' = [stage EXCEPT ![o] = "done"]
    /\ line' = "free"
    /\ lock' = Tail(lock)
    /\ Forget
    /\ UNCHANGED <<request, result, closer, received>>

\* Cancelled before there is a connection.
CancelEarly(o) ==
    /\ stage[o] \in {"waiting", "connecting"}
    /\ stage' = [stage EXCEPT ![o] = "done"]
    /\ result' = [result EXCEPT ![o] = Ended("cancelled", FALSE)]
    /\ lock' = Without(o)
    /\ UNCHANGED <<request, closer, line, received, exchangeVars>>

\* Mutant of CancelExchange: the connection is not closed.
CancelLeavesConnection(o) ==
    /\ stage[o] = "responding"
    /\ stage' = [stage EXCEPT ![o] = "done"]
    /\ result' = [result EXCEPT ![o] = Ended("cancelled", TRUE)]
    /\ lock' = Tail(lock)
    /\ Forget
    /\ UNCHANGED <<request, closer, line, received>>

\* Cancelled during the exchange: the finally clause cleans up all the same.
CancelExchange(o) ==
    /\ stage[o] = "responding"
    /\ Finish(o, "cancelled")
    /\ UNCHANGED <<request, lock, closer, received, exchangeVars>>

\* Cancelled during the cleanup: what is left of it is skipped.
CancelCleanup(o) ==
    /\ stage[o] \in {"closing", "resting"}
    /\ stage' = [stage EXCEPT ![o] = "cut"]
    /\ result' = [result EXCEPT ![o] = Ended("cancelled", TRUE)]
    /\ lock' = Tail(lock)
    /\ Forget
    /\ UNCHANGED <<request, closer, line, received>>

\* The speaker recovers from a connection nobody waits for any more.
LineRecovers ==
    /\ line = "closing" /\ \A o \in Ops : stage[o] \notin {"closing", "resting"}
    /\ line' = "free"
    /\ UNCHANGED <<stage, request, result, lock, closer, received, exchangeVars>>

CallClose ==
    /\ closer = "open"
    /\ closer' = "waiting"
    /\ lock' = Append(lock, Closer)
    /\ UNCHANGED <<stage, request, result, line, received, exchangeVars>>

\* Whoever gets the lock finds no active writer: its owner has cleaned up.
Close ==
    /\ closer = "waiting" /\ Holds(Closer)
    /\ closer' = "closed"
    /\ lock' = Tail(lock)
    /\ UNCHANGED <<stage, request, result, line, received, exchangeVars>>

\* What happens to an operation in time even if the speaker does nothing.
Advance(o) ==
    \/ BeginConnect(o) \/ RefuseClosed(o) \/ ConnectFails(o)
    \/ ResponseTimesOut(o) \/ WriterCloses(o) \/ ReconnectDelayEnds(o)

Speaker(o) == Connected(o) \/ ConnectAbandoned(o) \/ Read(o) \/ EndOfStream(o) \/ Break(o)

Cancel(o) == CancelEarly(o) \/ CancelExchange(o) \/ CancelCleanup(o)

Next ==
    \/ \E o \in Ops : Call(o) \/ Advance(o) \/ Speaker(o) \/ Cancel(o)
    \/ LineRecovers \/ CallClose \/ Close

Spec == Init /\ [][Next]_vars

\* Every wait of an exchange has a timeout, and the lock is handed on in order.
Fairness == WF_vars(Close) /\ \A o \in Ops : WF_vars(Advance(o))

FairSpec == Spec /\ Fairness

-----------------------------------------------------------------------------
(* Safety *)

TypeOK ==
    /\ stage \in [Ops -> Stages]
    /\ request \in [Ops -> Requests \cup {None}]
    /\ result \in [Ops -> Result \cup {None}]
    /\ lock \in Seq(Ops \cup {Closer})
    /\ closer \in {"open", "waiting", "closed"}
    /\ line \in {"free", "used", "closing"}
    /\ received \subseteq Ops
    /\ pieces \in Answers \cup {<<>>}
    /\ taken \in Nat
    /\ buffer \in Seq(Byte)
    /\ examined \in Nat
    /\ answer \in SourceStatus \cup VolumeStatus \cup {None, Undecodable}

\* The speaker accepts one connection at a time and needs a while to recover
\* (client.py:260): an operation connects only when it has, unless the cleanup of
\* an earlier operation was itself cancelled, or the earlier operation was given up
\* in the moment it connected: an exchange that ran its course never is in the way.
OneConnection ==
    (\E o \in Ops : stage[o] = "connecting") => line = "free" \/ \E o \in Ops : stage[o] = "cut"

\* Number of bytes of the first n pieces.
BytesUpTo(n) == Len(FlattenSeq([i \in 1..n |-> PieceBytes(pieces[i])]))

\* The pieces an operation must not skip: all but values of other registers.
Asked(o) == IF request[o] = "get_source" THEN SOURCE_REGISTER ELSE VOLUME_REGISTER
Telling(o) ==
    {i \in DOMAIN pieces :
        pieces[i].kind = "get" => request[o] # "set" /\ pieces[i].register = Asked(o)}
ReadWhole(i) == BytesUpTo(i) <= taken

\* However TCP splits or joins the answers, an operation that returns does so with
\* the first frame of the stream that concerns it, after no more than MaxFrames
\* others, and with what that frame says (test_protocol.py:78, "TCP chunk
\* boundaries and combined frames do not change framing").
RightAnswer ==
    \A o \in Ops :
        stage[o] = "closing" /\ result[o].kind \in {"answered", "accepted", "rejected"} =>
            /\ Telling(o) # {}
            /\ LET i == Min(Telling(o)) IN
                 /\ ReadWhole(i) /\ i <= MaxFrames
                 /\ IF result[o].kind = "answered"
                    THEN pieces[i].kind = "get" /\ answer = Decoded(request[o], pieces[i].value)
                    ELSE /\ pieces[i].kind = "status" /\ request[o] = "set"
                         /\ result[o].kind = "accepted" <=> pieces[i].status = SET_OK_STATUS

\* A status in place of a value, or a value that means nothing.
Unfit(o, frame) ==
    \/ frame.kind = "status" /\ request[o] # "set"
    \/ frame.kind = "get" /\ Decoded(request[o], frame.value) = Undecodable

\* Nothing is called malformed without a reason in what was read: junk, a frame
\* read in part, more frames than the limit, or an answer that does not fit.
MalformedHasReason ==
    \A o \in Ops :
        stage[o] = "closing" /\ result[o].kind = "malformed" =>
            \/ \E i \in DOMAIN pieces : pieces[i].kind = "junk" /\ BytesUpTo(i - 1) < taken
            \/ \A n \in 0..Len(pieces) : BytesUpTo(n) # taken
            \/ \E i \in DOMAIN pieces : ReadWhole(i) /\ i > MaxFrames
            \/ /\ Telling(o) # {} /\ ReadWhole(Min(Telling(o)))
               /\ Unfit(o, pieces[Min(Telling(o))])

\* What the speaker was set to is what a later GET reports, for every input,
\* standby time, orientation and power, and for every volume: decoding undoes
\* encoding, and no encoded byte is refused when it is all the speaker sends.
ReadsWhatWasSet ==
    \A o \in Ops :
        /\ stage[o] = "closing" /\ result[o].kind \in {"answered", "malformed"}
        /\ Len(pieces) = 1 /\ Telling(o) = {1} /\ pieces[1].kind = "get" /\ ReadWhole(1)
        => CASE request[o] = "get_source" ->
                  \A s \in SourceStatus : EncodeSource(s) = pieces[1].value => answer = s
             [] request[o] = "get_volume" ->
                  \A s \in VolumeStatus : EncodeVolume(s) = pieces[1].value => answer = s

\* Between two chunks the parser keeps less than one frame, so its limit on
\* the buffer, far above what one read returns, is never reached.
LittleBuffered == Len(buffer) < 5

-----------------------------------------------------------------------------
(* The promise to the runtime, and termination *)

EndKind(kind) == IF kind \in {"answered", "accepted", "rejected", "cancelled"} THEN kind ELSE "failed"

\* The holder of the lock, once it is past waiting; and what an operation that is
\* over ended with.
User == IF lock # <<>> /\ Head(lock) \in Ops /\ stage[Head(lock)] \in OnLine
        THEN Head(lock) ELSE None
Outcome == [o \in Ops |-> IF stage[o] \in {"done", "cut"}
                          THEN Ended(EndKind(result[o].kind), result[o].sent) ELSE None]

Line == INSTANCE KefLine WITH user <- User, outcome <- Outcome, shut <- closer = "closed"

\* The client keeps the promise of KefLine: exclusive use, one request per
\* operation, truth about what was sent, silence after closing.
LineKept == Line!LineSpec

\* An operation comes to an end, and so does closing, with a speaker that never
\* answers.
OperationsEnd == \A o \in Ops : stage[o] = "waiting" ~> stage[o] \in {"done", "cut"}
CloseEnds == closer = "waiting" ~> closer = "closed"
=============================================================================
