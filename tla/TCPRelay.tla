------------------------------ MODULE TCPRelay ------------------------------
(***************************************************************************)
(* One connection of the layer-4 proxy while it is open: relay and copy of  *)
(* proxy/tcp.go, with closeWrite of proxy/websocket.go.  Two goroutines     *)
(* copy chunks, one per direction; each applies its hook, counts what it    *)
(* wrote and half-closes its destination when it ends.  The watcher of      *)
(* handle may close both connections at any time; handle reports the two    *)
(* counts to OnClose once both goroutines are done.                         *)
(*                                                                         *)
(* A chunk is an abstract token, numbered in the order its sender wrote it. *)
(* A chunk is written whole or not at all.                                  *)
(***************************************************************************)
EXTENDS Integers, Sequences

CONSTANTS
    MaxUp,         \* bound: chunks the client writes
    MaxDown        \* bound: chunks the upstream writes

ASSUME RelayAssumption ==
    MaxUp \in Nat /\ MaxDown \in Nat

Dirs == {"up", "down"}
Peers == {"client", "upstream"}
Src(d) == IF d = "up" THEN "client" ELSE "upstream"
Dst(d) == IF d = "up" THEN "upstream" ELSE "client"
MaxChunks(d) == IF d = "up" THEN MaxUp ELSE MaxDown

VARIABLES
    idleTimeout,  \* TCPConfig.IdleTimeout > 0
    halfCloser,   \* peers whose transport has CloseWrite (not a cmux conn)
    closed,       \* connections the proxy has closed
    reset,        \* peers that have reset their connection
    ctxDone,      \* the serve context is done
    sent,         \* per direction, chunks the source has written
    buf,          \* per direction, chunks not yet read by copy
    eof,          \* per direction, the source has closed its write side
    pc,           \* per direction, the copy goroutine
    cur,          \* per direction, the chunk being handled
    last,         \* per direction, Read returned EOF together with cur
    passed,       \* per direction, chunks the hook let through
    out,          \* per direction, chunks written to the destination
    outEof,       \* per direction, the destination has been half-closed
    total,        \* per direction, the counter of copy
    why,          \* per direction, how copy ended
    handler       \* handle: "relay", "onclose" (both waited for), "done"

peerVars == <<idleTimeout, halfCloser, sent, eof, reset>>
vars == <<idleTimeout, halfCloser, closed, reset, ctxDone, sent, buf, eof, pc,
          cur, last, passed, out, outEof, total, why, handler>>

Init ==
    /\ idleTimeout \in BOOLEAN
    /\ halfCloser \in {Peers, {"upstream"}}
    /\ closed = {} /\ reset = {} /\ ctxDone = FALSE
    /\ sent = [d \in Dirs |-> 0]
    /\ buf = [d \in Dirs |-> <<>>]
    /\ eof = [d \in Dirs |-> FALSE]
    /\ pc = [d \in Dirs |-> "read"]
    /\ cur = [d \in Dirs |-> 0]
    /\ last = [d \in Dirs |-> FALSE]
    /\ passed = [d \in Dirs |-> <<>>]
    /\ out = [d \in Dirs |-> <<>>]
    /\ outEof = [d \in Dirs |-> FALSE]
    /\ total = [d \in Dirs |-> 0]
    /\ why = [d \in Dirs |-> "running"]
    /\ handler = "relay"

-----------------------------------------------------------------------------
(* The peers. *)

Live(p) == p \notin closed /\ p \notin reset

PeerWrite(d) ==
    /\ Live(Src(d)) /\ ~eof[d] /\ sent[d] < MaxChunks(d)
    /\ sent' = [sent EXCEPT ![d] = @ + 1]
    /\ buf' = [buf EXCEPT ![d] = Append(@, sent[d] + 1)]
    /\ UNCHANGED <<idleTimeout, halfCloser, closed, reset, ctxDone, eof, pc, cur, last,
                   passed, out, outEof, total, why, handler>>

PeerEof(d) ==
    /\ Live(Src(d)) /\ ~eof[d]
    /\ eof' = [eof EXCEPT ![d] = TRUE]
    /\ UNCHANGED <<idleTimeout, halfCloser, closed, reset, ctxDone, sent, buf, pc, cur,
                   last, passed, out, outEof, total, why, handler>>

(* Bound: at most one of the two peers resets its connection. *)
PeerReset(p) ==
    /\ reset = {} /\ Live(p)
    /\ reset' = reset \cup {p}
    /\ UNCHANGED <<idleTimeout, halfCloser, closed, ctxDone, sent, buf, eof, pc, cur, last,
                   passed, out, outEof, total, why, handler>>

(* Stop cancels the serve context ... *)
Cancel ==
    /\ ~ctxDone
    /\ ctxDone' = TRUE
    /\ UNCHANGED <<peerVars, closed, buf, pc, cur, last, passed, out, outEof,
                   total, why, handler>>

(* ... and the watcher goroutine of handle closes both connections. *)
Watcher ==
    /\ ctxDone /\ handler = "relay" /\ closed # Peers
    /\ closed' = Peers
    /\ UNCHANGED <<peerVars, ctxDone, buf, pc, cur, last, passed, out, outEof,
                   total, why, handler>>

-----------------------------------------------------------------------------
(* copy, for direction d. *)

copyFrame == <<peerVars, ctxDone, handler>>

(* The chunk is a local of one turn of the loop. *)
Forget(d) ==
    /\ cur' = [cur EXCEPT ![d] = 0]
    /\ last' = [last EXCEPT ![d] = FALSE]

(* copy returns. *)
End(d, reason) ==
    /\ Forget(d)
    /\ pc' = [pc EXCEPT ![d] = "ended"]
    /\ why' = [why EXCEPT ![d] = reason]

(* Read returns a chunk.  The last one may come together with EOF. *)
Read(d) ==
    /\ pc[d] = "read" /\ Live(Src(d)) /\ buf[d] # <<>>
    /\ cur' = [cur EXCEPT ![d] = Head(buf[d])]
    /\ buf' = [buf EXCEPT ![d] = Tail(@)]
    /\ \E e \in {FALSE, eof[d] /\ Tail(buf[d]) = <<>>} :
          last' = [last EXCEPT ![d] = e]
    /\ pc' = [pc EXCEPT ![d] = "hook"]
    /\ UNCHANGED <<copyFrame, closed, passed, out, outEof, total, why>>

(* Read returns no bytes and an error: EOF, a reset, a connection the proxy
   closed itself, or the read deadline. *)
ReadEnd(d) ==
    /\ pc[d] = "read"
    /\ \/ Src(d) \in closed /\ End(d, "closed")
       \/ Src(d) \in reset /\ Src(d) \notin closed /\ End(d, "reset")
       \/ Live(Src(d)) /\ buf[d] = <<>> /\ eof[d] /\ End(d, "eof")
    /\ UNCHANGED <<copyFrame, closed, buf, passed, out, outEof, total>>

(* Mutant of ReadTimeout: the client's deadline is never set. *)
ReadTimeoutUpstreamOnly(d) ==
    /\ idleTimeout /\ d = "down"
    /\ pc[d] = "read" /\ Live(Src(d)) /\ buf[d] = <<>> /\ ~eof[d]
    /\ End(d, "timeout")
    /\ UNCHANGED <<copyFrame, closed, buf, passed, out, outEof, total>>

(* The deadline set before Read expires; it watches this direction only. *)
ReadTimeout(d) ==
    /\ idleTimeout
    /\ pc[d] = "read" /\ Live(Src(d)) /\ buf[d] = <<>> /\ ~eof[d]
    /\ End(d, "timeout")
    /\ UNCHANGED <<copyFrame, closed, buf, passed, out, outEof, total>>

(* What follows a chunk: the error that Read returned with it, or the next
   Read. *)
AfterChunk(d) ==
    IF last[d] THEN End(d, "eof")
               ELSE Forget(d) /\ pc' = [pc EXCEPT ![d] = "read"] /\ UNCHANGED why

(* The hook, or its absence, forwards the chunk. *)
HookPass(d) ==
    /\ pc[d] = "hook"
    /\ passed' = [passed EXCEPT ![d] = Append(@, cur[d])]
    /\ pc' = [pc EXCEPT ![d] = "write"]
    /\ UNCHANGED <<copyFrame, closed, buf, cur, last, out, outEof, total, why>>

(* The hook returns no bytes: the chunk is dropped. *)
HookDrop(d) ==
    /\ pc[d] = "hook"
    /\ AfterChunk(d)
    /\ UNCHANGED <<copyFrame, closed, buf, passed, out, outEof, total>>

(* The hook returns an error: copy returns it. *)
HookErr(d) ==
    /\ pc[d] = "hook"
    /\ End(d, "hook")
    /\ UNCHANGED <<copyFrame, closed, buf, passed, out, outEof, total>>

(* Mutant of Write: the error that came with the chunk is forgotten, and so
   is the chunk of a direction whose destination is gone. *)
WriteIgnoresErr(d) ==
    /\ pc[d] = "write"
    /\ out' = [out EXCEPT ![d] = IF Live(Dst(d)) THEN Append(@, cur[d]) ELSE @]
    /\ total' = [total EXCEPT ![d] = @ + 1]
    /\ AfterChunk(d)
    /\ UNCHANGED <<copyFrame, closed, buf, passed, outEof>>

(* Write succeeds. *)
Write(d) ==
    /\ pc[d] = "write" /\ Live(Dst(d))
    /\ out' = [out EXCEPT ![d] = Append(@, cur[d])]
    /\ total' = [total EXCEPT ![d] = @ + 1]
    /\ AfterChunk(d)
    /\ UNCHANGED <<copyFrame, closed, buf, passed, outEof>>

(* Write fails: the destination is closed or reset, or the write deadline
   expires. *)
WriteErr(d) ==
    /\ pc[d] = "write"
    /\ idleTimeout \/ ~Live(Dst(d))
    /\ End(d, "write")
    /\ UNCHANGED <<copyFrame, closed, buf, passed, out, outEof, total>>

(* Mutant of CloseWrite: the destination is always closed. *)
CloseWriteCloses(d) ==
    /\ pc[d] = "ended"
    /\ pc' = [pc EXCEPT ![d] = "done"]
    /\ outEof' = [outEof EXCEPT ![d] = TRUE]
    /\ closed' = closed \cup {Dst(d)}
    /\ UNCHANGED <<copyFrame, buf, cur, last, passed, out, total, why>>

(* Mutant of CloseWrite: the end of a direction is not passed on. *)
CloseWriteMissing(d) ==
    /\ pc[d] = "ended"
    /\ pc' = [pc EXCEPT ![d] = "done"]
    /\ UNCHANGED <<copyFrame, closed, buf, cur, last, passed, out, outEof,
                   total, why>>

(* closeWrite(dst) after copy: CloseWrite when the transport has it, Close
   when it has not; then wg.Done. *)
CloseWrite(d) ==
    /\ pc[d] = "ended"
    /\ pc' = [pc EXCEPT ![d] = "done"]
    /\ outEof' = [outEof EXCEPT ![d] = TRUE]
    /\ closed' = IF Dst(d) \in halfCloser THEN closed ELSE closed \cup {Dst(d)}
    /\ UNCHANGED <<copyFrame, buf, cur, last, passed, out, total, why>>

(* wg.Wait() returns in relay; OnClose gets the two counts. *)
RelayDone ==
    /\ handler = "relay"
    /\ \A d \in Dirs : pc[d] = "done"
    /\ handler' = "onclose"
    /\ UNCHANGED <<peerVars, closed, ctxDone, buf, pc, cur, last, passed, out,
                   outEof, total, why>>

(* handle returns; its deferred calls close both connections. *)
HandleReturn ==
    /\ handler = "onclose"
    /\ handler' = "done"
    /\ closed' = Peers
    /\ UNCHANGED <<peerVars, ctxDone, buf, pc, cur, last, passed, out, outEof,
                   total, why>>

(* The steps of copy that wait for nobody, or only until a deadline ... *)
CopyRuns(d) ==
    \/ Read(d) \/ ReadEnd(d) \/ ReadTimeout(d)
    \/ HookPass(d) \/ HookDrop(d) \/ HookErr(d)
    \/ WriteErr(d)
    \/ CloseWrite(d)

(* ... and the one that waits for the destination to read. *)
CopyStep(d) == CopyRuns(d) \/ Write(d)

Next ==
    \/ \E d \in Dirs : CopyStep(d) \/ PeerWrite(d) \/ PeerEof(d)
    \/ \E p \in Peers : PeerReset(p)
    \/ Cancel \/ Watcher \/ RelayDone \/ HandleReturn

Spec == Init /\ [][Next]_vars

(* Goroutines run, hooks return, and an expired deadline wakes its Read or
   Write.  The peers owe nothing: one that does not read blocks the Write to
   it, for ever if no IdleTimeout sets a deadline. *)
Fairness ==
    /\ \A d \in Dirs : WF_vars(CopyRuns(d))
    /\ WF_vars(Watcher)
    /\ WF_vars(RelayDone)
    /\ WF_vars(HandleReturn)

FairSpec == Spec /\ Fairness

-----------------------------------------------------------------------------
(* Properties. *)

IsPrefix(s, t) == Len(s) <= Len(t) /\ s = SubSeq(t, 1, Len(s))
Increasing(s) == \A i, j \in 1..Len(s) : i < j => s[i] < s[j]

(* What a destination receives is what the hook let through, in the order the
   source wrote it, without a gap or a repetition; only the chunk being
   written may be missing, and the count that OnClose reports is the number
   of chunks delivered.  A destination that sees the end of a stream its source
   closed cleanly has been given all of it. *)
StreamFaithful ==
    \A d \in Dirs :
        /\ IsPrefix(out[d], passed[d])
        /\ Len(passed[d]) - Len(out[d]) =
             IF pc[d] = "write" \/ why[d] = "write" THEN 1 ELSE 0
        /\ Increasing(passed[d])
        /\ total[d] = Len(out[d])
        /\ outEof[d] /\ why[d] = "eof" => buf[d] = <<>> /\ out[d] = passed[d]

(* The end of one direction does not cut the other: while the context is
   live, the proxy itself closes a connection under a running copy only when
   that transport cannot half-close and the other direction has ended.  "The
   peer sees EOF while still being able to flush its own remaining bytes"
   (websocket.go:143-144). *)
HalfCloseKeepsOther ==
    \A d \in Dirs :
        why[d] = "closed" =>
            ctxDone \/ (Src(d) \notin halfCloser /\ \E e \in Dirs : e # d /\ outEof[e])

(* A shut-down ends the connection whatever its two copies are doing, and an
   idle time-out ends one whose peers fall silent, even if neither of them
   ever closes (tcp.go:348-359, 406-411). *)
RelayEnds == (ctxDone \/ idleTimeout) ~> handler = "done"

(* copy is in a Write that has no deadline. *)
Blocked(d) == pc[d] = "write" /\ ~idleTimeout

(* A source's end of stream reaches the destination, whatever the hooks do with
   the chunks before it, unless that connection is gone or stops reading for
   good where no time-out is configured (tcp.go:422-426, 384, 394). *)
EofReachesDestination ==
    \A d \in Dirs : eof[d] ~> (outEof[d] \/ Dst(d) \in closed \/ []Blocked(d))

=============================================================================
