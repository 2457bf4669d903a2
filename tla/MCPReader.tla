------------------------------ MODULE MCPReader ------------------------------
(***************************************************************************)
(* The size limit of an MCP request (protocol/mcp/server.go): a            *)
(* limitedReader under a json.Decoder, reset before each request.  The       *)
(* decoder reads ahead: what is left in its buffer when the counter is reset  *)
(* is never counted again.  External: the decoder asks for more only while     *)
(* its buffer does not hold the whole request.                               *)
(***************************************************************************)
EXTENDS Naturals

CONSTANTS
    Max,        \* MCPConfig.MaxRequestBytes
    MaxSize,    \* bound on the size of a request
    MaxCount    \* bound on the requests of a connection

VARIABLES
    size,     \* the request that is being read
    sent,     \* bytes of it and of later ones that have arrived
    buffer,   \* bytes of the decoder's buffer, from the start of the request
    n,        \* limitedReader.n
    count,    \* requests decoded
    outcome   \* of the last step: "reading", "decoded", "refused"

vars == <<size, sent, buffer, n, count, outcome>>

Init ==
    /\ size = 0 /\ sent = 0 /\ buffer = 0 /\ n = 0 /\ count = 0
    /\ outcome = "decoded"

(* The client writes, requests back to back. *)
Arrive(k) ==
    /\ sent + k <= MaxSize
    /\ sent' = sent + k
    /\ UNCHANGED <<size, buffer, n, count, outcome>>

(* Mutant of Allowed: the buffer's size in the place of what is left. *)
AllowedWhole == Max

(* The slice that limitedReader leaves of the one it is given. *)
Allowed == Max - n

(* Read gives the decoder k of the bytes that have arrived. *)
Read(k) ==
    /\ outcome = "reading" /\ buffer < size
    /\ k <= sent /\ k <= Allowed
    /\ buffer' = buffer + k
    /\ n' = n + k
    /\ sent' = sent - k
    /\ UNCHANGED <<size, count, outcome>>

(* The buffer holds the request: it is handled. *)
Decode ==
    /\ outcome = "reading" /\ buffer >= size
    /\ buffer' = buffer - size
    /\ count' = count + 1
    /\ outcome' = "decoded"
    /\ UNCHANGED <<size, sent, n>>

(* reset, before each request; size counts the space in front of it. *)
Reset(s) ==
    /\ outcome = "decoded" /\ count < MaxCount
    /\ n' = 0
    /\ size' = s
    /\ outcome' = "reading"
    /\ UNCHANGED <<sent, buffer, count>>

(* The reader refuses and the connection is closed. *)
TooLarge ==
    /\ outcome = "reading" /\ buffer < size
    /\ n >= Max
    /\ outcome' = "refused"
    /\ UNCHANGED <<size, sent, buffer, n, count>>

Next ==
    \/ \E k \in 1..MaxSize : Arrive(k) \/ Read(k) \/ Reset(k)
    \/ Decode
    \/ TooLarge

-----------------------------------------------------------------------------
(* MaxRequestBytes bounds a request only together with what the decoder had
   read ahead, less than the limit itself (server.go:80-92, 301-307): nothing
   of twice the limit is handled, nothing within it refused. *)
SizeBounded ==
    /\ outcome = "decoded" => size < 2 * Max
    /\ outcome = "refused" => size > Max

=============================================================================
