--------------------------- MODULE TCPRelayProofs ---------------------------
(***************************************************************************)
(* Proofs about TCPRelay for streams of any length: the two copies deliver  *)
(* what their hooks pass, in order and once, and neither cuts the other.    *)
(*                                                                         *)
(* Order is inductive because the unread chunks are always the latest ones  *)
(* the source wrote (Numbered) and everything passed on is older (Behind);  *)
(* delivery because passed and out differ by the chunk in hand (InHand);    *)
(* the clean end because an EOF seen with or after a chunk means that       *)
(* nothing is left to read (Ends); and the half-close because a closed      *)
(* connection always has a cause that no later step withdraws (Causes).     *)
(***************************************************************************)
EXTENDS TCPRelay, SequenceTheorems, TLAPS

CopyPC == {"read", "hook", "write", "ended", "done"}
Reasons == {"running", "closed", "reset", "eof", "timeout", "hook", "write"}

TypeOK ==
    /\ sent \in [Dirs -> Nat]
    /\ buf \in [Dirs -> Seq(Nat)]
    /\ pc \in [Dirs -> CopyPC]
    /\ cur \in [Dirs -> Nat]
    /\ passed \in [Dirs -> Seq(Nat)]
    /\ out \in [Dirs -> Seq(Nat)]
    /\ total \in [Dirs -> Nat]
    /\ why \in [Dirs -> Reasons]
    /\ handler \in {"relay", "onclose", "done"}

FlagsOK ==
    /\ eof \in [Dirs -> BOOLEAN]
    /\ last \in [Dirs -> BOOLEAN]
    /\ outEof \in [Dirs -> BOOLEAN]

(* The chunks not yet read are the last ones written. *)
Latest(s, n) == Len(s) <= n /\ \A i \in 1..Len(s) : s[i] = n - Len(s) + i
Numbered(d) == Latest(buf[d], sent[d])

(* The number of chunks that Read has returned. *)
Taken(d) == sent[d] - Len(buf[d])

(* A chunk in the hook is the latest one read; what was passed is older. *)
Behind(d) ==
    /\ pc[d] = "hook" => cur[d] = Taken(d)
    /\ \A i \in 1..Len(passed[d]) :
          passed[d][i] <= Taken(d) - (IF pc[d] = "hook" THEN 1 ELSE 0)

(* The chunk in hand, or the one whose Write failed, is all that separates
   what was passed from what was delivered. *)
InHand(d) ==
    /\ pc[d] = "write" => passed[d] = Append(out[d], cur[d])
    /\ why[d] = "write" => \E c \in Nat : passed[d] = Append(out[d], c)
    /\ pc[d] # "write" /\ why[d] # "write" => passed[d] = out[d]
    /\ total[d] = Len(out[d])

(* copy ends once; its end is clean only when nothing is left to read. *)
Ends(d) ==
    /\ why[d] = "running" <=> pc[d] \notin {"ended", "done"}
    /\ last[d] \/ why[d] = "eof" => eof[d] /\ buf[d] = <<>>
    /\ outEof[d] => pc[d] = "done"

(* Every connection the proxy has closed has a cause. *)
Causes ==
    /\ handler # "relay" => \A d \in Dirs : pc[d] = "done"
    /\ \A d \in Dirs : Dst(d) \in closed =>
          \/ ctxDone
          \/ handler = "done"
          \/ Dst(d) \notin halfCloser /\ outEof[d]

DirOK(d) ==
    Numbered(d) /\ Behind(d) /\ Increasing(passed[d]) /\ InHand(d) /\ Ends(d)

StreamInv == TypeOK /\ FlagsOK /\ \A d \in Dirs : DirOK(d)

-----------------------------------------------------------------------------
(* Facts about sequences. *)

(* Appending what exceeds every element keeps a sequence increasing. *)
LEMMA AppendIncreasing ==
    ASSUME NEW s \in Seq(Nat), NEW c \in Nat, Increasing(s),
           \A i \in 1..Len(s) : s[i] < c
    PROVE  Increasing(Append(s, c))
<1>1. /\ Append(s, c) \in Seq(Nat) /\ Len(Append(s, c)) = Len(s) + 1 /\ Len(s) \in Nat
      /\ \A i \in 1..Len(s) : Append(s, c)[i] = s[i] /\ s[i] \in Nat
      /\ Append(s, c)[Len(s) + 1] = c
  BY AppendProperties, LenProperties, ElementOfSeq
<1> SUFFICES ASSUME NEW i \in 1..(Len(s) + 1), NEW j \in 1..(Len(s) + 1), i < j
             PROVE  Append(s, c)[i] < Append(s, c)[j]
  BY <1>1 DEF Increasing
<1>2. i \in 1..Len(s)
  BY <1>1
<1>3. CASE j = Len(s) + 1
  BY <1>1, <1>2, <1>3
<1>4. CASE j # Len(s) + 1
  BY <1>1, <1>2, <1>4 DEF Increasing
<1> QED BY <1>3, <1>4

(* A sequence is a prefix of itself, and of itself with one more element. *)
LEMMA PrefixRefl == ASSUME NEW s \in Seq(Nat) PROVE IsPrefix(s, s)
BY LenProperties, SubSeqFull DEF IsPrefix

LEMMA PrefixAppend ==
    ASSUME NEW s \in Seq(Nat), NEW c \in Nat
    PROVE  IsPrefix(s, Append(s, c)) /\ Len(Append(s, c)) - Len(s) = 1
<1> DEFINE t == Append(s, c)
<1>1. /\ t \in Seq(Nat) /\ Len(t) = Len(s) + 1 /\ Len(s) \in Nat
      /\ \A i \in 1..Len(s) : t[i] = s[i]
  BY AppendProperties, LenProperties
<1> HIDE DEF t
<1>2. \A i \in 1..Len(s) : t[i] \in Nat
  BY <1>1, ElementOfSeq
<1>3. /\ SubSeq(t, 1, Len(s)) \in Seq(Nat) /\ Len(SubSeq(t, 1, Len(s))) = Len(s)
      /\ \A i \in 1..Len(s) : SubSeq(t, 1, Len(s))[i] = t[i]
  BY <1>1, <1>2, SubSeqProperties
<1>4. s = SubSeq(t, 1, Len(s))
  BY <1>1, <1>3, SeqEqual
<1> QED BY <1>1, <1>4 DEF IsPrefix, t

(* A source adds a chunk at the back of the buffer; Read takes one in front. *)
LEMMA AppendFacts ==
    ASSUME NEW s \in Seq(Nat), NEW c \in Nat
    PROVE  /\ Append(s, c) \in Seq(Nat) /\ Len(Append(s, c)) = Len(s) + 1 /\ Len(s) \in Nat
           /\ \A i \in 1..Len(s) : Append(s, c)[i] = s[i]
           /\ Append(s, c)[Len(s) + 1] = c
BY AppendProperties, LenProperties

LEMMA TailFacts ==
    ASSUME NEW s \in Seq(Nat), s # <<>>
    PROVE  /\ Tail(s) \in Seq(Nat) /\ Len(Tail(s)) = Len(s) - 1 /\ Len(s) \in Nat \ {0}
           /\ Head(s) = s[1] /\ Head(s) \in Nat
           /\ \A i \in 1..Len(Tail(s)) : Tail(s)[i] = s[i + 1]
<1>1. Len(s) \in Nat \ {0}
  BY EmptySeq
<1>2. Head(s) = s[1]
  OBVIOUS
<1> QED BY <1>1, <1>2, HeadTailProperties

LEMMA LatestAppend ==
    ASSUME NEW s \in Seq(Nat), NEW n \in Nat, Latest(s, n)
    PROVE  Latest(Append(s, n + 1), n + 1)
<1> DEFINE c == n + 1
           t == Append(s, c)
<1>1. c \in Nat
  OBVIOUS
<1>2. /\ Len(t) = Len(s) + 1 /\ Len(s) \in Nat
      /\ \A i \in 1..Len(s) : t[i] = s[i]
      /\ t[Len(s) + 1] = c
  BY <1>1, AppendFacts
<1> HIDE DEF t
<1>3. ASSUME NEW i \in 1..Len(t) PROVE t[i] = c - Len(t) + i
  <2>1. CASE i = Len(s) + 1
    BY <1>2, <2>1
  <2>2. CASE i \in 1..Len(s)
    BY <1>2, <2>2 DEF Latest
  <2> QED BY <1>2, <2>1, <2>2
<1> QED BY <1>2, <1>3 DEF Latest, t

LEMMA LatestTail ==
    ASSUME NEW s \in Seq(Nat), s # <<>>, NEW n \in Nat, Latest(s, n)
    PROVE  Latest(Tail(s), n) /\ Head(s) = n - Len(Tail(s))
<1> DEFINE t == Tail(s)
<1>1. /\ Len(t) = Len(s) - 1 /\ Len(s) \in Nat \ {0}
      /\ Head(s) = s[1] /\ \A i \in 1..Len(t) : t[i] = s[i + 1]
  BY TailFacts
<1> HIDE DEF t
<1>2. ASSUME NEW i \in 1..Len(t) PROVE t[i] = n - Len(t) + i
  <2>1. i + 1 \in 1..Len(s)
    BY <1>1
  <2>2. s[i + 1] = n - Len(s) + (i + 1)
    BY <2>1 DEF Latest
  <2> QED BY <1>1, <2>2
<1>3. Head(s) = n - Len(t)
  BY <1>1 DEF Latest
<1> QED BY <1>1, <1>2, <1>3 DEF Latest, t

-----------------------------------------------------------------------------
(* The streams. *)

LEMMA StreamInit == Init => StreamInv
<1> SUFFICES ASSUME Init PROVE StreamInv
  OBVIOUS
<1>1. <<>> \in Seq(Nat) /\ Len(<<>>) = 0
  BY EmptySeq
<1>2. TypeOK
  BY <1>1 DEF Init, TypeOK, CopyPC, Reasons
<1>3. FlagsOK
  BY DEF Init, FlagsOK
<1>4. ASSUME NEW d \in Dirs PROVE DirOK(d)
  BY <1>1 DEF Init, DirOK, Numbered, Latest, Behind, Taken, Increasing, InHand, Ends
<1> QED BY <1>2, <1>3, <1>4 DEF StreamInv

(* What a step does not touch in direction d. *)
SameDir(d) ==
    /\ sent'[d] = sent[d] /\ buf'[d] = buf[d] /\ eof'[d] = eof[d]
    /\ pc'[d] = pc[d] /\ cur'[d] = cur[d] /\ last'[d] = last[d]
    /\ passed'[d] = passed[d] /\ out'[d] = out[d] /\ outEof'[d] = outEof[d]
    /\ total'[d] = total[d] /\ why'[d] = why[d]

LEMMA SameDirOK == ASSUME NEW d, DirOK(d), SameDir(d) PROVE DirOK(d)'
BY DEF DirOK, SameDir, Numbered, Latest, Behind, Taken, Increasing, InHand, Ends

(* A step of one direction. *)
LEMMA OneDir ==
    ASSUME StreamInv, NEW d \in Dirs, TypeOK', FlagsOK', DirOK(d)',
           \A e \in Dirs : e # d => SameDir(e)
    PROVE  StreamInv'
BY SameDirOK DEF StreamInv

(* The source writes. *)
LEMMA PeerWriteStream == ASSUME StreamInv, NEW d \in Dirs, PeerWrite(d) PROVE StreamInv'
<1> DEFINE c == sent[d] + 1
<1>1. /\ sent[d] \in Nat /\ buf[d] \in Seq(Nat) /\ ~eof[d] /\ DirOK(d)
      /\ passed[d] \in Seq(Nat)
  BY DEF StreamInv, TypeOK, PeerWrite
<1>2. c \in Nat
  BY <1>1
<1>3. /\ Append(buf[d], c) \in Seq(Nat) /\ Len(Append(buf[d], c)) = Len(buf[d]) + 1
      /\ Len(buf[d]) \in Nat
      /\ \A i \in 1..Len(buf[d]) : Append(buf[d], c)[i] = buf[d][i]
      /\ Append(buf[d], c)[Len(buf[d]) + 1] = c
  BY <1>1, <1>2, AppendFacts
<1>4. sent'[d] = c /\ buf'[d] = Append(buf[d], c)
  BY DEF StreamInv, TypeOK, PeerWrite
<1>5. TypeOK' /\ FlagsOK'
  BY <1>2, <1>3 DEF StreamInv, TypeOK, FlagsOK, PeerWrite
<1>6. \A e \in Dirs : e # d => SameDir(e)
  BY DEF StreamInv, TypeOK, PeerWrite, SameDir
<1>7. Numbered(d)'
  BY <1>1, <1>4, LatestAppend DEF DirOK, Numbered
<1>8. Behind(d)'
  <2>1. Taken(d)' = Taken(d)
    BY <1>1, <1>3, <1>4 DEF Taken
  <2> QED BY <1>1, <2>1 DEF DirOK, Behind, PeerWrite
<1>9. Increasing(passed[d])' /\ InHand(d)' /\ Ends(d)'
  BY <1>1 DEF DirOK, InHand, Ends, Increasing, PeerWrite
<1> QED BY <1>5, <1>6, <1>7, <1>8, <1>9, OneDir DEF DirOK

(* The source closes its write side. *)
LEMMA PeerEofStream == ASSUME StreamInv, NEW d \in Dirs, PeerEof(d) PROVE StreamInv'
<1>1. TypeOK'
  BY DEF StreamInv, TypeOK, PeerEof
<1>2. FlagsOK'
  BY DEF StreamInv, FlagsOK, PeerEof
<1>3. eof'[d]
  BY DEF StreamInv, FlagsOK, PeerEof
<1>4. \A e \in Dirs : e # d => SameDir(e)
  BY DEF StreamInv, FlagsOK, PeerEof, SameDir
<1>5. DirOK(d)'
  BY <1>3 DEF StreamInv, DirOK, Numbered, Behind, Taken, Increasing, InHand, Ends, PeerEof
<1> QED BY <1>1, <1>2, <1>4, <1>5, OneDir

(* Read returns a chunk. *)
LEMMA ReadStream == ASSUME StreamInv, NEW d \in Dirs, Read(d) PROVE StreamInv'
<1>1. /\ sent[d] \in Nat /\ buf[d] \in Seq(Nat) /\ buf[d] # <<>> /\ DirOK(d)
      /\ passed[d] \in Seq(Nat) /\ pc[d] = "read"
  BY DEF StreamInv, TypeOK, Read
<1>2. /\ Tail(buf[d]) \in Seq(Nat) /\ Len(Tail(buf[d])) = Len(buf[d]) - 1
      /\ Len(buf[d]) \in Nat \ {0}
      /\ Head(buf[d]) = buf[d][1] /\ Head(buf[d]) \in Nat
      /\ \A i \in 1..Len(Tail(buf[d])) : Tail(buf[d])[i] = buf[d][i + 1]
  BY <1>1, TailFacts
<1>3. /\ buf'[d] = Tail(buf[d]) /\ cur'[d] = Head(buf[d]) /\ pc'[d] = "hook"
      /\ sent' = sent /\ passed' = passed /\ out' = out /\ total' = total
      /\ why' = why /\ eof' = eof /\ outEof' = outEof
  BY DEF StreamInv, TypeOK, Read, copyFrame, peerVars
<1>4. last'[d] => eof[d] /\ Tail(buf[d]) = <<>>
  BY DEF StreamInv, FlagsOK, Read
<1>5. TypeOK'
  BY <1>2 DEF StreamInv, TypeOK, Read, copyFrame, peerVars, CopyPC
<1>6. FlagsOK'
  BY DEF StreamInv, FlagsOK, Read, copyFrame, peerVars
<1>7. \A e \in Dirs : e # d => SameDir(e)
  BY DEF StreamInv, TypeOK, FlagsOK, Read, copyFrame, peerVars, SameDir
<1>8. Numbered(d)'
  BY <1>1, <1>3, LatestTail DEF DirOK, Numbered
<1>9. Behind(d)'
  <2>0. Len(buf'[d]) = Len(buf[d]) - 1 /\ sent'[d] = sent[d]
    BY <1>2, <1>3
  <2>1. Taken(d)' = Taken(d) + 1 /\ Taken(d) \in Int
    BY <1>1, <1>2, <2>0 DEF Taken
  <2>2. cur'[d] = Taken(d)'
    BY <1>1, <1>3, LatestTail DEF DirOK, Numbered, Taken
  <2>3. \A i \in 1..Len(passed[d]) : passed[d][i] <= Taken(d)
    <3>1. pc[d] # "hook" /\ Taken(d) - 0 = Taken(d)
      BY <1>1, <2>1 DEF Read
    <3>2. \A i \in 1..Len(passed[d]) : passed[d][i] <= Taken(d) - 0
      BY <1>1, <3>1 DEF DirOK, Behind
    <3> QED BY <3>1, <3>2
  <2>4. \A i \in 1..Len(passed'[d]) : passed'[d][i] <= Taken(d)' - 1
    BY <1>3, <2>1, <2>3
  <2> QED BY <1>3, <2>2, <2>4 DEF Behind
<1>10. Increasing(passed[d])' /\ InHand(d)'
  BY <1>1, <1>3 DEF DirOK, InHand, Ends, Increasing
<1>11. Ends(d)'
  BY <1>1, <1>3, <1>4 DEF DirOK, Ends
<1> QED BY <1>5, <1>6, <1>7, <1>8, <1>9, <1>10, <1>11, OneDir DEF DirOK

(* What copy wrote in a turn that ends with copy returning for this reason, or
   with the next Read. *)
Wrote(d, reason) ==
    /\ out' \in [Dirs -> Seq(Nat)] /\ total' \in [Dirs -> Nat]
    /\ \A e \in Dirs : e # d => out'[e] = out[e] /\ total'[e] = total[e]
    /\ total'[d] = Len(out'[d])
    /\ IF reason = "write" THEN \E c \in Nat : passed[d] = Append(out'[d], c)
                           ELSE passed[d] = out'[d]
    /\ UNCHANGED <<sent, buf, eof, passed, outEof, handler>>

(* copy returns. *)
LEMMA EndStream ==
    ASSUME StreamInv, NEW d \in Dirs, NEW reason \in Reasons \ {"running"}, End(d, reason),
           pc[d] \notin {"ended", "done"}, reason = "eof" => eof[d] /\ buf[d] = <<>>,
           Wrote(d, reason)
    PROVE  StreamInv'
<1>1. /\ pc' = [pc EXCEPT ![d] = "ended"] /\ why' = [why EXCEPT ![d] = reason]
      /\ cur' = [cur EXCEPT ![d] = 0]
  BY DEF End, Forget
<1>2. last' = [last EXCEPT ![d] = FALSE]
  BY DEF End, Forget
<1>3. TypeOK'
  BY <1>1 DEF StreamInv, TypeOK, CopyPC, Wrote
<1>4. FlagsOK'
  BY <1>2 DEF StreamInv, FlagsOK, Wrote
<1>5. \A e \in Dirs : e # d => SameDir(e)
  BY <1>1, <1>2 DEF StreamInv, TypeOK, FlagsOK, Wrote, SameDir
<1>6. pc'[d] = "ended" /\ why'[d] = reason /\ ~last'[d] /\ DirOK(d) /\ sent[d] \in Nat
  BY <1>1, <1>2 DEF StreamInv, TypeOK, FlagsOK
<1>7. Numbered(d)' /\ Increasing(passed[d])'
  BY <1>6 DEF DirOK, Numbered, Latest, Increasing, Wrote
<1>8. Behind(d)'
  <2>1. Taken(d)' = Taken(d) /\ Taken(d) \in Int /\ passed' = passed
    BY <1>6, LenProperties DEF Taken, Wrote, StreamInv, TypeOK
  <2>2. \A i \in 1..Len(passed[d]) : passed[d][i] \in Int
    BY ElementOfSeq DEF StreamInv, TypeOK
  <2>3. \A i \in 1..Len(passed[d]) : passed[d][i] <= Taken(d)
    BY <1>6, <2>1, <2>2 DEF DirOK, Behind
  <2> QED BY <1>6, <2>1, <2>3 DEF Behind
<1>9. InHand(d)'
  BY <1>6 DEF InHand, Wrote
<1>10. Ends(d)'
  BY <1>6 DEF DirOK, Ends, Wrote
<1> QED BY <1>3, <1>4, <1>5, <1>7, <1>8, <1>9, <1>10, OneDir DEF DirOK

(* copy goes on to the next Read. *)
LEMMA NextStream ==
    ASSUME StreamInv, NEW d \in Dirs, Forget(d), pc' = [pc EXCEPT ![d] = "read"],
           why' = why, pc[d] \notin {"ended", "done"}, Wrote(d, "running")
    PROVE  StreamInv'
<1>1. cur' = [cur EXCEPT ![d] = 0]
  BY DEF Forget
<1>2. last' = [last EXCEPT ![d] = FALSE]
  BY DEF Forget
<1>3. TypeOK'
  BY <1>1 DEF StreamInv, TypeOK, CopyPC, Wrote
<1>4. FlagsOK'
  BY <1>2 DEF StreamInv, FlagsOK, Wrote
<1>5. \A e \in Dirs : e # d => SameDir(e)
  BY <1>1, <1>2 DEF StreamInv, TypeOK, FlagsOK, Wrote, SameDir
<1>6. pc'[d] = "read" /\ ~last'[d] /\ DirOK(d) /\ sent[d] \in Nat
  BY <1>2 DEF StreamInv, TypeOK, FlagsOK
<1>7. Numbered(d)' /\ Increasing(passed[d])'
  BY <1>6 DEF DirOK, Numbered, Latest, Increasing, Wrote
<1>8. Behind(d)'
  <2>1. Taken(d)' = Taken(d) /\ Taken(d) \in Int /\ passed' = passed
    BY <1>6, LenProperties DEF Taken, Wrote, StreamInv, TypeOK
  <2>2. \A i \in 1..Len(passed[d]) : passed[d][i] \in Int
    BY ElementOfSeq DEF StreamInv, TypeOK
  <2>3. \A i \in 1..Len(passed[d]) : passed[d][i] <= Taken(d)
    BY <1>6, <2>1, <2>2 DEF DirOK, Behind
  <2> QED BY <1>6, <2>1, <2>3 DEF Behind
<1>9. InHand(d)'
  BY <1>6 DEF DirOK, Ends, InHand, Wrote
<1>10. Ends(d)'
  BY <1>6 DEF DirOK, Ends, Wrote
<1> QED BY <1>3, <1>4, <1>5, <1>7, <1>8, <1>9, <1>10, OneDir DEF DirOK

(* What follows a chunk, delivered or dropped. *)
LEMMA AfterChunkStream ==
    ASSUME StreamInv, NEW d \in Dirs, AfterChunk(d), pc[d] \notin {"ended", "done"},
           Wrote(d, "running")
    PROVE  StreamInv'
<1>1. CASE last[d]
  <2>1. eof[d] /\ buf[d] = <<>>
    BY <1>1 DEF StreamInv, DirOK, Ends
  <2>2. Wrote(d, "eof")
    BY DEF Wrote
  <2> QED BY <1>1, <2>1, <2>2, EndStream DEF AfterChunk, Reasons
<1>2. CASE ~last[d]
  BY <1>2, NextStream DEF AfterChunk
<1> QED BY <1>1, <1>2

(* A turn that writes nothing. *)
LEMMA WroteNothing ==
    ASSUME StreamInv, NEW d \in Dirs, pc[d] \in {"read", "hook"},
           UNCHANGED <<sent, buf, eof, passed, out, outEof, total, handler>>,
           NEW reason, reason # "write"
    PROVE  Wrote(d, reason)
BY DEF StreamInv, DirOK, InHand, Ends, TypeOK, Wrote

(* The hook passes the chunk on. *)
LEMMA HookPassStream == ASSUME StreamInv, NEW d \in Dirs, HookPass(d) PROVE StreamInv'
<1>1. /\ cur[d] \in Nat /\ passed[d] \in Seq(Nat) /\ out[d] \in Seq(Nat) /\ pc[d] = "hook"
      /\ DirOK(d) /\ why[d] = "running" /\ sent[d] \in Nat /\ Len(buf[d]) \in Nat
  BY LenProperties DEF StreamInv, TypeOK, HookPass, DirOK, Ends
<1>2. Append(passed[d], cur[d]) \in Seq(Nat)
  BY <1>1, AppendFacts
<1>3. /\ passed'[d] = Append(passed[d], cur[d]) /\ pc'[d] = "write"
      /\ UNCHANGED <<sent, buf, eof, cur, last, out, outEof, total, why, handler>>
  BY DEF HookPass, StreamInv, TypeOK, copyFrame, peerVars
<1>4. TypeOK' /\ FlagsOK'
  BY <1>2, <1>3 DEF HookPass, StreamInv, TypeOK, FlagsOK, CopyPC
<1>5. \A e \in Dirs : e # d => SameDir(e)
  BY <1>3 DEF HookPass, StreamInv, TypeOK, SameDir
<1>6. Taken(d)' = Taken(d) /\ Taken(d) \in Int /\ cur[d] = Taken(d)
  BY <1>1, <1>3 DEF Taken, DirOK, Behind
<1>7. \A i \in 1..Len(passed[d]) : passed[d][i] \in Nat /\ passed[d][i] <= Taken(d) - 1
  BY <1>1, ElementOfSeq DEF DirOK, Behind
<1>8. Numbered(d)'
  BY <1>1, <1>3 DEF DirOK, Numbered, Latest
<1>9. Increasing(passed[d])'
  <2>1. \A i \in 1..Len(passed[d]) : passed[d][i] < cur[d]
    BY <1>6, <1>7
  <2> QED BY <1>1, <1>3, <2>1, AppendIncreasing DEF DirOK
<1>10. Behind(d)'
  <2>1. /\ Len(passed'[d]) = Len(passed[d]) + 1 /\ Len(passed[d]) \in Nat
        /\ \A i \in 1..Len(passed[d]) : passed'[d][i] = passed[d][i]
        /\ passed'[d][Len(passed[d]) + 1] = cur[d]
    BY <1>1, <1>3, AppendFacts
  <2>2. ASSUME NEW i \in 1..Len(passed'[d]) PROVE passed'[d][i] <= Taken(d)
    <3>1. CASE i = Len(passed[d]) + 1
      BY <1>1, <1>6, <2>1, <3>1
    <3>2. CASE i \in 1..Len(passed[d])
      BY <1>6, <1>7, <2>1, <3>2
    <3> QED BY <2>1, <3>1, <3>2
  <2> QED BY <1>3, <1>6, <2>2 DEF Behind
<1>11. InHand(d)' /\ Ends(d)'
  BY <1>1, <1>3 DEF DirOK, InHand, Ends
<1> QED BY <1>4, <1>5, <1>8, <1>9, <1>10, <1>11, OneDir DEF DirOK

(* Write delivers the chunk in hand. *)
LEMMA WriteStream == ASSUME StreamInv, NEW d \in Dirs, Write(d) PROVE StreamInv'
<1>1. /\ pc[d] = "write" /\ cur[d] \in Nat /\ out[d] \in Seq(Nat) /\ total[d] \in Nat
      /\ passed[d] = Append(out[d], cur[d]) /\ total[d] = Len(out[d])
  BY DEF StreamInv, TypeOK, Write, DirOK, InHand
<1>2. Append(out[d], cur[d]) \in Seq(Nat) /\ Len(Append(out[d], cur[d])) = Len(out[d]) + 1
  BY <1>1, AppendFacts
<1>3. Wrote(d, "running")
  <2>1. out' = [out EXCEPT ![d] = Append(out[d], cur[d])] /\ total' = [total EXCEPT ![d] = total[d] + 1]
    BY DEF Write
  <2>2. UNCHANGED <<sent, buf, eof, passed, outEof, handler>>
    BY DEF Write, copyFrame, peerVars
  <2> QED BY <1>1, <1>2, <2>1, <2>2 DEF Wrote, StreamInv, TypeOK
<1> QED BY <1>1, <1>3, AfterChunkStream DEF Write

(* closeWrite half-closes the destination. *)
LEMMA CloseWriteStream == ASSUME StreamInv, NEW d \in Dirs, CloseWrite(d) PROVE StreamInv'
<1>1. pc[d] = "ended" /\ pc' = [pc EXCEPT ![d] = "done"]
  BY DEF CloseWrite
<1>2. outEof' = [outEof EXCEPT ![d] = TRUE]
  BY DEF CloseWrite
<1>3. UNCHANGED <<sent, buf, eof, cur, last, passed, out, total, why, handler>>
  BY DEF CloseWrite, copyFrame, peerVars
<1>4. TypeOK'
  BY <1>1, <1>3 DEF StreamInv, TypeOK, CopyPC
<1>5. FlagsOK'
  BY <1>2, <1>3 DEF StreamInv, FlagsOK
<1>6. \A e \in Dirs : e # d => SameDir(e)
  BY <1>1, <1>2, <1>3 DEF StreamInv, TypeOK, FlagsOK, SameDir
<1>7. pc'[d] = "done" /\ DirOK(d)
  BY <1>1 DEF StreamInv, TypeOK
<1>8. DirOK(d)'
  BY <1>1, <1>3, <1>7 DEF DirOK, Numbered, Latest, Behind, Taken, Increasing, InHand, Ends
<1> QED BY <1>4, <1>5, <1>6, <1>8, OneDir

(* Every step preserves the invariant of the streams. *)
LEMMA StreamStep == StreamInv /\ [Next]_vars => StreamInv'
<1> SUFFICES ASSUME StreamInv, [Next]_vars PROVE StreamInv'
  OBVIOUS
<1>1. ASSUME UNCHANGED <<sent, buf, eof, pc, cur, last, passed, out, outEof, total, why>>,
             handler' \in {"relay", "onclose", "done"}
      PROVE  StreamInv'
  <2>1. TypeOK' /\ FlagsOK'
    BY <1>1 DEF StreamInv, TypeOK, FlagsOK
  <2>2. \A d \in Dirs : SameDir(d)
    BY <1>1 DEF SameDir
  <2> QED BY <2>1, <2>2, SameDirOK DEF StreamInv
<1>0. handler \in {"relay", "onclose", "done"}
  BY DEF StreamInv, TypeOK
<1>2. CASE UNCHANGED vars \/ Cancel \/ Watcher \/ RelayDone \/ HandleReturn
  <2>1. UNCHANGED <<sent, buf, eof, pc, cur, last, passed, out, outEof, total, why>>
    BY <1>2 DEF vars, Cancel, Watcher, RelayDone, HandleReturn, peerVars
  <2>2. handler' \in {"relay", "onclose", "done"}
    BY <1>2, <1>0 DEF vars, Cancel, Watcher, RelayDone, HandleReturn
  <2> QED BY <1>1, <2>1, <2>2
<1>3. ASSUME NEW p \in Peers, PeerReset(p) PROVE StreamInv'
  BY <1>0, <1>1, <1>3 DEF PeerReset
<1>4. ASSUME NEW d \in Dirs, ReadEnd(d) PROVE StreamInv'
  <2>1. pc[d] = "read" /\ UNCHANGED <<sent, buf, eof, passed, out, outEof, total, handler>>
    BY <1>4 DEF ReadEnd, copyFrame, peerVars
  <2>2. \A reason : reason # "write" => Wrote(d, reason)
    BY <2>1, WroteNothing
  <2>3. CASE End(d, "closed")
    BY <2>1, <2>2, <2>3, EndStream DEF Reasons
  <2>4. CASE End(d, "reset")
    BY <2>1, <2>2, <2>4, EndStream DEF Reasons
  <2>5. CASE buf[d] = <<>> /\ eof[d] /\ End(d, "eof")
    BY <2>1, <2>2, <2>5, EndStream DEF Reasons
  <2> QED BY <1>4, <2>3, <2>4, <2>5 DEF ReadEnd
<1>5. ASSUME NEW d \in Dirs, ReadTimeout(d) PROVE StreamInv'
  <2>1. pc[d] = "read" /\ UNCHANGED <<sent, buf, eof, passed, out, outEof, total, handler>>
    BY <1>5 DEF ReadTimeout, copyFrame, peerVars
  <2>2. Wrote(d, "timeout")
    BY <2>1, WroteNothing
  <2> QED BY <1>5, <2>1, <2>2, EndStream DEF ReadTimeout, Reasons
<1>6. ASSUME NEW d \in Dirs, HookErr(d) PROVE StreamInv'
  <2>1. pc[d] = "hook" /\ UNCHANGED <<sent, buf, eof, passed, out, outEof, total, handler>>
    BY <1>6 DEF HookErr, copyFrame, peerVars
  <2>2. Wrote(d, "hook")
    BY <2>1, WroteNothing
  <2> QED BY <1>6, <2>1, <2>2, EndStream DEF HookErr, Reasons
<1>7. ASSUME NEW d \in Dirs, HookDrop(d) PROVE StreamInv'
  <2>1. pc[d] = "hook" /\ UNCHANGED <<sent, buf, eof, passed, out, outEof, total, handler>>
    BY <1>7 DEF HookDrop, copyFrame, peerVars
  <2>2. Wrote(d, "running")
    BY <2>1, WroteNothing
  <2> QED BY <1>7, <2>1, <2>2, AfterChunkStream DEF HookDrop
<1>8. ASSUME NEW d \in Dirs, WriteErr(d) PROVE StreamInv'
  <2>1. pc[d] = "write" /\ UNCHANGED <<sent, buf, eof, passed, out, outEof, total, handler>>
    BY <1>8 DEF WriteErr, copyFrame, peerVars
  <2>2. Wrote(d, "write")
    BY <2>1 DEF Wrote, StreamInv, TypeOK, DirOK, InHand
  <2> QED BY <1>8, <2>1, <2>2, EndStream DEF WriteErr, Reasons
<1> QED
  BY <1>2, <1>3, <1>4, <1>5, <1>6, <1>7, <1>8, PeerWriteStream, PeerEofStream, ReadStream,
     HookPassStream, WriteStream, CloseWriteStream DEF Next, CopyStep, CopyRuns

(* The streams obey their invariant in every reachable state. *)
THEOREM StreamsInOrder == Spec => []StreamInv
BY StreamInit, StreamStep, PTL DEF Spec

(* What a destination receives is what the hook of its direction let through:
   a prefix, in the source's order, without repetition, short of the chunk in
   hand at most; copy's count is the number delivered; and the end of a
   stream closed cleanly comes after all of it. *)
THEOREM DeliveryCorrect == Spec => []StreamFaithful
<1>1. StreamInv => StreamFaithful
  <2> SUFFICES ASSUME StreamInv, NEW d \in Dirs
               PROVE  /\ IsPrefix(out[d], passed[d])
                      /\ Len(passed[d]) - Len(out[d]) =
                           IF pc[d] = "write" \/ why[d] = "write" THEN 1 ELSE 0
                      /\ Increasing(passed[d])
                      /\ total[d] = Len(out[d])
                      /\ outEof[d] /\ why[d] = "eof" => buf[d] = <<>> /\ out[d] = passed[d]
    BY DEF StreamFaithful
  <2>1. DirOK(d) /\ out[d] \in Seq(Nat) /\ passed[d] \in Seq(Nat) /\ cur[d] \in Nat
    BY DEF StreamInv, TypeOK
  <2>2. CASE pc[d] = "write" \/ why[d] = "write"
    <3>1. PICK c \in Nat : passed[d] = Append(out[d], c)
      BY <2>1, <2>2 DEF DirOK, InHand
    <3>2. IsPrefix(out[d], passed[d]) /\ Len(passed[d]) - Len(out[d]) = 1
      BY <2>1, <3>1, PrefixAppend
    <3>3. why[d] # "eof"
      BY <2>1, <2>2 DEF DirOK, Ends
    <3> QED BY <2>1, <2>2, <3>2, <3>3 DEF DirOK, InHand
  <2>3. CASE ~(pc[d] = "write" \/ why[d] = "write")
    <3>1. passed[d] = out[d]
      BY <2>1, <2>3 DEF DirOK, InHand
    <3>2. IsPrefix(out[d], passed[d]) /\ Len(passed[d]) - Len(out[d]) = 0
      BY <2>1, <3>1, PrefixRefl, LenProperties
    <3> QED BY <2>1, <2>3, <3>1, <3>2 DEF DirOK, InHand, Ends
  <2> QED BY <2>2, <2>3
<1> QED BY <1>1, StreamsInOrder, PTL

-----------------------------------------------------------------------------
(* The half-close. *)

CloseInv == Causes /\ HalfCloseKeepsOther

LEMMA CloseInit == Init => CloseInv
<1> SUFFICES ASSUME Init PROVE CloseInv
  OBVIOUS
<1>1. Causes
  BY DEF Init, Causes
<1>2. \A d \in Dirs : why[d] = "running"
  BY DEF Init
<1> QED BY <1>1, <1>2 DEF CloseInv, HalfCloseKeepsOther

(* The source of one direction is the destination of the other. *)
LEMMA Opposite == \A d \in Dirs : \E e \in Dirs : e # d /\ Dst(e) = Src(d)
<1>1. "up" \in Dirs /\ Dst("up") = Src("down")
  BY DEF Dirs, Dst, Src
<1>2. "down" \in Dirs /\ Dst("down") = Src("up")
  BY DEF Dirs, Dst, Src
<1> QED BY <1>1, <1>2 DEF Dirs

(* Steps that close nothing and end nothing. *)
LEMMA CloseQuiet ==
    ASSUME CloseInv, closed' = closed, halfCloser' = halfCloser, handler' = handler,
           outEof' = outEof, ctxDone => ctxDone',
           \A d \in Dirs : /\ pc[d] = "done" => pc'[d] = "done"
                           /\ why'[d] = "closed" => why[d] = "closed"
    PROVE  CloseInv'
BY DEF CloseInv, Causes, HalfCloseKeepsOther

LEMMA CloseStep == StreamInv /\ CloseInv /\ [Next]_vars => CloseInv'
<1> SUFFICES ASSUME StreamInv, CloseInv, [Next]_vars PROVE CloseInv'
  OBVIOUS
<1>0. pc \in [Dirs -> CopyPC] /\ why \in [Dirs -> Reasons]
  BY DEF StreamInv, TypeOK
<1>1. CASE UNCHANGED vars
  BY <1>1, CloseQuiet DEF vars
<1>2. ASSUME NEW d \in Dirs, PeerWrite(d) \/ PeerEof(d) PROVE CloseInv'
  BY <1>2, CloseQuiet DEF PeerWrite, PeerEof
<1>3. ASSUME NEW p \in Peers, PeerReset(p) PROVE CloseInv'
  BY <1>3, CloseQuiet DEF PeerReset
<1>4. CASE Cancel
  BY <1>4, CloseQuiet DEF Cancel, peerVars
<1>5. CASE Watcher
  BY <1>5 DEF Watcher, peerVars, CloseInv, Causes, HalfCloseKeepsOther
<1>6. CASE RelayDone
  BY <1>6 DEF RelayDone, peerVars, CloseInv, Causes, HalfCloseKeepsOther
<1>7. CASE HandleReturn
  BY <1>7 DEF HandleReturn, peerVars, CloseInv, Causes, HalfCloseKeepsOther
<1>8. ASSUME NEW d \in Dirs, NEW reason, reason # "closed", End(d, reason), pc[d] # "done",
             UNCHANGED <<closed, halfCloser, handler, outEof, ctxDone>>
      PROVE  CloseInv'
  BY <1>0, <1>8, CloseQuiet DEF End
<1>9. ASSUME NEW d \in Dirs, AfterChunk(d), pc[d] # "done",
             UNCHANGED <<closed, halfCloser, handler, outEof, ctxDone>>
      PROVE  CloseInv'
  <2>1. CASE last[d]
    BY <1>8, <1>9, <2>1 DEF AfterChunk
  <2>2. CASE ~last[d]
    BY <1>0, <1>9, <2>2, CloseQuiet DEF AfterChunk
  <2> QED BY <2>1, <2>2
<1>10. ASSUME NEW d \in Dirs, Read(d) \/ HookPass(d) PROVE CloseInv'
  BY <1>0, <1>10, CloseQuiet DEF Read, HookPass, copyFrame, peerVars
<1>11. ASSUME NEW d \in Dirs, ReadTimeout(d) PROVE CloseInv'
  BY <1>8, <1>11 DEF ReadTimeout, copyFrame, peerVars
<1>12. ASSUME NEW d \in Dirs, HookErr(d) PROVE CloseInv'
  BY <1>8, <1>12 DEF HookErr, copyFrame, peerVars
<1>13. ASSUME NEW d \in Dirs, WriteErr(d) PROVE CloseInv'
  BY <1>8, <1>13 DEF WriteErr, copyFrame, peerVars
<1>14. ASSUME NEW d \in Dirs, HookDrop(d) PROVE CloseInv'
  BY <1>9, <1>14 DEF HookDrop, copyFrame, peerVars
<1>15. ASSUME NEW d \in Dirs, Write(d) PROVE CloseInv'
  BY <1>9, <1>15 DEF Write, copyFrame, peerVars
<1>16. ASSUME NEW d \in Dirs, ReadEnd(d) PROVE CloseInv'
  <2>1. pc[d] = "read" /\ UNCHANGED <<closed, halfCloser, handler, outEof, ctxDone>>
    BY <1>16 DEF ReadEnd, copyFrame, peerVars
  <2>2. CASE End(d, "reset") \/ End(d, "eof")
    BY <1>8, <2>1, <2>2
  <2>3. CASE Src(d) \in closed /\ End(d, "closed")
    <3>1. PICK e \in Dirs : e # d /\ Dst(e) = Src(d)
      BY Opposite
    <3>2. handler = "relay"
      BY <2>1 DEF CloseInv, Causes
    <3>3. ctxDone \/ (Src(d) \notin halfCloser /\ outEof[e])
      BY <2>3, <3>1, <3>2 DEF CloseInv, Causes
    <3>4. /\ \A f \in Dirs : f # d => why'[f] = why[f]
          /\ \A f \in Dirs : pc[f] = "done" => pc'[f] = "done"
      BY <1>0, <2>1, <2>3 DEF End
    <3>5. Causes'
      BY <2>1, <3>4 DEF CloseInv, Causes
    <3>6. HalfCloseKeepsOther'
      BY <2>1, <3>1, <3>3, <3>4 DEF CloseInv, HalfCloseKeepsOther
    <3> QED BY <3>5, <3>6 DEF CloseInv
  <2> QED BY <1>16, <2>2, <2>3 DEF ReadEnd
<1>17. ASSUME NEW d \in Dirs, CloseWrite(d) PROVE CloseInv'
  <2>1. /\ UNCHANGED <<halfCloser, handler, ctxDone, why>>
        /\ \A f \in Dirs : pc[f] = "done" => pc'[f] = "done"
        /\ closed' = IF Dst(d) \in halfCloser THEN closed ELSE closed \cup {Dst(d)}
    BY <1>0, <1>17 DEF CloseWrite, copyFrame, peerVars
  <2>2. \A f \in Dirs : outEof[f] => outEof'[f]
    BY <1>17 DEF CloseWrite, StreamInv, FlagsOK
  <2>3. outEof'[d]
    BY <1>17 DEF CloseWrite, StreamInv, FlagsOK
  <2>4. \A f \in Dirs : Dst(f) = Dst(d) => f = d
    BY DEF Dirs, Dst
  <2>5. Causes'
    BY <2>1, <2>2, <2>3, <2>4 DEF CloseInv, Causes
  <2>6. HalfCloseKeepsOther'
    BY <2>1, <2>2 DEF CloseInv, HalfCloseKeepsOther
  <2> QED BY <2>5, <2>6 DEF CloseInv
<1> QED
  BY <1>1, <1>2, <1>3, <1>4, <1>5, <1>6, <1>7, <1>10, <1>11, <1>12, <1>13, <1>14, <1>15,
     <1>16, <1>17 DEF Next, CopyStep, CopyRuns

(* While the context is live, the proxy closes a connection under a running
   copy only if that transport cannot half-close and the other direction has
   ended. *)
THEOREM HalfCloseCorrect == Spec => []HalfCloseKeepsOther
<1>1. CloseInv => HalfCloseKeepsOther
  BY DEF CloseInv
<1> QED BY <1>1, StreamsInOrder, CloseInit, CloseStep, PTL DEF Spec

=============================================================================
