------------------------------- MODULE Codec -------------------------------
(***************************************************************************)
(* FrameCodec of src/protocol.rs at the two ends of a connection: frames   *)
(* are encoded into a stream of bytes, which reaches the decoder in pieces *)
(* of any size and may break off anywhere.                                 *)
(*                                                                         *)
(* A byte is a number.  Numbers in the texts have one digit, times and     *)
(* process ids too.                                                        *)
(***************************************************************************)
EXTENDS Integers, Sequences, SequencesExt

CONSTANTS
  MaxFrameSize,  \* MAX_FRAME_SIZE: longest payload the decoder accepts
  Frames,        \* frames that are sent
  Junk,          \* byte strings that no frame encodes
  MaxSent        \* bound: how many of the two are sent

HeaderLen == 5   \* HEADER_LEN: one byte of type, four of length
U16s == {n \in Nat : n <= 65535}
U31 == {n \in Nat : n <= 2147483647}
I32 == {n \in Int : -2147483647 - 1 <= n /\ n <= 2147483647}
ASSUME CodecConstants == MaxFrameSize \in U31 /\ MaxSent \in Nat

Data == 1
Resize == 2
Exit == 3
Env == 7
SessionInfo == 33
EmptyTypes == {4, 5, 6, 18, 20, 34}  \* Detached Ping Pong ListSessions KillServer Ok
StringTypes == {16, 17, 19, 32, 35}  \* NewSession Attach KillSession SessionCreated Error

Tab == 9
Newline == 10
Return == 13
Zero == 48
Equals == 61

(* What stands in sent for bytes that are no frame. *)
Bad == [type |-> 0, body |-> <<>>]

-----------------------------------------------------------------------------
(* Bytes and texts. *)
U16(n) == <<n \div 256, n % 256>>
U32(n) == <<(n \div 2^24) % 256, (n \div 2^16) % 256, (n \div 256) % 256, n % 256>>
U16At(b, i) == 256 * b[i] + b[i + 1]
U32At(b, i) == 2^24 * b[i] + 2^16 * b[i + 1] + U16At(b, i + 2)
I32At(b, i) == 2^24 * (IF b[i] < 128 THEN b[i] ELSE b[i] - 256) + 2^16 * b[i + 1] + U16At(b, i + 2)

(* join: the texts with sep between them. *)
Join(texts, sep) ==
  FlattenSeq([i \in DOMAIN texts |-> IF i = 1 THEN texts[i] ELSE <<sep>> \o texts[i]])

(* split: a separator starts the next piece. *)
Grow(parts, byte, sep) ==
  IF byte = sep THEN Append(parts, <<>>) ELSE [parts EXCEPT ![Len(parts)] = Append(@, byte)]

Split(text, sep) ==
  LET parts[i \in 0 .. Len(text)] ==
        IF i = 0 THEN << <<>> >> ELSE Grow(parts[i - 1], text[i], sep)
  IN  parts[Len(text)]

StripReturn(t) == IF t # <<>> /\ Last(t) = Return THEN Front(t) ELSE t

(* lines: a line ends with "\n" or "\r\n"; nothing follows the last one. *)
Lines(text) ==
  LET parts == Split(text, Newline)
      ended == [i \in 1 .. Len(parts) - 1 |-> StripReturn(parts[i])]
  IN IF Last(parts) = <<>> THEN ended ELSE Append(ended, Last(parts))

IsText(b) == \A i \in DOMAIN b : b[i] < 128
Digit(n) == <<Zero + n>>
ParseDigit(t) == IF Len(t) = 1 /\ t[1] \in Zero .. Zero + 9 THEN t[1] - Zero ELSE 0

-----------------------------------------------------------------------------
(* encode.  An Env holds pairs of texts, a SessionInfo records.            *)
EntryText(e) ==
  Join(<<e.id, e.name, e.pty_path, Digit(e.shell_pid), Digit(e.created_at),
         Digit(IF e.attached THEN 1 ELSE 0), Digit(e.last_heartbeat)>>, Tab)

Map(F(_), s) == [i \in DOMAIN s |-> F(s[i])]

Payload(f) ==
  CASE f.type \in EmptyTypes             -> <<>>
    [] f.type \in StringTypes \cup {Data} -> f.body
    [] f.type = Resize                   -> U16(f.body[1]) \o U16(f.body[2])
    [] f.type = Exit                     -> U32(f.body)
    [] f.type = Env                      -> Join(Map(LAMBDA v : v[1] \o <<Equals>> \o v[2], f.body), Newline)
    [] f.type = SessionInfo              -> Join(Map(EntryText, f.body), Newline)

Encode(f) == <<f.type>> \o U32(Len(Payload(f))) \o Payload(f)

(* decode.  filter_map takes a function to None, <<>>, or Some, <<x>>.  A   *)
(* line without "=" is no variable; one that has not seven fields is no    *)
(* session.                                                                *)
FilterMap(F(_), s) == FlattenSeq([i \in DOMAIN s |-> F(s[i])])

CutAt(line, i) == <<SubSeq(line, 1, i - 1), SubSeq(line, i + 1, Len(line))>>

LastEquals(line) ==
  {i \in DOMAIN line : line[i] = Equals /\ \A j \in i + 1 .. Len(line) : line[j] # Equals}

FirstEquals(line) ==
  {i \in DOMAIN line : line[i] = Equals /\ \A j \in 1 .. i - 1 : line[j] # Equals}

VarOf(line) ==
  IF FirstEquals(line) = {} THEN <<>>
  ELSE <<CutAt(line, CHOOSE i \in FirstEquals(line) : TRUE)>>

EntryOf(line) ==
  LET parts == Split(line, Tab) IN
  IF Len(parts) # 7 THEN <<>>
  ELSE <<[id |-> parts[1], name |-> parts[2], pty_path |-> parts[3],
          shell_pid |-> ParseDigit(parts[4]), created_at |-> ParseDigit(parts[5]),
          attached |-> parts[6] = Digit(1), last_heartbeat |-> ParseDigit(parts[7])]>>

IsFrame(ty, payload) ==
  \/ ty \in EmptyTypes \cup {Data}
  \/ ty \in {Resize, Exit} /\ Len(payload) = 4
  \/ ty \in StringTypes \cup {Env, SessionInfo} /\ IsText(payload)

Parse(ty, payload) ==
  [type |-> ty,
   body |-> CASE ty \in EmptyTypes -> <<>>
              [] ty \in StringTypes \cup {Data} -> payload
              [] ty = Resize -> <<U16At(payload, 1), U16At(payload, 3)>>
              [] ty = Exit -> I32At(payload, 1)
              [] ty = Env -> FilterMap(VarOf, Lines(payload))
              [] ty = SessionInfo -> FilterMap(EntryOf, Lines(payload))]

(* What the next call of decode finds in the buffer: not enough, a frame,  *)
(* or bytes that are none.                                                 *)
EnoughAndMore(buf) == Len(buf) > HeaderLen + U32At(buf, 2)
Enough(buf) == Len(buf) >= HeaderLen + U32At(buf, 2)

TooLongNever(buf) == FALSE
TooLong(buf) == U32At(buf, 2) > MaxFrameSize

PayloadIn(buf) == SubSeq(buf, HeaderLen + 1, HeaderLen + U32At(buf, 2))

Finds(buf) ==
  CASE Len(buf) < HeaderLen -> "none"
    [] Len(buf) >= HeaderLen /\ TooLong(buf) -> "error"
    [] Len(buf) >= HeaderLen /\ ~TooLong(buf) /\ ~Enough(buf) -> "none"
    [] OTHER -> IF IsFrame(buf[1], PayloadIn(buf)) THEN "frame" ELSE "error"

(* src.advance and split_to leave what belongs to the next frame. *)
Rest(buf) == SubSeq(buf, HeaderLen + U32At(buf, 2) + 1, Len(buf))

(* What may be sent: frames of the types of Frame, whose payload fits, for  *)
(* encode does not ask; and bytes that are none wherever they break off.   *)
Byte == 0 .. 255
Text == Seq(0 .. 127)
Entries ==
  [id : Text, name : Text, pty_path : Text, shell_pid : 0 .. 9, created_at : 0 .. 9,
   attached : BOOLEAN, last_heartbeat : 0 .. 9]

IsValue(f) ==
  \/ f \in [type : EmptyTypes, body : {<<>>}]
  \/ f \in [type : {Data}, body : Seq(Byte)]
  \/ f \in [type : StringTypes, body : Text]
  \/ f \in [type : {Resize}, body : U16s \X U16s]
  \/ f \in [type : {Exit}, body : I32]
  \/ f \in [type : {Env}, body : Seq(Text \X Text)]
  \/ f \in [type : {SessionInfo}, body : Seq(Entries)]

ASSUME FramesFit == \A f \in Frames : IsValue(f) /\ Len(Payload(f)) <= MaxFrameSize
IsNoFrame(j) ==
  /\ Len(j) >= HeaderLen
  /\ \/ U32At(j, 2) > MaxFrameSize
     \/ Len(j) >= HeaderLen + U32At(j, 2) /\ ~IsFrame(j[1], PayloadIn(j))

ASSUME JunkIsJunk == \A j \in Junk : j \in Seq(Byte) /\ IsNoFrame(j)

-----------------------------------------------------------------------------
VARIABLES
  sent,    \* frames and junk put into the stream, in order
  wire,    \* bytes on their way
  ended,   \* has the sender closed ("closed"), or did the rest get lost ("cut")?
  buf,     \* the read buffer of Framed
  got,     \* frames that next() returned
  status   \* "open"; "eof" after None; "error" after an error
vars == <<sent, wire, ended, buf, got, status>>

Init ==
  /\ sent = <<>> /\ wire = <<>> /\ ended = "no"
  /\ buf = <<>> /\ got = <<>> /\ status = "open"

Put(f, bytes) ==
  /\ ended = "no" /\ Len(sent) < MaxSent
  /\ sent' = Append(sent, f)
  /\ wire' = wire \o bytes
  /\ UNCHANGED <<ended, buf, got, status>>

Send(f) == Put(f, Encode(f))
SendJunk(j) == Put(Bad, j)

Close ==
  /\ ended = "no"
  /\ \/ ended' = "closed" /\ UNCHANGED wire
     \/ wire # <<>> /\ ended' = "cut" /\ wire' = <<>>
  /\ UNCHANGED <<sent, buf, got, status>>

(* Framed asks decode before it reads again. *)
Receive ==
  /\ status = "open" /\ Finds(buf) = "none"
  /\ \E n \in 1 .. Len(wire) :
       /\ buf' = buf \o SubSeq(wire, 1, n)
       /\ wire' = SubSeq(wire, n + 1, Len(wire))
  /\ UNCHANGED <<sent, ended, got, status>>

Yield ==
  /\ status = "open" /\ Finds(buf) = "frame"
  /\ got' = Append(got, Parse(buf[1], PayloadIn(buf)))
  /\ buf' = Rest(buf)
  /\ UNCHANGED <<sent, wire, ended, status>>

Fail ==
  /\ status = "open" /\ Finds(buf) = "error"
  /\ status' = "error"
  /\ UNCHANGED <<sent, wire, ended, buf, got>>

(* decode_eof, as tokio-util gives it: bytes of an incomplete frame are an error. *)
Eof ==
  /\ status = "open" /\ Finds(buf) = "none" /\ wire = <<>> /\ ended # "no"
  /\ status' = IF buf = <<>> THEN "eof" ELSE "error"
  /\ UNCHANGED <<sent, wire, ended, buf, got>>

Next ==
  \/ Receive \/ Yield \/ Fail \/ Eof \/ Close
  \/ \E f \in Frames : Send(f)
  \/ \E j \in Junk : SendJunk(j)

Spec == Init /\ [][Next]_vars

-----------------------------------------------------------------------------
(* What carries its own separators: tab and newline in a SessionInfo,      *)
(* newline, a trailing return or an early "=" in an Env.                   *)
CleanEntry(e) ==
  \A t \in {e.id, e.name, e.pty_path} : ~Contains(t, Tab) /\ ~Contains(t, Newline)
CleanVar(v) ==
  /\ ~Contains(v[1], Equals) /\ ~Contains(v[1] \o v[2], Newline)
  /\ v[2] = <<>> \/ Last(v[2]) # Return
Clean(f, item) ==
  CASE f.type = SessionInfo -> CleanEntry(item)
    [] f.type = Env -> CleanVar(item)

(* Each item of a list makes a stretch of its own of what comes out, and   *)
(* one without separators in it exactly itself.                            *)
ItemsIntact(f, items) ==
  \E ends \in [0 .. Len(f.body) -> 0 .. Len(items)] :
    /\ ends[0] = 0 /\ ends[Len(f.body)] = Len(items)
    /\ \A k \in 1 .. Len(f.body) :
         /\ ends[k - 1] <= ends[k]
         /\ Clean(f, f.body[k]) => ends[k] = ends[k - 1] + 1 /\ items[ends[k]] = f.body[k]

(* Frames come out as they went in, in order, whatever pieces the stream   *)
(* comes in and whatever bytes they hold (protocol.rs:113-217).  In a list *)
(* of variables or sessions a name, path or value with a separator in it   *)
(* may spoil its own item (tests/protocol_test.rs:348, 420), never another *)
(* one: the items without any all arrive, unchanged and in order, and      *)
(* nothing else when all are.                                              *)
FramesIntact ==
  \A i \in DOMAIN got :
    /\ got[i].type = sent[i].type
    /\ IF got[i].type \in {Env, SessionInfo} THEN ItemsIntact(sent[i], got[i].body)
       ELSE got[i] = sent[i]

(* The stream fails exactly when it should: on bytes that are no frame, or *)
(* when it breaks off inside one; and a clean end means that nothing was   *)
(* lost but what was cut off with it (protocol.rs:121-126, 139, 150, 212). *)
EndsTruthfully ==
  /\ status = "error" =>
       Len(got) < Len(sent) /\ (sent[Len(got) + 1] = Bad \/ ended = "cut")
  /\ status = "eof" => buf = <<>> /\ (Len(got) = Len(sent) \/ ended = "cut")
  /\ \A i \in DOMAIN got : sent[i] # Bad

(* Every frame is handed out as soon as it is there: a reader that waits   *)
(* with all the bytes in its buffer has seen all the frames, and does not  *)
(* wait for the first byte after them (protocol.rs:128-131).               *)
NothingHeldBack ==
  status = "open" /\ Finds(buf) = "none" /\ wire = <<>> /\ ended # "cut" => Len(got) = Len(sent)
=============================================================================
