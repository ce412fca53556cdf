--------------------------- MODULE VariableStream ---------------------------
(***************************************************************************)
(* Variables as bytes: variable_serialize, variable_new_deserialize and    *)
(* the conversions of variable_get_as in src/src/variable.c, and the       *)
(* Buffer of src/src/buffer.c they are written to.                         *)
(*                                                                         *)
(* A sender serialises variables into one Buffer, which it uses again each *)
(* time, and writes its bytes to a connection.  They arrive a few at a     *)
(* time.  The receiver calls variable_new_deserialize on what it has got,  *)
(* again once it has the size asked for, and reads the variable as other   *)
(* types.  Sender, connection and receiver are applications, of which the  *)
(* repository has none: external.                                          *)
(*                                                                         *)
(* Beside some definitions stands a variant with a slip in it.  No         *)
(* behaviour uses a variant: each is there to put in the place of the      *)
(* definition below it and see a property fail.                            *)
(***************************************************************************)
EXTENDS Integers, SequencesExt

CONSTANTS
    Base,         \* the values of a byte: 256 in the code
    W16, W32, W64,\* the bytes of each width: 2, 4 and 8 in the code
    Messages,     \* the variables sent: [type, num, bytes, prefix]
    AsTypes,      \* the types that the receiver reads variables as
    MaxPending    \* bound: messages sent and not received

Bytes == 0..(Base - 1)

(* VariableType.  VT_FLOAT and VT_DOUBLE are not sent: their text ends in  *)
(* no NUL, so that the receiver takes what follows for a part of it.       *)
Code == [NULL |-> 0, BOOL |-> 1, INT8 |-> 2, UINT8 |-> 3, INT16 |-> 4,
         UINT16 |-> 5, INT32 |-> 6, UINT32 |-> 7, INT64 |-> 8, UINT64 |-> 9,
         BUFFER |-> 12, STRING |-> 13]
Types == DOMAIN Code
Signed == {"INT8", "INT16", "INT32", "INT64"}
Unsigned == {"UINT8", "UINT16", "UINT32", "UINT64"}

(* An integer type has the values of its width, a byte holds every type.   *)
ASSUME WidthAssumption ==
    /\ Base \in Nat /\ Base > 16 /\ Base % 2 = 0
    /\ {W16, W32, W64} \subseteq Nat /\ 1 < W16 /\ W16 < W32 /\ W32 < W64
    /\ AsTypes \subseteq Signed \cup Unsigned \cup {"BOOL"}

(* _variable_sizes *)
Size == [NULL |-> 0, BOOL |-> 1, INT8 |-> 1, UINT8 |-> 1, INT16 |-> W16,
         UINT16 |-> W16, INT32 |-> W32, UINT32 |-> W32, INT64 |-> W64,
         UINT64 |-> W64, BUFFER |-> W32, STRING |-> 0]

Power[k \in 0..W64] == IF k = 0 THEN 1 ELSE Base * Power[k - 1]
Below(type) == Power[Size[type]]
Numbers(type) ==
    IF type \in Signed
    THEN -(Below(type) \div 2)..(Below(type) \div 2 - 1)
    ELSE 0..(Below(type) - 1)

(* Strings hold no NUL, the size of a buffer is an uint32_t.               *)
ASSUME MessageAssumption == \A m \in Messages :
    /\ m \in [type : Types, num : Int, bytes : Seq(Bytes), prefix : BOOLEAN]
    /\ m.type \notin {"STRING", "BUFFER"} => m.bytes = <<>>
    /\ m.type = "STRING" => \A k \in DOMAIN m.bytes : m.bytes[k] # 0
    /\ Len(m.bytes) < Below("UINT32")

(* What an integer becomes in a member of the type: two's complement.      *)
WrapUnsigned(type, n) == n % Below(type)
Wrap(type, n) ==
    LET low == n % Below(type)
    IN  IF type \in Signed /\ low >= Below(type) \div 2 THEN low - Below(type) ELSE low

(* variable_set_typev: a variable holds a number, or bytes.                *)
Variable(type, num, bytes) ==
    [type |-> type,
     num |-> IF type = "BOOL" THEN (IF num # 0 THEN 1 ELSE 0)
             ELSE IF type \in Signed \cup Unsigned THEN Wrap(type, num) ELSE 0,
     bytes |-> bytes]
Content(v) == [num |-> v.num, bytes |-> v.bytes]

----------------------------------------------------------------------------
(* Bytes of integers.                                                      *)

(* The most significant first, the least significant first: the latter is  *)
(* how the host stores an integer.                                         *)
Big(n, w) == [i \in 1..w |-> (n \div Power[w - i]) % Base]
Host(n, w) == Reverse(Big(n, w))

FromBig(b) ==
    LET number[k \in 0..Len(b)] ==
            IF k = 0 THEN 0 ELSE number[k - 1] * Base + b[k]
    IN  number[Len(b)]
FromHost(b) == FromBig(Reverse(b))

(* _bswap16, _bswap32 and _bswap64 *)
Swap(n, w) == FromBig(Host(n, w))
----------------------------------------------------------------------------
(* Buffers.                                                                *)

(* buffer_set_size, the memcpy of the others, buffer_set, buffer_set_data  *)
SetSizeKept(b, n) == [i \in 1..(IF n > Len(b) THEN n ELSE Len(b)) |->
                         IF i <= Len(b) THEN b[i] ELSE 0]
SetSize(b, n) == [i \in 1..n |-> IF i <= Len(b) THEN b[i] ELSE 0]
Overwrite(b, offset, data) ==
    [i \in DOMAIN b |-> IF i \in (offset + 1)..(offset + Len(data))
                        THEN data[i - offset] ELSE b[i]]
BufferSet(b, data) == Overwrite(SetSize(b, Len(data)), 0, data)
BufferSetData(b, offset, data) ==
    LET end == offset + Len(data)
    IN  Overwrite(IF end > Len(b) THEN SetSize(b, end) ELSE b, offset, data)
----------------------------------------------------------------------------
(* variable_serialize                                                      *)

(* What p points to, size bytes.                                           *)
Payload(v) ==
    CASE v.type \in Signed \cup Unsigned ->
             Host(Swap(v.num, Size[v.type]), Size[v.type])
      [] v.type = "BOOL" -> <<v.num>>
      [] v.type = "STRING" -> Append(v.bytes, 0)
      [] OTHER -> v.bytes

(* The calls of buffer_set and, at an offset, of buffer_set_data.  Those   *)
(* for a buffer with a prefix overwrite the prefix.                        *)
Set(data) == [set |-> TRUE, offset |-> 0, data |-> data]
SetData(offset, data) == [set |-> FALSE, offset |-> offset, data |-> data]

Writes(v, prefix) ==
    LET count == Host(Swap(Len(v.bytes), W32), W32)
        type == Set(<<Code[v.type]>>)
    IN  IF v.type = "BUFFER"
        THEN (IF prefix THEN <<type, SetData(1, count)>> ELSE <<>>)
                 \o <<Set(count), SetData(W32, v.bytes)>>
        ELSE IF prefix THEN <<type, SetData(1, Payload(v))>>
        ELSE <<Set(Payload(v))>>

Write(b, w) ==
    IF w.set THEN BufferSet(b, w.data) ELSE BufferSetData(b, w.offset, w.data)
Serialize(b, writes) ==
    LET written[k \in 0..Len(writes)] ==
            IF k = 0 THEN b ELSE Write(written[k - 1], writes[k])
    IN  written[Len(writes)]
----------------------------------------------------------------------------
(* variable_new_deserialize_type and variable_new_deserialize: the result  *)
(* and the size they leave, NoVariable when they return NULL.              *)

NoVariable == Variable("NULL", 0, <<>>)
Failed(size) == [ok |-> FALSE, size |-> size, variable |-> NoVariable]
Made(size, v) == [ok |-> TRUE, size |-> size, variable |-> v]

(* The first NUL, or one past the size when there is none.                 *)
Nul(size, data) ==
    CHOOSE s \in 1..(size + 1) :
        /\ s <= size => data[s] = 0
        /\ \A r \in 1..(s - 1) : data[r] # 0

NeededUnswapped(type, size, data) ==
    IF type = "BUFFER"
    THEN IF size < W32 THEN W32 ELSE W32 + FromHost(SubSeq(data, 1, W32))
    ELSE IF type = "STRING" THEN Nul(size, data) ELSE Size[type]
Needed(type, size, data) ==
    IF type = "BUFFER"
    THEN IF size < W32 THEN W32
         ELSE W32 + Swap(FromHost(SubSeq(data, 1, W32)), W32)
    ELSE IF type = "STRING" THEN Nul(size, data) ELSE Size[type]

Parsed(type, s, data) ==
    CASE type = "STRING" -> Variable(type, 0, SubSeq(data, 1, s - 1))
      [] type = "BUFFER" -> Variable(type, 0, SubSeq(data, W32 + 1, s))
      [] type = "NULL" -> NoVariable
      [] OTHER -> Variable(type, FromBig(SubSeq(data, 1, s)), <<>>)

DeserializeType(type, size, data) ==
    LET s == Needed(type, size, data)
    IN  IF type = "STRING" /\ s >= size THEN Failed(size)
        ELSE IF size < s THEN Failed(s)
        ELSE IF type = "BOOL" /\ data[1] \notin {0, 1} THEN Failed(s)
        ELSE Made(s, Parsed(type, s, data))

Deserialize(size, data) ==
    LET type == CHOOSE t \in Types : Code[t] = data[1]
        r == DeserializeType(type, size - 1, Tail(data))
    IN  IF size < 1 THEN Failed(size)
        ELSE IF \A t \in Types : Code[t] # data[1] THEN Failed(size)
        ELSE [r EXCEPT !.size = @ + 1]
----------------------------------------------------------------------------
(* variable_get_as: the numbers that a variable of another type is         *)
(* converted from, and the test of their range.                            *)

ConvertedFrom(type) ==
    CASE type = "INT64" -> {"UINT64"}
      [] type = "UINT64" -> {"INT64"}
      [] OTHER -> (Signed \cup Unsigned) \ {type}

(* An unsigned number of 64 bits is tested as the signed one in its place. *)
InRangeLoose(v, type) == v.num < Below(type)
InRange(v, type) ==
    (IF type = "INT64" THEN Wrap(type, v.num) ELSE v.num) \in Numbers(type)

CanGetAs(v, type) ==
    type = v.type \/ (v.type \in ConvertedFrom(type) /\ InRange(v, type))
----------------------------------------------------------------------------
VARIABLES
    buffer,   \* the sender's Buffer
    wire,     \* the bytes on their way
    inbox,    \* the bytes that arrived and were not deserialised
    need,     \* the bytes the receiver waits for before it tries again
    variable, \* the receiver's variable
    pending   \* the messages sent and not received

vars == <<buffer, wire, inbox, need, variable, pending>>

TypeOK ==
    /\ {buffer, wire, inbox} \subseteq Seq(Bytes)
    /\ need \in Nat
    /\ variable.type \in Types
    /\ variable.type \in Signed \cup Unsigned => variable.num \in Numbers(variable.type)
    /\ variable.bytes \in Seq(Bytes)
    /\ pending \in Seq(Messages)

Init ==
    /\ buffer = <<>> /\ wire = <<>> /\ inbox = <<>>
    /\ need = 0
    /\ variable = NoVariable
    /\ pending = <<>>

Sent(m) == Variable(m.type, m.num, m.bytes)

(* Contract: no buffer is sent with a prefix, which it would lose.  An     *)
(* empty one is refused before anything is written.                        *)
Sendable(m) == m.type = "BUFFER" => ~m.prefix /\ m.bytes # <<>>

Send(m) ==
    /\ Len(pending) < MaxPending
    /\ Sendable(m)
    /\ buffer' = Serialize(buffer, Writes(Sent(m), m.prefix))
    /\ wire' = wire \o buffer'
    /\ pending' = Append(pending, m)
    /\ UNCHANGED <<inbox, need, variable>>

(* A realloc() fails: the Buffer is left as the calls before it made it,   *)
(* and not sent.                                                           *)
SendFails(m) ==
    LET writes == Writes(Sent(m), m.prefix)
    IN  /\ Len(pending) < MaxPending
        /\ Sendable(m)
        /\ \E done \in 0..(Len(writes) - 1) :
               buffer' = Serialize(buffer, SubSeq(writes, 1, done))
        /\ UNCHANGED <<wire, inbox, need, variable, pending>>

Deliver ==
    /\ UNCHANGED <<buffer, need, variable, pending>>
    /\ \E n \in 1..Len(wire) :
           /\ inbox' = inbox \o SubSeq(wire, 1, n)
           /\ wire' = SubSeq(wire, n + 1, Len(wire))

(* The receiver knows whether a message has a prefix, and the type of one  *)
(* that has none.                                                          *)
Result ==
    LET m == Head(pending)
    IN  IF m.prefix THEN Deserialize(Len(inbox), inbox)
        ELSE DeserializeType(m.type, Len(inbox), inbox)

Receive ==
    /\ pending # <<>> /\ Len(inbox) >= need
    /\ need' = 0
    /\ pending' = Tail(pending)
    /\ UNCHANGED <<buffer, wire>>
    /\ LET r == Result
       IN  /\ r.ok
           /\ variable' = r.variable
           /\ inbox' = SubSeq(inbox, r.size + 1, Len(inbox))

(* variable_new_deserialize returns NULL.  More data may be what it lacks: *)
(* the size it asked for, and never less than one byte.                    *)
AskForMore ==
    /\ pending # <<>> /\ Len(inbox) >= need
    /\ UNCHANGED <<buffer, wire, inbox, variable, pending>>
    /\ LET r == Result
       IN  /\ ~r.ok
           /\ need' = IF r.size > Len(inbox) THEN r.size ELSE Len(inbox) + 1

(* Contract: a number of 64 bits is read as a signed one, and any as a     *)
(* boolean, only where the value allows: the code does not refuse others.  *)
Readable(v, type) ==
    /\ type = "INT64" => v.num < Below(type) \div 2
    /\ type = "BOOL" => v.num \in {0, 1}

(* The receiver reads its variable as another type, and goes on with that. *)
Convert(type) ==
    /\ CanGetAs(variable, type)
    /\ Readable(variable, type)
    /\ variable' = Variable(type, variable.num, variable.bytes)
    /\ UNCHANGED <<buffer, wire, inbox, need, pending>>

(* The connection is lost: the sender keeps its Buffer for the next.       *)
Disconnect ==
    /\ wire' = <<>> /\ inbox' = <<>> /\ need' = 0 /\ pending' = <<>>
    /\ UNCHANGED <<buffer, variable>>

Next ==
    \/ \E m \in Messages : Send(m) \/ SendFails(m)
    \/ Deliver
    \/ Receive \/ AskForMore
    \/ \E type \in AsTypes : Convert(type)
    \/ Disconnect

Spec == Init /\ [][Next]_vars

(* The connection delivers what is written to it, and the receiver tries   *)
(* whenever it has what it waits for.                                      *)
FairSpec == Spec /\ WF_vars(Deliver) /\ WF_vars(Receive \/ AskForMore)
----------------------------------------------------------------------------
(* The bytes between sender and receiver are always those of the messages  *)
(* pending, each as a new Buffer would hold it: no byte of another message *)
(* or of one that failed is left in a Buffer used again, and the receiver  *)
(* takes exactly the bytes of a message off, however they arrive.          *)
Alone == [m \in Messages |-> Serialize(<<>>, Writes(Sent(m), m.prefix))]
Framed ==
    inbox \o wire = FlattenSeq([k \in DOMAIN pending |-> Alone[pending[k]]])

(* Sent, cut into pieces, deserialised and read as any other type that has *)
(* room for it, a value is the one that was sent: both ends see a queue.   *)
Meant == [m \in Messages |-> Content(Sent(m))]
Channel == INSTANCE ChannelSpec WITH
    Values <- Range(Meant),
    Nothing <- Content(NoVariable),
    queue <- [k \in DOMAIN pending |-> Meant[pending[k]]],
    last <- Content(variable)
IsChannel == Channel!Spec

(* The receiver waits for no bytes but those of the messages sent: as long *)
(* as one is pending it receives, again and again.  It has what it needs   *)
(* when it has what variable_new_deserialize_type counts as "the size      *)
(* required"; but that function refuses a string of just this size, one    *)
(* whose NUL is the last byte there is.                                    *)
Delivered == <>[](pending # <<>>) => []<><<Receive>>_vars

(* The same but for a string with nothing behind it: any other message, and *)
(* a string that one follows, is received.                                 *)
AwaitsMore == Len(pending) = 1 /\ Head(pending).type = "STRING"
DeliveredButStrings ==
    <>[](pending # <<>> /\ ~AwaitsMore) => []<><<Receive>>_vars
=============================================================================
