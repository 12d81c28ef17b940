---------------------------- MODULE CommandLink ----------------------------
(***************************************************************************)
(* What a host that follows the data sheet expects of the command link:    *)
(* every command is executed once, in order, with exactly the data bytes   *)
(* sent for it.  A command of known length is executed as soon as its last *)
(* byte is in; one of open length when the next command begins, if it got  *)
(* any data at all.                                                        *)
(***************************************************************************)
EXTENDS Naturals, Sequences

CONSTANTS
  Commands,          \* the commands the host sends
  Bytes,             \* data bytes
  DataBytes(_),      \* how many data bytes a command takes; 255: an open number
  MaxData            \* a command of open length gets fewer bytes than this

VARIABLES
  pending,   \* the command being sent, or NoCall
  executed   \* what the last step executed

link == <<pending, executed>>

Call(c, args) == [cmd |-> c, args |-> args]
NoCall == Call(0, <<>>)

Init == pending = NoCall /\ executed = <<>>

Open(call) == DataBytes(call.cmd) = 255

(* A command byte: the open command before it is over. *)
Command(c) ==
  /\ pending # NoCall => Open(pending)
  /\ LET flushed == IF pending # NoCall /\ pending.args # <<>> THEN <<pending>> ELSE <<>>
         now == IF DataBytes(c) = 0 THEN <<Call(c, <<>>)>> ELSE <<>>
     IN  executed' = flushed \o now
  /\ pending' = IF DataBytes(c) = 0 THEN NoCall ELSE Call(c, <<>>)

Data(b) ==
  /\ pending # NoCall /\ Len(pending.args) + 1 < MaxData
  /\ LET sent == Call(pending.cmd, Append(pending.args, b))
         complete == ~Open(sent) /\ Len(sent.args) = DataBytes(sent.cmd)
     IN  /\ pending' = IF complete THEN NoCall ELSE sent
         /\ executed' = IF complete THEN <<sent>> ELSE <<>>

(* A reset forgets the command being sent. *)
Reset == pending' = NoCall /\ executed' = <<>>

(* The bus is idle. *)
Quiet == executed' = <<>> /\ UNCHANGED pending

Next ==
  \/ \E c \in Commands : Command(c)
  \/ \E b \in Bytes : Data(b)
  \/ Reset
  \/ Quiet

Spec == Init /\ [][Next]_link
=============================================================================
