-------------------------- MODULE RemoteRunProofs --------------------------
(***************************************************************************)
(* Proof that a client's call of sendCode returns the whole output of one  *)
(* run of its own code, or nothing: Executor implements RemoteRun, for any *)
(* number of clients, programs and outputs, pipes of any size, replies in  *)
(* pieces of any length, and whatever fails.                               *)
(*                                                                         *)
(* What a run prints is at all times in three places, in order: in the     *)
(* daemon's buffer, in the pipe and still to be written.  Every step that  *)
(* moves a unit leaves the three together as they were.  In the same way   *)
(* what was sent on a connection and what is still to be sent are together *)
(* one reply, from which a client that has all that the header announces   *)
(* has all there is.                                                       *)
(***************************************************************************)
EXTENDS ExecutorProofs, SequenceTheorems

\* A unit on a connection: of output, or a word of the header.
Word == Output \cup Nat

\* A connection, before and after a request was written on it.
Blank == [open : BOOLEAN, ended : BOOLEAN, data : Seq(Word)]
Request == [open : BOOLEAN, ended : BOOLEAN, code : Code, data : Seq(Word)]

Script == [state : {"prepare", "program", "archive", "leave", "closed", "dead"},
           run : UNION {Runs[code] : code \in Code},
           out : Seq(Output), err : Seq(Output), zip : Seq(Output), ok : BOOLEAN]

DaemonPcs == {"accept", "receive", "select", "poll", "wait", "reply", "failed", "stopped"}

DaemonState == [pc : DaemonPcs, client : Client \cup {NoClient},
                out : Seq(Output), err : Seq(Output),
                outOpen : BOOLEAN, errOpen : BOOLEAN, reaped : BOOLEAN, reply : Seq(Word)]

HostTyped ==
    /\ daemon \in DaemonState
    /\ child \in {NoChild} \cup Script
    /\ pipe \in [out : Seq(Output), err : Seq(Output)]
    /\ backlog \in Seq(Client)
    /\ sock \in [Client -> Blank \cup Request]

Running == daemon.pc \in {"select", "poll", "wait"}
Serving == Running \/ daemon.pc \in {"receive", "reply"}

\* What was read, what is in the pipe and what is still to be written, together.
Through(read, between, left) == (read \o between) \o left

AllOut == Through(daemon.out, pipe.out, child.out)
AllErr == Through(daemon.err, pipe.err, child.err)

\* The run that is under way, as far as the script has got.
RunSound ==
    /\ child \in Script
    /\ child.run \in Runs[sock[daemon.client].code]
    /\ child.state \in {"prepare", "archive", "closed", "dead"} => child.out = <<>> /\ child.err = <<>>
    /\ child.state = "prepare" => AllOut = <<>> /\ AllErr = <<>> /\ child.zip = <<>>
    /\ child.state \in {"program", "archive"} =>
          AllOut = child.run.stdout /\ AllErr = child.run.stderr /\ child.zip = <<>>
    /\ child.state = "archive" => child.run.ok
    /\ child.state \in {"leave", "closed", "dead"} =>
          [stdout |-> AllOut, stderr |-> AllErr, zip |-> child.zip] \in Leavings(child.run)
    /\ ~daemon.outOpen => ~Alive /\ pipe.out = <<>>
    /\ ~daemon.errOpen => ~Alive /\ pipe.err = <<>>
    /\ daemon.pc = "wait" => ~Alive /\ pipe = EmptyPipes

NoRun == child = NoChild /\ pipe = EmptyPipes /\ daemon.out = <<>> /\ daemon.err = <<>>

ChildSound == IF Running THEN RunSound ELSE NoRun

\* A connection is open at the daemon's end while it waits in the backlog or is served.
Queued(c) == \E i \in 1 .. Len(backlog) : backlog[i] = c
Unserved(c) == sock[c] \in Request /\ ~sock[c].ended /\ sock[c].data = <<>>

ConnectionsSound ==
    /\ \A c \in Client : Queued(c) => Unserved(c) /\ c # daemon.client
    /\ \A i, j \in 1 .. Len(backlog) : backlog[i] = backlog[j] => i = j
    /\ IF Serving
       THEN /\ daemon.client \in Client
            /\ sock[daemon.client] \in Request
            /\ ~sock[daemon.client].ended
            /\ daemon.pc # "reply" => Unserved(daemon.client)
       ELSE daemon.client = NoClient
    /\ \A c \in Client : ~sock[c].ended => Queued(c) \/ daemon.client = c

Replies(code) == {Reply(word, output.stdout, output.stderr, output.zip) :
                    word \in {0, 1}, output \in Returnable[code]}

Begins(data, reply) ==
    /\ Len(data) <= Len(reply)
    /\ \A i \in 1 .. Len(data) : data[i] = reply[i]

\* What was sent on a connection is the beginning of a reply to its request.
DataOf(c) == IF sock[c] \in Request
             THEN \E reply \in Replies(sock[c].code) : Begins(sock[c].data, reply)
             ELSE sock[c].data = <<>>

DataSound == \A c \in Client : DataOf(c)

\* Together with what is still to be sent it is all of the reply.
ReplySound ==
    daemon.pc = "reply" =>
       /\ daemon.reply # <<>>
       /\ sock[daemon.client].data \o daemon.reply \in Replies(sock[daemon.client].code)

\* A client has received some of it, and all of it when it submits; once it is not
\* waiting for more the connection is ended, or the client is.
CallSound(c) ==
    /\ client[c].got \in 0 .. Len(sock[c].data)
    /\ client[c].pc \notin {"receive", "off"} => sock[c].ended
    /\ client[c].pc \in {"receive", "submit"} =>
          sock[c] \in Request /\ sock[c].code = JobOf(c).task
    /\ At(c, "submit") => sock[c].data \in Replies(sock[c].code)

CallsSound == \A c \in Client : CallSound(c)

HostInv == HostTyped /\ ChildSound /\ ConnectionsSound /\ DataSound /\ ReplySound /\ CallsSound
-----------------------------------------------------------------------------
(* Sequences in three places.                                              *)

LEMMA ThroughTyped ==
    ASSUME NEW S, NEW r \in Seq(S), NEW b \in Seq(S), NEW l \in Seq(S)
    PROVE  Through(r, b, l) \in Seq(S)
BY ConcatProperties DEF Through

\* Moving the first unit of one sequence to the end of the one before.
LEMMA MoveHead ==
    ASSUME NEW S, NEW s \in Seq(S), NEW t \in Seq(S), t # <<>>
    PROVE  /\ Head(t) \in S /\ Tail(t) \in Seq(S)
           /\ Append(s, Head(t)) \in Seq(S)
           /\ Append(s, Head(t)) \o Tail(t) = s \o t
<1>1. Head(t) \in S /\ Tail(t) \in Seq(S) /\ Len(Tail(t)) = Len(t) - 1
    BY HeadTailProperties
<1>2. \A i \in 1 .. Len(t) : t[i] = IF i = 1 THEN Head(t) ELSE Tail(t)[i - 1]
    BY <1>1, HeadTailProperties, LenProperties
<1>3. Append(s, Head(t)) \in Seq(S)
    BY <1>1, AppendProperties
<1> DEFINE u == Append(s, Head(t))
<1>4. /\ u \o Tail(t) \in Seq(S) /\ Len(u \o Tail(t)) = Len(s) + Len(t)
      /\ s \o t \in Seq(S) /\ Len(s \o t) = Len(s) + Len(t)
    BY <1>1, <1>3, ConcatProperties, AppendProperties, LenProperties
<1>5. ASSUME NEW i \in 1 .. Len(s) + Len(t)
      PROVE  (u \o Tail(t))[i] = (s \o t)[i]
  <2>1. /\ Len(u) = Len(s) + 1 /\ Len(s) \in Nat /\ Len(t) \in Nat
        /\ \A k \in 1 .. Len(s) : u[k] = s[k]
        /\ u[Len(s) + 1] = Head(t)
    BY <1>1, AppendProperties, LenProperties
  <2>2. (u \o Tail(t))[i] = IF i <= Len(u) THEN u[i] ELSE Tail(t)[i - Len(u)]
    BY <1>1, <1>3, <1>5, <2>1, ConcatProperties
  <2>3. (s \o t)[i] = IF i <= Len(s) THEN s[i] ELSE t[i - Len(s)]
    BY <1>5, ConcatProperties
  <2> HIDE DEF u
  <2> QED
    BY <1>2, <2>1, <2>2, <2>3
<1>6. u \o Tail(t) = s \o t
    BY <1>4, <1>5, SeqEqual
<1> QED
    BY <1>1, <1>3, <1>6

LEMMA ThroughWrite ==
    ASSUME NEW S, NEW r \in Seq(S), NEW b \in Seq(S), NEW l \in Seq(S), l # <<>>
    PROVE  Through(r, Append(b, Head(l)), Tail(l)) = Through(r, b, l)
<1> DEFINE longer == Append(b, Head(l))
           rest == Tail(l)
<1>1. longer \in Seq(S) /\ rest \in Seq(S)
    BY MoveHead
<1>2. longer \o rest = b \o l
    BY MoveHead
<1> HIDE DEF longer, rest
<1>3. (r \o longer) \o rest = r \o (longer \o rest)
    BY SMTT(60), <1>1, ConcatAssociative
<1>4. (r \o b) \o l = r \o (b \o l)
    BY SMTT(60), ConcatAssociative
<1>5. (r \o longer) \o rest = (r \o b) \o l
    BY <1>2, <1>3, <1>4
<1> QED
    BY <1>5 DEF Through, longer, rest

LEMMA ThroughRead ==
    ASSUME NEW S, NEW r \in Seq(S), NEW b \in Seq(S), NEW l \in Seq(S), b # <<>>
    PROVE  Through(Append(r, Head(b)), Tail(b), l) = Through(r, b, l)
<1>1. Append(r, Head(b)) \o Tail(b) = r \o b
    BY MoveHead
<1> QED
    BY <1>1 DEF Through

LEMMA ThroughEnds ==
    ASSUME NEW S, NEW r \in Seq(S), NEW b \in Seq(S), NEW l \in Seq(S)
    PROVE  /\ Through(r \o b, <<>>, l) = Through(r, b, l)
           /\ Through(r, <<>>, <<>>) = r
           /\ Through(<<>>, <<>>, l) = l
<1>1. <<>> \in Seq(S) /\ r \o b \in Seq(S)
    BY EmptySeq, ConcatProperties
<1> QED
    BY <1>1, ConcatEmptySeq DEF Through

LEMMA ThroughMore ==
    ASSUME NEW S, NEW r \in Seq(S), NEW b \in Seq(S), NEW l \in Seq(S)
    PROVE  Through(r, b, l) = Through(r, b, <<>>) \o l
<1>1. r \o b \in Seq(S)
    BY ConcatProperties
<1>2. (r \o b) \o <<>> = r \o b
    BY <1>1, ConcatEmptySeq
<1> QED
    BY <1>2 DEF Through

-----------------------------------------------------------------------------
(* Replies.                                                                *)

\* The units of a reply: the four words of the header, and the three parts.
HasUnits(reply, word, out, err, zip) ==
    /\ Len(reply) = 4 + Len(out) + Len(err) + Len(zip)
    /\ \A i \in 1 .. Len(reply) :
          reply[i] = IF i <= 4 THEN <<word, Len(out), Len(err), Len(zip)>>[i]
                     ELSE IF i <= 4 + Len(out) THEN out[i - 4]
                     ELSE IF i <= 4 + Len(out) + Len(err) THEN err[i - 4 - Len(out)]
                     ELSE zip[i - 4 - Len(out) - Len(err)]

HasHeader(reply, word, out, err, zip) ==
    /\ Len(reply) = 4 + Len(out) + Len(err) + Len(zip)
    /\ reply[1] = word /\ reply[2] = Len(out) /\ reply[3] = Len(err) /\ reply[4] = Len(zip)

\* The parts are found where the header says.
HasParts(reply, out, err, zip) ==
    /\ SubSeq(reply, 5, 4 + Len(out)) = out
    /\ SubSeq(reply, 5 + Len(out), 4 + Len(out) + Len(err)) = err
    /\ SubSeq(reply, 5 + Len(out) + Len(err), 4 + Len(out) + Len(err) + Len(zip)) = zip
    /\ \A i \in 5 .. Len(reply) : reply[i] \in Output

LEMMA ReplyUnits ==
    ASSUME NEW out \in Seq(Output), NEW err \in Seq(Output), NEW zip \in Seq(Output),
           NEW word \in Word, NEW reply, reply = Reply(word, out, err, zip)
    PROVE  reply \in Seq(Word) /\ HasUnits(reply, word, out, err, zip)
<1> DEFINE head == <<word, Len(out), Len(err), Len(zip)>>
<1>1. reply = ((head \o out) \o err) \o zip
    BY DEF Reply
<1>2. /\ out \in Seq(Word) /\ err \in Seq(Word) /\ zip \in Seq(Word)
      /\ Len(out) \in Nat /\ Len(err) \in Nat /\ Len(zip) \in Nat
    BY SeqMonotonic, LenProperties DEF Word
<1>3. head \in Seq(Word) /\ Len(head) = 4
    BY <1>2 DEF Word
<1>4. /\ reply \in Seq(Word)
      /\ Len(reply) = 4 + Len(out) + Len(err) + Len(zip)
    BY <1>1, <1>2, <1>3, ConcatProperties
<1>5. \A i \in 1 .. Len(reply) :
         reply[i] = IF i <= 4 THEN head[i]
                    ELSE IF i <= 4 + Len(out) THEN out[i - 4]
                    ELSE IF i <= 4 + Len(out) + Len(err) THEN err[i - 4 - Len(out)]
                    ELSE zip[i - 4 - Len(out) - Len(err)]
  <2>1. head \o out \in Seq(Word) /\ Len(head \o out) = 4 + Len(out)
    BY <1>2, <1>3, ConcatProperties
  <2>2. \A i \in 1 .. 4 + Len(out) : (head \o out)[i] = IF i <= 4 THEN head[i] ELSE out[i - 4]
    BY <1>2, <1>3, ConcatProperties
  <2> DEFINE ho == head \o out
  <2> HIDE DEF head, ho
  <2>3. ho \o err \in Seq(Word) /\ Len(ho \o err) = 4 + Len(out) + Len(err)
    <3>1. ho \in Seq(Word) /\ Len(ho) = 4 + Len(out)
      BY <2>1 DEF ho
    <3>2. ho \o err \in Seq(Word) /\ Len(ho \o err) = Len(ho) + Len(err)
      BY <1>2, <3>1, ConcatProperties
    <3> QED
      BY <3>1, <3>2
  <2>4. \A i \in 1 .. 4 + Len(out) + Len(err) :
           (ho \o err)[i] = IF i <= 4 + Len(out) THEN ho[i] ELSE err[i - (4 + Len(out))]
    BY <1>2, <2>1, ConcatProperties DEF ho
  <2> DEFINE hoe == ho \o err
  <2> HIDE DEF hoe
  <2>5. \A i \in 1 .. 4 + Len(out) + Len(err) + Len(zip) :
           (hoe \o zip)[i] = IF i <= 4 + Len(out) + Len(err) THEN hoe[i]
                             ELSE zip[i - (4 + Len(out) + Len(err))]
    BY <1>2, <2>3, ConcatProperties DEF hoe
  <2>6. reply = hoe \o zip
    BY <1>1 DEF hoe, ho
  <2> QED
    BY <1>2, <1>4, <2>2, <2>4, <2>5, <2>6 DEF hoe, ho
<1> QED
    BY <1>4, <1>5 DEF HasUnits

LEMMA ReplyHeader ==
    ASSUME NEW out \in Seq(Output), NEW err \in Seq(Output), NEW zip \in Seq(Output),
           NEW word \in Word, NEW reply, reply = Reply(word, out, err, zip)
    PROVE  reply \in Seq(Word) /\ HasHeader(reply, word, out, err, zip)
<1>1. reply \in Seq(Word) /\ HasUnits(reply, word, out, err, zip)
    BY ReplyUnits
<1>2. Len(out) \in Nat /\ Len(err) \in Nat /\ Len(zip) \in Nat
    BY LenProperties
<1>3. \A i \in 1 .. 4 : i \in 1 .. Len(reply) /\ i <= 4
    BY <1>1, <1>2 DEF HasUnits
<1>4. \A i \in 1 .. 4 : reply[i] = <<word, Len(out), Len(err), Len(zip)>>[i]
    BY <1>1, <1>3 DEF HasUnits
<1> QED
    BY <1>1, <1>4 DEF HasUnits, HasHeader

LEMMA ReplyParts ==
    ASSUME NEW out \in Seq(Output), NEW err \in Seq(Output), NEW zip \in Seq(Output),
           NEW word \in Word, NEW reply, reply = Reply(word, out, err, zip)
    PROVE  HasParts(reply, out, err, zip)
<1>2. Len(out) \in Nat /\ Len(err) \in Nat /\ Len(zip) \in Nat
    BY LenProperties
<1> DEFINE head == <<word, Len(out), Len(err), Len(zip)>>
<1>3. reply \in Seq(Word) /\ HasUnits(reply, word, out, err, zip)
    BY ReplyUnits
<1>4. Len(reply) = 4 + Len(out) + Len(err) + Len(zip)
    BY <1>3 DEF HasUnits
<1>5. \A i \in 1 .. Len(reply) :
         reply[i] = IF i <= 4 THEN head[i]
                    ELSE IF i <= 4 + Len(out) THEN out[i - 4]
                    ELSE IF i <= 4 + Len(out) + Len(err) THEN err[i - 4 - Len(out)]
                    ELSE zip[i - 4 - Len(out) - Len(err)]
    BY <1>3 DEF HasUnits
<1> HIDE DEF head
\* A part of the reply that begins behind the first n units is the sequence s, if it
\* has the length and the units of s.
<1>7. ASSUME NEW n \in Nat, NEW s \in Seq(Output), n >= 4, n + Len(s) <= Len(reply),
             \A i \in 1 .. Len(s) : reply[n + i] = s[i]
      PROVE  SubSeq(reply, n + 1, n + Len(s)) = s
  <2>1. Len(s) \in Nat /\ \A i \in 1 .. Len(s) : s[i] \in Output
    BY LenProperties, ElementOfSeq
  <2>2. \A i \in n + 1 .. n + Len(s) : reply[i] \in Output
    <3> SUFFICES ASSUME NEW i \in n + 1 .. n + Len(s) PROVE reply[i] \in Output
      OBVIOUS
    <3>1. i - n \in 1 .. Len(s) /\ reply[n + (i - n)] = s[i - n] /\ n + (i - n) = i
      BY <1>7, <2>1
    <3> QED
      BY <2>1, <3>1
  <2>3. /\ SubSeq(reply, n + 1, n + Len(s)) \in Seq(Output)
        /\ Len(SubSeq(reply, n + 1, n + Len(s))) = Len(s)
        /\ \A i \in 1 .. Len(s) : SubSeq(reply, n + 1, n + Len(s))[i] = reply[n + i]
    <3>1. n + 1 \in Int /\ n + Len(s) \in Int
      BY <2>1
    <3>2. /\ SubSeq(reply, n + 1, n + Len(s)) \in Seq(Output)
          /\ Len(SubSeq(reply, n + 1, n + Len(s))) =
                IF n + 1 <= n + Len(s) THEN (n + Len(s)) - (n + 1) + 1 ELSE 0
          /\ \A i \in 1 .. (n + Len(s)) - (n + 1) + 1 :
                SubSeq(reply, n + 1, n + Len(s))[i] = reply[(n + 1) + i - 1]
      BY <2>2, <3>1, SubSeqProperties
    <3>3. \A i \in 1 .. Len(s) : (n + 1) + i - 1 = n + i /\ (n + Len(s)) - (n + 1) + 1 = Len(s)
      BY <2>1
    <3>4. Len(SubSeq(reply, n + 1, n + Len(s))) = Len(s)
      BY <2>1, <3>2
    <3>5. ASSUME NEW i \in 1 .. Len(s)
          PROVE  SubSeq(reply, n + 1, n + Len(s))[i] = reply[n + i]
      <4>1. (n + 1) + i - 1 = n + i /\ i \in 1 .. (n + Len(s)) - (n + 1) + 1
        BY <2>1
      <4> QED
        BY <3>2, <4>1
    <3> QED
      BY <3>2, <3>4, <3>5
  <2> QED
    BY <1>7, <2>3, SeqEqual
<1>8. SubSeq(reply, 5, 4 + Len(out)) = out
  <2>1. \A i \in 1 .. Len(out) : reply[4 + i] = out[i]
    BY <1>2, <1>4, <1>5
  <2> QED
    BY <1>2, <1>4, <1>7, <2>1
<1>9. SubSeq(reply, 5 + Len(out), 4 + Len(out) + Len(err)) = err
  <2>1. \A i \in 1 .. Len(err) : reply[(4 + Len(out)) + i] = err[i]
    BY <1>2, <1>4, <1>5
  <2>2. /\ 4 + Len(out) \in Nat /\ 4 + Len(out) >= 4 /\ (4 + Len(out)) + 1 = 5 + Len(out)
        /\ (4 + Len(out)) + Len(err) <= Len(reply)
    BY <1>2, <1>4
  <2>3. SubSeq(reply, (4 + Len(out)) + 1, (4 + Len(out)) + Len(err)) = err
    BY <1>7, <2>1, <2>2
  <2> QED
    BY <2>2, <2>3
<1>10. SubSeq(reply, 5 + Len(out) + Len(err), 4 + Len(out) + Len(err) + Len(zip)) = zip
  <2>1. \A i \in 1 .. Len(zip) : reply[(4 + Len(out) + Len(err)) + i] = zip[i]
    <3> SUFFICES ASSUME NEW i \in 1 .. Len(zip)
                 PROVE  reply[(4 + Len(out) + Len(err)) + i] = zip[i]
      OBVIOUS
    <3> DEFINE k == (4 + Len(out) + Len(err)) + i
    <3>1. /\ k \in 1 .. Len(reply) /\ k > 4 + Len(out) + Len(err)
          /\ k - 4 - Len(out) - Len(err) = i
      BY <1>2, <1>4
    <3> HIDE DEF k
    <3>2. reply[k] = zip[k - 4 - Len(out) - Len(err)]
      BY <1>2, <1>5, <3>1
    <3> QED
      BY <3>1, <3>2 DEF k
  <2>2. /\ 4 + Len(out) + Len(err) \in Nat /\ 4 + Len(out) + Len(err) >= 4
        /\ (4 + Len(out) + Len(err)) + 1 = 5 + Len(out) + Len(err)
        /\ (4 + Len(out) + Len(err)) + Len(zip) <= Len(reply)
    BY <1>2, <1>4
  <2>3. SubSeq(reply, (4 + Len(out) + Len(err)) + 1, (4 + Len(out) + Len(err)) + Len(zip)) = zip
    BY <1>7, <2>1, <2>2
  <2> QED
    BY <2>2, <2>3
<1>11. \A i \in 5 .. Len(reply) : reply[i] \in Output
  <2>1. /\ \A i \in 1 .. Len(out) : out[i] \in Output
        /\ \A i \in 1 .. Len(err) : err[i] \in Output
        /\ \A i \in 1 .. Len(zip) : zip[i] \in Output
    BY ElementOfSeq
  <2> SUFFICES ASSUME NEW i \in 5 .. Len(reply) PROVE reply[i] \in Output
    OBVIOUS
  <2>2. i \in 1 .. Len(reply) /\ i \in Int /\ i > 4
    BY <1>2, <1>4
  <2>3. CASE i <= 4 + Len(out)
    <3>1. reply[i] = out[i - 4] /\ i - 4 \in 1 .. Len(out)
      BY <1>2, <1>5, <2>2, <2>3
    <3> QED
      BY <2>1, <3>1
  <2>4. CASE i > 4 + Len(out) /\ i <= 4 + Len(out) + Len(err)
    <3>1. reply[i] = err[i - 4 - Len(out)] /\ i - 4 - Len(out) \in 1 .. Len(err)
      BY <1>2, <1>5, <2>2, <2>4
    <3> QED
      BY <2>1, <3>1
  <2>5. CASE i > 4 + Len(out) + Len(err)
    <3>1. /\ reply[i] = zip[i - 4 - Len(out) - Len(err)]
          /\ i - 4 - Len(out) - Len(err) \in 1 .. Len(zip)
      BY <1>2, <1>4, <1>5, <2>2, <2>5
    <3> QED
      BY <2>1, <3>1
  <2> QED
    BY <1>2, <2>2, <2>3, <2>4, <2>5
<1> QED
    BY <1>8, <1>9, <1>10, <1>11 DEF HasParts

\* What may be returned: outputs, the empty one and those the script leaves among them.
LEMMA ReturnableTyped ==
    ASSUME NEW code \in Code
    PROVE  /\ Returnable[code] \subseteq [stdout : Seq(Output), stderr : Seq(Output), zip : Seq(Output)]
           /\ [stdout |-> <<>>, stderr |-> <<>>, zip |-> <<>>] \in Returnable[code]
           /\ \A run \in Runs[code] : Leavings(run) \subseteq Returnable[code]
<1> DEFINE Outputs == [stdout : Seq(Output), stderr : Seq(Output), zip : Seq(Output)]
<1>1. ASSUME NEW run \in Runs[code]
      PROVE  Leavings(run) \subseteq Outputs
  <2>1. run \in [stdout : Seq(Output), stderr : Seq(Output), files : Seq(Output), ok : BOOLEAN]
    BY SandboxAssumption
  <2>2. <<>> \in Seq(Output) /\ <<Message>> \in Seq(Output) /\ Append(run.stderr, Message) \in Seq(Output)
    BY <2>1, SandboxAssumption, EmptySeq
  <2>3. Finished(run) \in Outputs
    BY <2>1, <2>2 DEF Finished
  <2>4. NotStarted \in Outputs /\ Nothing \in Outputs
    BY <2>2 DEF NotStarted, Nothing
  <2>5. NotArchived(run) \in Outputs
    BY <2>1, <2>2 DEF NotArchived
  <2> HIDE DEF Outputs
  <2> QED
    BY <2>3, <2>4, <2>5 DEF Leavings
<1>2. Returnable[code] = {[stdout |-> <<>>, stderr |-> <<>>, zip |-> <<>>]}
                            \cup UNION {Leavings(run) : run \in Runs[code]}
  BY DEF Returnable, Nothing
<1>3. [stdout |-> <<>>, stderr |-> <<>>, zip |-> <<>>] \in Outputs
  BY EmptySeq
<1> HIDE DEF Outputs
<1>4. Returnable[code] \subseteq Outputs
  BY <1>1, <1>2, <1>3
<1>5. /\ [stdout |-> <<>>, stderr |-> <<>>, zip |-> <<>>] \in Returnable[code]
      /\ \A run \in Runs[code] : Leavings(run) \subseteq Returnable[code]
  BY <1>2
<1> QED
  BY <1>4, <1>5 DEF Outputs

LEMMA RepliesTyped ==
    ASSUME NEW code \in Code, NEW reply \in Replies(code)
    PROVE  /\ reply \in Seq(Word) /\ Len(reply) \in Nat /\ Complete(reply)
           /\ Len(reply) = 4 + reply[2] + reply[3] + reply[4]
           /\ reply[1] \in {0, 1}
           /\ reply[2] \in Nat /\ reply[3] \in Nat /\ reply[4] \in Nat
<1>1. PICK word \in {0, 1}, output \in Returnable[code] :
         reply = Reply(word, output.stdout, output.stderr, output.zip)
    BY DEF Replies
<1> DEFINE out == output.stdout
           err == output.stderr
           zip == output.zip
<1>2. out \in Seq(Output) /\ err \in Seq(Output) /\ zip \in Seq(Output)
    BY ReturnableTyped
<1>3. reply = Reply(word, out, err, zip)
    BY <1>1
<1> HIDE DEF out, err, zip
<1>4. reply \in Seq(Word) /\ HasHeader(reply, word, out, err, zip)
  <2>1. word \in Word
    BY DEF Word
  <2> QED
    BY <1>2, <1>3, <2>1, ReplyHeader
<1>5. Len(out) \in Nat /\ Len(err) \in Nat /\ Len(zip) \in Nat
    BY <1>2, LenProperties
<1>6. Len(reply) \in Nat /\ Complete(reply)
    BY <1>4, <1>5 DEF Complete, HasHeader
<1> QED
    BY <1>4, <1>5, <1>6 DEF HasHeader

-----------------------------------------------------------------------------
(* The script's steps.                                                     *)

LEMMA RunTyped ==
    ASSUME HostTyped, child \in Script
    PROVE  /\ child.out \in Seq(Output) /\ child.err \in Seq(Output) /\ child.zip \in Seq(Output)
           /\ pipe.out \in Seq(Output) /\ pipe.err \in Seq(Output)
           /\ daemon.out \in Seq(Output) /\ daemon.err \in Seq(Output)
           /\ child.run \in [stdout : Seq(Output), stderr : Seq(Output),
                             files : Seq(Output), ok : BOOLEAN]
           /\ child # NoChild /\ child.state # "none"
BY SandboxAssumption DEF HostTyped, DaemonState, Script, NoChild

\* A unit is written to one of the pipes.
LEMMA WriteKeeps ==
    ASSUME HostTyped, RunSound, WriteOut \/ WriteErr, UNCHANGED <<daemon, backlog, sock>>
    PROVE  child' \in Script /\ pipe' \in [out : Seq(Output), err : Seq(Output)] /\ RunSound'
<1> USE RunTyped DEF RunSound
<1>1. CASE WriteOut
  <2>1. /\ child' = [child EXCEPT !.out = Tail(child.out)]
        /\ pipe' = [pipe EXCEPT !.out = Append(pipe.out, Head(child.out))]
        /\ Alive /\ child.out # <<>>
    BY <1>1 DEF WriteOut
  <2>2. /\ Tail(child.out) \in Seq(Output)
        /\ Append(pipe.out, Head(child.out)) \in Seq(Output)
    BY <2>1, MoveHead
  <2>3. child' \in Script /\ pipe' \in [out : Seq(Output), err : Seq(Output)]
    BY <2>1, <2>2 DEF HostTyped, Script
  <2>4. /\ child'.out = Tail(child.out) /\ pipe'.out = Append(pipe.out, Head(child.out))
        /\ child'.err = child.err /\ pipe'.err = pipe.err
        /\ child'.state = child.state /\ child'.run = child.run /\ child'.zip = child.zip
    BY <2>1 DEF HostTyped, Script
  <2>5. AllOut' = AllOut /\ AllErr' = AllErr
    BY <2>1, <2>4, ThroughWrite DEF AllOut, AllErr
  <2> QED
    BY <2>1, <2>3, <2>4, <2>5 DEF Alive
<1>2. CASE WriteErr
  <2>1. /\ child' = [child EXCEPT !.err = Tail(child.err)]
        /\ pipe' = [pipe EXCEPT !.err = Append(pipe.err, Head(child.err))]
        /\ Alive /\ child.err # <<>>
    BY <1>2 DEF WriteErr
  <2>2. /\ Tail(child.err) \in Seq(Output)
        /\ Append(pipe.err, Head(child.err)) \in Seq(Output)
    BY <2>1, MoveHead
  <2>3. child' \in Script /\ pipe' \in [out : Seq(Output), err : Seq(Output)]
    BY <2>1, <2>2 DEF HostTyped, Script
  <2>4. /\ child'.err = Tail(child.err) /\ pipe'.err = Append(pipe.err, Head(child.err))
        /\ child'.out = child.out /\ pipe'.out = pipe.out
        /\ child'.state = child.state /\ child'.run = child.run /\ child'.zip = child.zip
    BY <2>1 DEF HostTyped, Script
  <2>5. AllOut' = AllOut /\ AllErr' = AllErr
    BY <2>1, <2>4, ThroughWrite DEF AllOut, AllErr
  <2> QED
    BY <2>1, <2>3, <2>4, <2>5 DEF Alive
<1> QED
    BY <1>1, <1>2

\* The script goes on to its next command, with more to print perhaps.
LEMMA CommandPrints ==
    ASSUME HostTyped, RunSound, child.out = <<>>, child.err = <<>>, UNCHANGED <<daemon, pipe>>,
           child' \in Script
    PROVE  /\ AllOut' = AllOut \o child'.out /\ AllErr' = AllErr \o child'.err
           /\ AllOut \o <<>> = AllOut /\ AllErr \o <<>> = AllErr
<1>0. child'.out \in Seq(Output) /\ child'.err \in Seq(Output)
    BY DEF Script
<1>c. child \in Script
    BY DEF RunSound
<1>1. /\ daemon.out \in Seq(Output) /\ pipe.out \in Seq(Output) /\ child'.out \in Seq(Output)
      /\ daemon.err \in Seq(Output) /\ pipe.err \in Seq(Output) /\ child'.err \in Seq(Output)
      /\ <<>> \in Seq(Output)
  <2>1. /\ daemon.out \in Seq(Output) /\ pipe.out \in Seq(Output)
        /\ daemon.err \in Seq(Output) /\ pipe.err \in Seq(Output)
    BY <1>c, RunTyped
  <2>2. <<>> \in Seq(Output)
    BY EmptySeq
  <2> QED
    BY <1>0, <2>1, <2>2
<1>2. Through(daemon.out, pipe.out, child'.out) = Through(daemon.out, pipe.out, <<>>) \o child'.out
    BY ZenonT(60), <1>1, ThroughMore
<1>3. Through(daemon.err, pipe.err, child'.err) = Through(daemon.err, pipe.err, <<>>) \o child'.err
    BY ZenonT(60), <1>1, ThroughMore
<1>4. AllOut \in Seq(Output) /\ AllErr \in Seq(Output)
    BY <1>1, ThroughTyped DEF AllOut, AllErr
<1> QED
    BY <1>2, <1>3, <1>4, ConcatEmptySeq DEF AllOut, AllErr

LEMMA ScriptKeeps ==
    ASSUME HostTyped, RunSound, ScriptStep \/ ScriptFault, UNCHANGED <<daemon, backlog, sock>>
    PROVE  child' \in Script /\ pipe' \in [out : Seq(Output), err : Seq(Output)] /\ RunSound'
<1>0. /\ child \in Script /\ child.ok \in BOOLEAN /\ <<>> \in Seq(Output)
      /\ child.out \in Seq(Output) /\ child.err \in Seq(Output) /\ child.zip \in Seq(Output)
      /\ pipe.out \in Seq(Output) /\ pipe.err \in Seq(Output)
      /\ daemon.out \in Seq(Output) /\ daemon.err \in Seq(Output)
      /\ pipe \in [out : Seq(Output), err : Seq(Output)]
      /\ child.run.stdout \in Seq(Output) /\ child.run.stderr \in Seq(Output)
      /\ child.run.files \in Seq(Output)
    BY RunTyped, EmptySeq DEF RunSound, Script, HostTyped
<1>1. CASE WriteOut \/ WriteErr
    BY <1>1, WriteKeeps
<1>2. CASE Prepare
  <2>1. /\ child.out = <<>> /\ child.err = <<>> /\ UNCHANGED <<daemon, pipe, backlog, sock>>
        /\ AllOut = <<>> /\ AllErr = <<>> /\ child.zip = <<>> /\ Alive
    BY <1>2 DEF RunSound, Prepare, InState, Alive
  <2>2. /\ child' \in Script
        /\ child'.state = "program" /\ child'.run = child.run /\ child'.zip = child.zip
        /\ child'.out = child.run.stdout /\ child'.err = child.run.stderr
    BY <1>0, <1>2 DEF Prepare, Script
  <2>3. AllOut' = child.run.stdout /\ AllErr' = child.run.stderr
    BY <1>0, <2>1, <2>2, CommandPrints, ConcatEmptySeq
  <2> QED
    BY <1>0, <2>1, <2>2, <2>3 DEF RunSound, Alive
<1>3. CASE ProgramEnds
  <2>1. /\ child.out = <<>> /\ child.err = <<>> /\ UNCHANGED <<daemon, pipe, backlog, sock>>
        /\ AllOut = child.run.stdout /\ AllErr = child.run.stderr /\ child.zip = <<>> /\ Alive
    BY <1>3 DEF RunSound, ProgramEnds, InState, Alive, Written
  <2>2. CASE child.run.ok
    <3>1. /\ child' \in Script
          /\ child'.state = "archive" /\ child'.run = child.run /\ child'.zip = child.zip
          /\ child'.out = <<>> /\ child'.err = <<>>
      BY <1>0, <1>3, <2>1, <2>2 DEF ProgramEnds, Script
    <3>2. AllOut' = AllOut /\ AllErr' = AllErr
      BY <2>1, <3>1, CommandPrints
    <3> QED
      BY <1>0, <2>1, <2>2, <3>1, <3>2 DEF RunSound, Alive
  <2>3. CASE ~child.run.ok
    <3>1. /\ child' \in Script
          /\ child'.state = "leave" /\ child'.run = child.run /\ child'.zip = child.zip
          /\ child'.out = <<>> /\ child'.err = <<>>
      BY <1>0, <1>3, <2>1, <2>3 DEF ProgramEnds, Script
    <3>2. AllOut' = AllOut /\ AllErr' = AllErr
      BY <2>1, <3>1, CommandPrints
    <3>3. [stdout |-> child.run.stdout, stderr |-> child.run.stderr, zip |-> <<>>]
             \in Leavings(child.run)
      BY <2>3 DEF Leavings, Finished
    <3> QED
      BY <1>0, <2>1, <3>1, <3>2, <3>3 DEF RunSound, Alive
  <2> QED
    BY <2>2, <2>3
<1>4. CASE Archive
  <2>1. /\ child.out = <<>> /\ child.err = <<>> /\ UNCHANGED <<daemon, pipe, backlog, sock>>
        /\ AllOut = child.run.stdout /\ AllErr = child.run.stderr /\ child.run.ok /\ Alive
    BY <1>4 DEF RunSound, Archive, InState, Alive
  <2>2. /\ child' \in Script
        /\ child'.state = "leave" /\ child'.run = child.run /\ child'.zip = child.run.files
        /\ child'.out = <<>> /\ child'.err = <<>>
    BY <1>0, <1>4, <2>1 DEF Archive, Script
  <2>3. AllOut' = AllOut /\ AllErr' = AllErr
    BY <2>1, <2>2, CommandPrints
  <2>4. [stdout |-> child.run.stdout, stderr |-> child.run.stderr, zip |-> child.run.files]
           \in Leavings(child.run)
    BY <2>1 DEF Leavings, Finished
  <2> QED
    BY <1>0, <2>1, <2>2, <2>3, <2>4 DEF RunSound, Alive
<1>5. CASE Leave \/ LeaveFails
  <2>1. /\ child.state = "leave" /\ child.out = <<>> /\ child.err = <<>>
        /\ UNCHANGED <<daemon, pipe, backlog, sock>> /\ Alive
    BY <1>5 DEF RunSound, Leave, LeaveFails, InState, Alive, Written
  <2>2. /\ child' \in Script
        /\ child'.state = "closed" /\ child'.run = child.run /\ child'.zip = child.zip
        /\ child'.out = <<>> /\ child'.err = <<>>
    BY <1>0, <1>5, <2>1 DEF Leave, LeaveFails, Script
  <2>3. AllOut' = AllOut /\ AllErr' = AllErr
    BY <2>1, <2>2, CommandPrints
  <2> QED
    BY <1>0, <2>1, <2>2, <2>3 DEF RunSound, Alive
<1>6. CASE Exit
  <2>1. /\ child.state = "closed" /\ child.out = <<>> /\ child.err = <<>>
        /\ UNCHANGED <<daemon, pipe, backlog, sock>> /\ ~Alive
    BY <1>6 DEF RunSound, Exit, InState, Alive
  <2>2. /\ child' \in Script
        /\ child'.state = "dead" /\ child'.run = child.run /\ child'.zip = child.zip
        /\ child'.out = <<>> /\ child'.err = <<>>
    BY <1>0, <1>6, <2>1 DEF Exit, Script
  <2>3. AllOut' = AllOut /\ AllErr' = AllErr
    BY <2>1, <2>2, CommandPrints
  <2> QED
    BY <1>0, <2>1, <2>2, <2>3 DEF RunSound, Alive
<1>7. CASE DockerFails \/ ArchiveFails
  <2>1. /\ child.state \in {"prepare", "archive"} /\ child.out = <<>> /\ child.err = <<>>
        /\ child.zip = <<>> /\ UNCHANGED <<daemon, pipe, backlog, sock>> /\ Alive
    BY <1>7 DEF RunSound, DockerFails, ArchiveFails, Complain, InState, Alive
  <2>2. <<Message>> \in Seq(Output)
    BY SandboxAssumption
  <2>3. /\ child' \in Script
        /\ child'.state = "leave" /\ child'.run = child.run /\ child'.zip = child.zip
        /\ child'.out = <<>> /\ child'.err = <<Message>>
    <3>1. PICK ok \in BOOLEAN : child' = [child EXCEPT !.state = "leave", !.err = <<Message>>, !.ok = ok]
      BY <1>7 DEF DockerFails, ArchiveFails, Complain
    <3> QED
      BY <1>0, <2>1, <2>2, <3>1 DEF Script
  <2>4. AllOut' = AllOut /\ AllErr' = AllErr \o <<Message>>
    BY <2>1, <2>3, CommandPrints
  <2>5. [stdout |-> AllOut', stderr |-> AllErr', zip |-> <<>>] \in Leavings(child.run)
    <3>1. CASE child.state = "prepare"
      <4>1. AllOut' = <<>> /\ AllErr' = <<Message>>
        BY <2>2, <2>4, <3>1, ConcatEmptySeq DEF RunSound
      <4> QED
        BY <4>1 DEF Leavings, NotStarted
    <3>2. CASE child.state = "archive"
      <4>1. /\ AllOut' = child.run.stdout /\ child.run.ok
            /\ AllErr' = child.run.stderr \o <<Message>>
        BY <2>4, <3>2 DEF RunSound
      <4>2. Append(child.run.stderr, Message) = child.run.stderr \o <<Message>>
        BY <1>0, SandboxAssumption, AppendIsConcat
      <4> QED
        BY <4>1, <4>2 DEF Leavings, NotArchived
    <3> QED
      BY <2>1, <3>1, <3>2
  <2> QED
    BY <1>0, <2>1, <2>3, <2>4, <2>5 DEF RunSound, Alive
<1>8. CASE ExecFails
  <2>1. /\ child.state = "prepare" /\ child.out = <<>> /\ child.err = <<>> /\ Alive
        /\ AllOut = <<>> /\ AllErr = <<>> /\ child.zip = <<>>
        /\ UNCHANGED <<daemon, pipe, backlog, sock>>
    BY <1>8 DEF RunSound, ExecFails, InState, Alive
  <2>2. /\ child' \in Script
        /\ child'.state = "closed" /\ child'.run = child.run /\ child'.zip = child.zip
        /\ child'.out = <<>> /\ child'.err = <<>>
    BY <1>0, <1>8, <2>1 DEF ExecFails, Script
  <2>3. AllOut' = AllOut /\ AllErr' = AllErr
    BY <2>1, <2>2, CommandPrints
  <2>4. [stdout |-> <<>>, stderr |-> <<>>, zip |-> <<>>] \in Leavings(child.run)
    BY DEF Leavings, Nothing
  <2> QED
    BY <1>0, <2>1, <2>2, <2>3, <2>4 DEF RunSound, Alive
<1> QED
    BY <1>1, <1>2, <1>3, <1>4, <1>5, <1>6, <1>7, <1>8 DEF ScriptStep, ScriptFault

\* The daemon's other variables and the connections are not the script's.
LEMMA ScriptKeepsHost ==
    ASSUME HostInv, ScriptStep \/ ScriptFault, UNCHANGED <<daemon, backlog, sock, client>>
    PROVE  HostInv'
<1>1. Running /\ RunSound
  <2>1. child # NoChild
    <3>1. child.state # "none"
      BY DEF ScriptStep, ScriptFault, WriteOut, WriteErr, Prepare, ProgramEnds, Archive, Leave, Exit,
             ExecFails, DockerFails, ArchiveFails, LeaveFails, InState, Alive
    <3> QED
      BY <3>1 DEF NoChild
  <2> QED
    BY <2>1 DEF HostInv, ChildSound, NoRun
<1>2. child' \in Script /\ pipe' \in [out : Seq(Output), err : Seq(Output)] /\ RunSound'
  <2>1. HostTyped /\ UNCHANGED <<daemon, backlog, sock>>
    BY DEF HostInv
  <2> QED
    BY <1>1, <2>1, ScriptKeeps
<1>3. HostTyped'
    BY <1>2 DEF HostInv, HostTyped
<1>4. ChildSound'
    BY <1>1, <1>2 DEF ChildSound, Running
<1>5. ConnectionsSound' /\ DataSound' /\ ReplySound' /\ CallsSound'
    BY DEF HostInv, ConnectionsSound, DataSound, DataOf, ReplySound, CallsSound, CallSound, Queued, Unserved,
           Serving, Running, JobOf, At
<1> QED
    BY <1>3, <1>4, <1>5 DEF HostInv

-----------------------------------------------------------------------------
(* Connections.                                                            *)

\* A connection d is the same but for its ends being open.
SameData(d) ==
    /\ sock'[d].data = sock[d].data
    /\ sock'[d] \in Request <=> sock[d] \in Request
    /\ sock[d] \in Request => sock'[d].code = sock[d].code

\* The connections that are ended.
Ended(ends) ==
    sock' = [d \in Client |-> IF d \in ends THEN [sock[d] EXCEPT !.ended = TRUE] ELSE sock[d]]

LEMMA KindsDiffer == \A s \in Blank : s \notin Request
BY DEF Blank, Request

LEMMA EndsTyped ==
    ASSUME HostTyped, NEW ends \in SUBSET Client, Ended(ends)
    PROVE  /\ sock' \in [Client -> Blank \cup Request]
           /\ \A d \in Client : SameData(d) /\ sock'[d].open = sock[d].open
           /\ \A d \in ends : sock'[d].ended
<1> USE DEF Ended
<1>1. ASSUME NEW d \in Client
      PROVE  sock'[d] \in Blank \cup Request /\ SameData(d) /\ sock'[d].open = sock[d].open
  <2>1. CASE d \notin ends
    BY <2>1 DEF HostTyped, SameData
  <2>2. CASE d \in ends /\ sock[d] \in Blank
    <3>1. sock'[d] \in Blank /\ sock'[d].data = sock[d].data /\ sock'[d].open = sock[d].open
      BY <2>2 DEF Blank
    <3> QED
      BY <2>2, <3>1, KindsDiffer DEF SameData
  <2>3. CASE d \in ends /\ sock[d] \in Request
    <3>1. /\ sock'[d] \in Request /\ sock'[d].data = sock[d].data /\ sock'[d].open = sock[d].open
          /\ sock'[d].code = sock[d].code
      BY <2>3 DEF Request
    <3> QED
      BY <2>3, <3>1 DEF SameData
  <2> QED
    BY <2>1, <2>2, <2>3 DEF HostTyped
<1>2. ASSUME NEW d \in ends
      PROVE  sock'[d].ended
  <2>1. sock[d] \in Blank \cup Request
    BY DEF HostTyped
  <2> QED
    BY <2>1 DEF Blank, Request
<1> QED
    BY <1>1, <1>2

\* A connection that the client closes.
LEMMA ClosedConnection ==
    ASSUME NEW D, NEW s
    PROVE  /\ s \in [open : BOOLEAN, ended : BOOLEAN, data : D] =>
                 /\ [s EXCEPT !.open = FALSE] \in [open : BOOLEAN, ended : BOOLEAN, data : D]
                 /\ [s EXCEPT !.open = FALSE].data = s.data
                 /\ [s EXCEPT !.open = FALSE].ended = s.ended
           /\ s \in [open : BOOLEAN, ended : BOOLEAN, code : Code, data : D] =>
                 /\ [s EXCEPT !.open = FALSE] \in [open : BOOLEAN, ended : BOOLEAN, code : Code, data : D]
                 /\ [s EXCEPT !.open = FALSE].data = s.data
                 /\ [s EXCEPT !.open = FALSE].ended = s.ended
                 /\ [s EXCEPT !.open = FALSE].code = s.code
OBVIOUS

LEMMA CloseTyped ==
    ASSUME HostTyped, NEW c \in Client, sock' = [sock EXCEPT ![c].open = FALSE]
    PROVE  /\ sock' \in [Client -> Blank \cup Request]
           /\ \A d \in Client : SameData(d) /\ sock'[d].ended = sock[d].ended
<1>1. ASSUME NEW d \in Client
      PROVE  sock'[d] \in Blank \cup Request /\ SameData(d) /\ sock'[d].ended = sock[d].ended
  <2>1. CASE d # c
    BY <2>1 DEF HostTyped, SameData
  <2>2. CASE d = c /\ sock[d] \in Blank
    <3>1. sock'[d] = [sock[d] EXCEPT !.open = FALSE]
      BY <2>2 DEF HostTyped
    <3>2. sock'[d] \in Blank /\ sock'[d].data = sock[d].data /\ sock'[d].ended = sock[d].ended
      BY <2>2, <3>1, ClosedConnection DEF Blank
    <3> QED
      BY <2>2, <3>2, KindsDiffer DEF SameData
  <2>3. CASE d = c /\ sock[d] \in Request
    <3>1. sock'[d] = [sock[d] EXCEPT !.open = FALSE]
      BY <2>3 DEF HostTyped
    <3>2. /\ sock'[d] \in Request /\ sock'[d].data = sock[d].data
          /\ sock'[d].code = sock[d].code /\ sock'[d].ended = sock[d].ended
      BY <2>3, <3>1, ClosedConnection DEF Request
    <3> QED
      BY <2>3, <3>2 DEF SameData
  <2> QED
    BY <2>1, <2>2, <2>3 DEF HostTyped
<1> QED
    BY <1>1 DEF HostTyped


\* What was received is the beginning of a reply as long as the data stays.
LEMMA DataStays ==
    ASSUME UNCHANGED client, NEW d \in Client, SameData(d), sock[d].ended => sock'[d].ended,
           DataOf(d), CallSound(d)
    PROVE  DataOf(d)' /\ CallSound(d)'
<1>1. DataOf(d)'
    BY DEF DataOf, SameData, Replies
<1>2. CallSound(d)'
    BY DEF CallSound, SameData, Replies, At, JobOf
<1> QED
    BY <1>1, <1>2

LEMMA DataKeeps ==
    ASSUME HostInv, UNCHANGED client,
           \A d \in Client : SameData(d) /\ (sock[d].ended => sock'[d].ended)
    PROVE  DataSound' /\ CallsSound'
<1>1. \A d \in Client : DataOf(d) /\ CallSound(d)
    BY DEF HostInv, DataSound, CallsSound
<1>2. \A d \in Client : DataOf(d)' /\ CallSound(d)'
    BY <1>1, DataStays
<1> QED
    BY <1>2 DEF DataSound, CallsSound

\* The daemon is through with a connection, or is gone with all of them.
LEMMA IdleKeeps ==
    ASSUME HostInv, UNCHANGED client,
           daemon' = Idle \/ \E pc \in {"failed", "stopped"} : daemon' = [Idle EXCEPT !.pc = pc],
           child' = NoChild, pipe' = EmptyPipes,
           NEW ends \in SUBSET Client, Ended(ends),
           \/ backlog' = <<>> /\ ends = Client
           \/ backlog' = backlog /\ ends = {daemon.client} \cap Client
    PROVE  HostInv'
<1>1. HostTyped
    BY DEF HostInv
<1>2. /\ sock' \in [Client -> Blank \cup Request]
      /\ \A d \in Client : SameData(d)
      /\ \A d \in ends : sock'[d].ended
      /\ \A d \in Client \ ends : sock'[d] = sock[d]
    BY <1>1, EndsTyped DEF Ended
<1>3. /\ daemon'.pc \in {"accept", "failed", "stopped"} /\ daemon'.client = NoClient
      /\ daemon'.out = <<>> /\ daemon'.err = <<>>
      /\ daemon' \in DaemonState
  <2>1. /\ Idle \in DaemonState /\ Idle.pc = "accept" /\ Idle.client = NoClient
        /\ Idle.out = <<>> /\ Idle.err = <<>>
    BY EmptySeq DEF Idle, DaemonState, DaemonPcs
  <2>2. ASSUME NEW pc \in {"failed", "stopped"}
        PROVE  /\ [Idle EXCEPT !.pc = pc] \in DaemonState
               /\ [Idle EXCEPT !.pc = pc].pc = pc /\ [Idle EXCEPT !.pc = pc].client = NoClient
               /\ [Idle EXCEPT !.pc = pc].out = <<>> /\ [Idle EXCEPT !.pc = pc].err = <<>>
    BY <2>1 DEF DaemonState, DaemonPcs
  <2> QED
    BY <2>1, <2>2
<1>4. HostTyped'
  <2>1. backlog' \in Seq(Client)
    BY <1>1, EmptySeq DEF HostTyped
  <2>2. pipe' \in [out : Seq(Output), err : Seq(Output)]
    BY EmptySeq DEF EmptyPipes
  <2> QED
    BY <1>2, <1>3, <2>1, <2>2 DEF HostTyped
<1>5. ChildSound'
    BY <1>3 DEF ChildSound, NoRun, Running
<1>6. ConnectionsSound'
  <2>1. ~Serving'
    BY <1>3 DEF Serving, Running
  <2>2. CASE backlog' = <<>> /\ ends = Client
    BY <1>2, <1>3, <2>1, <2>2 DEF ConnectionsSound, Queued
  <2>3. CASE backlog' = backlog /\ ends = {daemon.client} \cap Client
    <3>1. \A d \in Client : Queued(d)' <=> Queued(d)
      BY <2>3 DEF Queued
    <3>2. \A d \in Client : Queued(d) => d \notin ends /\ Unserved(d)'
      BY <1>2, <2>3 DEF HostInv, ConnectionsSound, Unserved
    <3>3. \A d \in Client : ~sock'[d].ended => Queued(d)'
      BY <1>2, <2>3, <3>1 DEF HostInv, ConnectionsSound
    <3>4. \A i, j \in 1 .. Len(backlog') : backlog'[i] = backlog'[j] => i = j
      BY <2>3 DEF HostInv, ConnectionsSound
    <3>5. NoClient \notin Client
      BY DaemonAssumption
    <3> QED
      BY <1>3, <2>1, <3>1, <3>2, <3>3, <3>4, <3>5 DEF ConnectionsSound
  <2> QED
    BY <2>2, <2>3
<1>7. DataSound' /\ CallsSound'
    BY <1>2, DataKeeps
<1>8. ReplySound'
    BY <1>3 DEF ReplySound
<1> QED
    BY <1>4, <1>5, <1>6, <1>7, <1>8 DEF HostInv

LEMMA GoDownKeeps ==
    ASSUME HostInv, UNCHANGED client, NEW pc \in {"failed", "stopped"}, GoDown(pc)
    PROVE  HostInv'
<1>1. Ended(Client)
    BY DEF GoDown, Ended
<1> QED
    BY <1>1, IdleKeeps DEF GoDown

LEMMA CloseKeeps ==
    ASSUME HostInv, UNCHANGED <<client, child, pipe, backlog>>, daemon.pc = "receive", Close(daemon.client)
    PROVE  HostInv'
<1>1. daemon.client \in Client /\ child = NoChild /\ pipe = EmptyPipes
    BY DEF HostInv, ChildSound, NoRun, ConnectionsSound, Serving, Running
<1>2. Ended({daemon.client})
    BY <1>1 DEF Close, Ended, HostInv, HostTyped
<1> QED
    BY <1>1, <1>2, IdleKeeps DEF Close

LEMMA RestartKeeps ==
    ASSUME HostInv, UNCHANGED client, Restart
    PROVE  HostInv'
<1>1. child = NoChild /\ pipe = EmptyPipes /\ daemon.client \notin Client
    BY DaemonAssumption DEF Restart, HostInv, ChildSound, NoRun, ConnectionsSound, Serving, Running
<1>2. Ended({})
    BY DEF Restart, Ended, HostInv, HostTyped
<1> QED
    BY <1>1, <1>2, IdleKeeps DEF Restart


\* The daemon goes on with the connection it serves.
LEMMA ServeKeeps ==
    ASSUME HostInv, UNCHANGED <<client, backlog, sock>>, Serving, daemon.pc # "reply",
           Serving', daemon'.client = daemon.client
    PROVE  ConnectionsSound' /\ DataSound' /\ CallsSound'
<1>1. ConnectionsSound'
    BY DEF HostInv, ConnectionsSound, Queued, Unserved
<1>2. \A d \in Client : SameData(d) /\ (sock[d].ended => sock'[d].ended)
    BY DEF SameData
<1> QED
    BY <1>1, <1>2, DataKeeps

LEMMA AcceptKeeps ==
    ASSUME HostInv, UNCHANGED client, Accept
    PROVE  HostInv'
<1> DEFINE c == Head(backlog)
<1>1. /\ backlog \in Seq(Client) /\ backlog # <<>> /\ backlog' = Tail(backlog)
      /\ UNCHANGED <<child, pipe, sock>> /\ daemon.pc = "accept"
      /\ daemon' = [Idle EXCEPT !.pc = "receive", !.client = c]
    BY DEF Accept, HostInv, HostTyped
<1>2. /\ c \in Client /\ c = backlog[1] /\ Tail(backlog) \in Seq(Client)
      /\ Len(backlog) \in Nat /\ Len(backlog) >= 1 /\ Len(Tail(backlog)) = Len(backlog) - 1
      /\ \A i \in 1 .. Len(Tail(backlog)) : Tail(backlog)[i] = backlog[i + 1]
    BY <1>1, HeadTailProperties, LenProperties
<1> HIDE DEF c
<1>3. /\ daemon' \in DaemonState /\ daemon'.pc = "receive" /\ daemon'.client = c
      /\ daemon'.out = <<>> /\ daemon'.err = <<>>
    BY <1>1, <1>2, EmptySeq DEF Idle, DaemonState, DaemonPcs
<1>4. HostTyped'
    BY <1>1, <1>2, <1>3 DEF HostInv, HostTyped
<1>5. ChildSound'
    BY <1>1, <1>3 DEF HostInv, ChildSound, NoRun, Running
<1>6. ConnectionsSound'
  <2>1. \A i, j \in 1 .. Len(backlog) : backlog[i] = backlog[j] => i = j
    BY DEF HostInv, ConnectionsSound
  <2>2. \A i, j \in 1 .. Len(backlog') : backlog'[i] = backlog'[j] => i = j
    <3> SUFFICES ASSUME NEW i \in 1 .. Len(backlog'), NEW j \in 1 .. Len(backlog'), backlog'[i] = backlog'[j]
                 PROVE  i = j
      OBVIOUS
    <3>1. i + 1 \in 1 .. Len(backlog) /\ j + 1 \in 1 .. Len(backlog)
      BY <1>1, <1>2
    <3>2. backlog[i + 1] = backlog[j + 1]
      BY <1>1, <1>2
    <3> QED
      BY <1>1, <1>2, <2>1, <3>1, <3>2
  <2>3. \A d \in Client : Queued(d)' => Queued(d) /\ d # c
    <3> SUFFICES ASSUME NEW d \in Client, Queued(d)' PROVE Queued(d) /\ d # c
      OBVIOUS
    <3>1. PICK i \in 1 .. Len(backlog') : backlog'[i] = d
      BY DEF Queued
    <3>2. i + 1 \in 1 .. Len(backlog) /\ backlog[i + 1] = d /\ i + 1 # 1 /\ 1 \in 1 .. Len(backlog)
      BY <1>1, <1>2, <3>1
    <3> QED
      BY <1>2, <2>1, <3>2 DEF Queued
  <2>4. \A d \in Client : Queued(d) => Queued(d)' \/ d = c
    <3> SUFFICES ASSUME NEW d \in Client, Queued(d), d # c PROVE Queued(d)'
      OBVIOUS
    <3>1. PICK i \in 1 .. Len(backlog) : backlog[i] = d
      BY DEF Queued
    <3>2. i # 1
      BY <1>2, <3>1
    <3>3. i - 1 \in 1 .. Len(backlog') /\ (i - 1) + 1 = i
      BY <1>1, <1>2, <3>2
    <3>4. backlog'[i - 1] = d
      BY <1>1, <1>2, <3>1, <3>3
    <3> QED
      BY <3>3, <3>4 DEF Queued
  <2>5. Queued(c) /\ Unserved(c)
    <3>1. 1 \in 1 .. Len(backlog)
      BY <1>2
    <3> QED
      BY <1>2, <3>1 DEF HostInv, ConnectionsSound, Queued
  <2>6. \A d \in Client : (Queued(d) => Unserved(d)) /\ (~sock[d].ended => Queued(d))
    BY <1>1, DaemonAssumption DEF HostInv, ConnectionsSound, Serving, Running
  <2>7. \A d \in Client : Unserved(d)' <=> Unserved(d)
    BY <1>1 DEF Unserved
  <2>8. Serving'
    BY <1>3 DEF Serving
  <2>9. sock'[c] \in Request /\ ~sock'[c].ended
    BY <1>1, <2>5 DEF Unserved
  <2> QED
    BY <1>1, <1>2, <1>3, <2>2, <2>3, <2>4, <2>5, <2>6, <2>7, <2>8, <2>9 DEF ConnectionsSound
<1>7. DataSound' /\ CallsSound'
  <2>1. \A d \in Client : SameData(d) /\ (sock[d].ended => sock'[d].ended)
    BY <1>1 DEF SameData
  <2> QED
    BY <2>1, DataKeeps
<1>8. ReplySound'
    BY <1>3 DEF ReplySound
<1> QED
    BY <1>4, <1>5, <1>6, <1>7, <1>8 DEF HostInv

\* The script is started, with nothing printed.
LEMMA StartKeeps ==
    ASSUME HostInv, UNCHANGED <<client, pipe, backlog, sock>>, daemon.pc = "receive",
           NEW run \in Runs[sock[daemon.client].code], child' = Started(run),
           daemon' = [daemon EXCEPT !.pc = "select", !.outOpen = TRUE, !.errOpen = TRUE]
    PROVE  HostInv'
<1>1. /\ daemon \in DaemonState /\ daemon.client \in Client /\ sock[daemon.client] \in Request
      /\ NoRun
    BY DEF HostInv, HostTyped, ChildSound, ConnectionsSound, Serving, Running
<1>2. /\ daemon' \in DaemonState /\ daemon'.pc = "select" /\ daemon'.client = daemon.client
      /\ daemon'.out = daemon.out /\ daemon'.err = daemon.err /\ daemon'.outOpen /\ daemon'.errOpen
    BY <1>1 DEF DaemonState, DaemonPcs
<1>3. /\ child' \in Script /\ child'.state = "prepare" /\ child'.run = run
      /\ child'.out = <<>> /\ child'.err = <<>> /\ child'.zip = <<>>
  <2>1. sock[daemon.client].code \in Code
    BY <1>1 DEF Request
  <2> QED
    BY <2>1, EmptySeq DEF Started, Script
<1>4. HostTyped'
    BY <1>2, <1>3 DEF HostInv, HostTyped
<1>5. ChildSound'
  <2>1. AllOut' = <<>> /\ AllErr' = <<>>
    <3>1. Through(<<>>, <<>>, <<>>) = <<>>
      BY EmptySeq, ConcatEmptySeq DEF Through
    <3> QED
      BY <1>1, <1>2, <1>3, <3>1 DEF AllOut, AllErr, NoRun, EmptyPipes
  <2>2. RunSound'
    BY <1>2, <1>3, <2>1 DEF RunSound
  <2> QED
    BY <1>2, <2>2 DEF ChildSound, Running
<1>6. ConnectionsSound' /\ DataSound' /\ CallsSound'
    BY <1>2, ServeKeeps DEF Serving, Running
<1>7. ReplySound'
    BY <1>2 DEF ReplySound
<1> QED
    BY <1>4, <1>5, <1>6, <1>7 DEF HostInv


\* The daemon has the reply to the connection it serves.
LEMMA ReplyKeeps ==
    ASSUME HostInv, UNCHANGED <<client, backlog, sock>>, Serving, daemon.pc # "reply",
           NEW code \in Code, code = sock[daemon.client].code,
           daemon' \in DaemonState, daemon'.pc = "reply", daemon'.client = daemon.client,
           daemon'.reply \in Replies(code), NoRun'
    PROVE  HostInv'
<1>1. HostTyped'
  <2>1. child' = NoChild /\ pipe' \in [out : Seq(Output), err : Seq(Output)]
    BY EmptySeq DEF NoRun, EmptyPipes
  <2> QED
    BY <2>1 DEF HostInv, HostTyped
<1>2. ChildSound'
    BY DEF ChildSound, Running
<1>3. ConnectionsSound' /\ DataSound' /\ CallsSound'
    BY ServeKeeps DEF Serving
<1>4. ReplySound'
  <2>1. sock[daemon.client].data = <<>>
    BY DEF HostInv, ConnectionsSound, Unserved
  <2>2. daemon'.reply \in Seq(Word) /\ Len(daemon'.reply) \in Nat /\ Len(daemon'.reply) >= 4
    BY RepliesTyped DEF Complete
  <2>3. daemon'.reply # <<>> /\ <<>> \o daemon'.reply = daemon'.reply
    BY <2>2, ConcatEmptySeq
  <2> QED
    BY <2>1, <2>3 DEF ReplySound, Replies
<1> QED
    BY <1>1, <1>2, <1>3, <1>4 DEF HostInv

LEMMA RunFailsKeeps ==
    ASSUME HostInv, UNCHANGED client, RunFails
    PROVE  HostInv'
<1> DEFINE reply == Reply(1, <<>>, <<>>, <<>>)
           code == sock[daemon.client].code
<1>1. /\ daemon.pc = "receive" /\ UNCHANGED <<child, pipe, backlog, sock>>
      /\ daemon' = [daemon EXCEPT !.pc = "reply", !.reply = reply]
    BY DEF RunFails
<1>2. daemon \in DaemonState /\ NoRun /\ code \in Code /\ Serving
    BY <1>1 DEF HostInv, HostTyped, ChildSound, ConnectionsSound, Serving, Running, Request
<1>3. reply \in Replies(code)
  <2>1. [stdout |-> <<>>, stderr |-> <<>>, zip |-> <<>>] \in Returnable[code]
    BY <1>2, ReturnableTyped
  <2> HIDE DEF code
  <2> QED
    BY <2>1 DEF Replies
<1> HIDE DEF reply
<1>4. reply \in Seq(Word)
    BY <1>2, <1>3, RepliesTyped
<1>5. /\ daemon' \in DaemonState /\ daemon'.pc = "reply" /\ daemon'.client = daemon.client
      /\ daemon'.reply = reply /\ daemon'.out = daemon.out /\ daemon'.err = daemon.err
    BY <1>1, <1>2, <1>4 DEF DaemonState, DaemonPcs
<1>6. NoRun'
    BY <1>1, <1>2, <1>5 DEF NoRun
<1> QED
    BY <1>1, <1>2, <1>3, <1>5, <1>6, ReplyKeeps

LEMMA WaitKeeps ==
    ASSUME HostInv, UNCHANGED client, Wait
    PROVE  HostInv'
<1> DEFINE code == sock[daemon.client].code
           output == [stdout |-> daemon.out, stderr |-> daemon.err, zip |-> child.zip]
<1>1. PICK word \in {0, 1} :
         daemon' = [Idle EXCEPT !.pc = "reply", !.client = daemon.client,
                                !.reply = Reply(word, daemon.out, daemon.err, child.zip)]
    BY DEF Wait
<1>2. /\ daemon.pc = "wait" /\ child.state = "dead" /\ UNCHANGED <<backlog, sock>>
      /\ child' = NoChild /\ pipe' = EmptyPipes
    BY DEF Wait, InState
<1>3. HostTyped /\ RunSound /\ daemon.client \in Client /\ code \in Code /\ Serving
    BY <1>2 DEF HostInv, ChildSound, ConnectionsSound, Serving, Running, Request
<1>4. output \in Leavings(child.run)
  <2>1. child.out = <<>> /\ child.err = <<>> /\ pipe = EmptyPipes
    BY <1>2, <1>3 DEF RunSound
  <2>2. daemon.out \in Seq(Output) /\ daemon.err \in Seq(Output)
    BY <1>3 DEF HostTyped, DaemonState
  <2>3. AllOut = daemon.out /\ AllErr = daemon.err
    BY <2>1, <2>2, ThroughEnds DEF AllOut, AllErr, EmptyPipes
  <2> QED
    BY <1>2, <1>3, <2>3 DEF RunSound
<1>5. output \in Returnable[code]
    BY <1>3, <1>4, ReturnableTyped DEF RunSound
<1> DEFINE reply == Reply(word, daemon.out, daemon.err, child.zip)
<1>6. reply \in Replies(code)
  <2> HIDE DEF code
  <2> QED
    BY <1>5 DEF Replies
<1> HIDE DEF code
<1>7. reply \in Seq(Word)
    BY <1>3, <1>6, RepliesTyped
<1> HIDE DEF reply
<1>8. /\ daemon' \in DaemonState /\ daemon'.pc = "reply" /\ daemon'.client = daemon.client
      /\ daemon'.reply = reply /\ daemon'.out = <<>> /\ daemon'.err = <<>>
  <2>1. daemon' = [Idle EXCEPT !.pc = "reply", !.client = daemon.client, !.reply = reply]
    BY <1>1 DEF reply
  <2>2. Idle \in DaemonState /\ Idle.out = <<>> /\ Idle.err = <<>>
    BY EmptySeq DEF Idle, DaemonState, DaemonPcs
  <2> QED
    BY <1>3, <1>7, <2>1, <2>2 DEF DaemonState, DaemonPcs
<1>9. NoRun'
    BY <1>2, <1>8 DEF NoRun
<1>10. daemon.pc # "reply" /\ code = sock[daemon.client].code
    BY <1>2 DEF code
<1> QED
    BY <1>2, <1>3, <1>6, <1>8, <1>9, <1>10, ReplyKeeps


\* The daemon goes on with a run.
LEMMA RunKeeps ==
    ASSUME HostInv, UNCHANGED <<client, child, backlog, sock>>, Running,
           daemon' \in DaemonState, pipe' \in [out : Seq(Output), err : Seq(Output)],
           Running', daemon'.client = daemon.client, RunSound'
    PROVE  HostInv'
<1>1. HostTyped'
    BY DEF HostInv, HostTyped
<1>2. ChildSound'
    BY DEF ChildSound
<1>3. ConnectionsSound' /\ DataSound' /\ CallsSound'
    BY ServeKeeps DEF Serving, Running
<1>4. ReplySound'
    BY DEF ReplySound, Running
<1> QED
    BY <1>1, <1>2, <1>3, <1>4 DEF HostInv

LEMMA SelectKeeps ==
    ASSUME HostInv, UNCHANGED client, Select
    PROVE  HostInv'
<1>1. HostTyped /\ RunSound /\ Running /\ daemon \in DaemonState
    BY DEF Select, HostInv, HostTyped, ChildSound, Running
<1>2. /\ daemon.out \in Seq(Output) /\ pipe.out \in Seq(Output) /\ child.out \in Seq(Output)
      /\ daemon.err \in Seq(Output) /\ pipe.err \in Seq(Output) /\ child.err \in Seq(Output)
    BY <1>1, RunTyped DEF RunSound
<1> DEFINE out == IF ReadsOut THEN Append(daemon.out, Head(pipe.out)) ELSE daemon.out
           err == IF ReadsErr THEN Append(daemon.err, Head(pipe.err)) ELSE daemon.err
           restOut == IF ReadsOut THEN Tail(pipe.out) ELSE pipe.out
           restErr == IF ReadsErr THEN Tail(pipe.err) ELSE pipe.err
<1>3. /\ out \in Seq(Output) /\ restOut \in Seq(Output)
      /\ Through(out, restOut, child.out) = AllOut
    BY <1>2, MoveHead, ThroughRead DEF ReadsOut, AllOut
<1>4. /\ err \in Seq(Output) /\ restErr \in Seq(Output)
      /\ Through(err, restErr, child.err) = AllErr
    BY <1>2, MoveHead, ThroughRead DEF ReadsErr, AllErr
<1>5. /\ pipe' = [out |-> restOut, err |-> restErr] /\ UNCHANGED <<child, backlog, sock>>
      /\ daemon' = [daemon EXCEPT !.pc = "poll", !.out = out, !.err = err,
                                  !.outOpen = @ /\ (Alive \/ pipe.out # <<>>),
                                  !.errOpen = @ /\ (Alive \/ pipe.err # <<>>)]
    BY DEF Select
<1>6. daemon.outOpen \in BOOLEAN /\ daemon.errOpen \in BOOLEAN
    BY <1>1 DEF DaemonState
<1>7. restOut = <<>> \/ daemon.outOpen
    BY <1>1 DEF ReadsOut, RunSound
<1>8. restErr = <<>> \/ daemon.errOpen
    BY <1>1 DEF ReadsErr, RunSound
<1> HIDE DEF out, err
<1>9. /\ daemon' \in DaemonState /\ daemon'.pc = "poll" /\ daemon'.client = daemon.client
      /\ daemon'.out = out /\ daemon'.err = err
    BY <1>1, <1>3, <1>4, <1>5, <1>6 DEF DaemonState, DaemonPcs
<1>10. ~daemon'.outOpen => ~Alive /\ restOut = <<>>
  <2>1. daemon'.outOpen = (daemon.outOpen /\ (Alive \/ pipe.out # <<>>))
    BY <1>1, <1>5 DEF DaemonState
  <2> QED
    BY <1>1, <2>1 DEF RunSound, ReadsOut
<1>11. ~daemon'.errOpen => ~Alive /\ restErr = <<>>
  <2>1. daemon'.errOpen = (daemon.errOpen /\ (Alive \/ pipe.err # <<>>))
    BY <1>1, <1>5 DEF DaemonState
  <2> QED
    BY <1>1, <2>1 DEF RunSound, ReadsErr
<1> HIDE DEF restOut, restErr
<1>12. pipe' \in [out : Seq(Output), err : Seq(Output)] /\ pipe'.out = restOut /\ pipe'.err = restErr
    BY <1>3, <1>4, <1>5
<1>13. AllOut' = AllOut /\ AllErr' = AllErr
    BY <1>3, <1>4, <1>5, <1>9, <1>12 DEF AllOut, AllErr
<1>14. RunSound'
    BY <1>1, <1>5, <1>9, <1>10, <1>11, <1>12, <1>13 DEF RunSound, Alive
<1> QED
    BY <1>1, <1>5, <1>9, <1>12, <1>14, RunKeeps DEF Running

LEMMA PollKeeps ==
    ASSUME HostInv, UNCHANGED client, Poll
    PROVE  HostInv'
<1>1. HostTyped /\ RunSound /\ Running /\ daemon \in DaemonState /\ UNCHANGED <<child, backlog, sock>>
    BY DEF Poll, HostInv, HostTyped, ChildSound, Running
<1>2. /\ daemon.out \in Seq(Output) /\ pipe.out \in Seq(Output) /\ child.out \in Seq(Output)
      /\ daemon.err \in Seq(Output) /\ pipe.err \in Seq(Output) /\ child.err \in Seq(Output)
      /\ <<>> \in Seq(Output) /\ pipe \in [out : Seq(Output), err : Seq(Output)]
    BY <1>1, RunTyped, EmptySeq DEF RunSound, HostTyped
<1>3. CASE InState("dead") /\ daemon' = Drained /\ pipe' = EmptyPipes
  <2> DEFINE out == daemon.out \o pipe.out
             err == daemon.err \o pipe.err
  <2>1. out \in Seq(Output) /\ err \in Seq(Output)
    BY <1>2, ConcatProperties
  <2>2. Through(out, <<>>, child.out) = AllOut
    BY <1>2, ThroughEnds DEF AllOut
  <2>3. Through(err, <<>>, child.err) = AllErr
    BY <1>2, ThroughEnds DEF AllErr
  <2>4. daemon' = [daemon EXCEPT !.pc = "wait", !.reaped = TRUE, !.out = out, !.err = err]
    BY <1>3 DEF Drained
  <2> HIDE DEF out, err
  <2>5. /\ daemon' \in DaemonState /\ daemon'.pc = "wait" /\ daemon'.client = daemon.client
        /\ daemon'.out = out /\ daemon'.err = err
    BY <1>1, <2>1, <2>4 DEF DaemonState, DaemonPcs
  <2>6. /\ pipe' \in [out : Seq(Output), err : Seq(Output)]
        /\ pipe'.out = <<>> /\ pipe'.err = <<>>
    BY <1>2, <1>3 DEF EmptyPipes
  <2>7. AllOut' = AllOut /\ AllErr' = AllErr
    BY <1>1, <2>2, <2>3, <2>5, <2>6 DEF AllOut, AllErr
  <2>8. ~Alive'
    BY <1>1, <1>3 DEF InState, Alive
  <2>9. RunSound'
    BY <1>1, <1>3, <2>5, <2>6, <2>7, <2>8 DEF RunSound
  <2> QED
    BY <1>1, <2>5, <2>6, <2>9, RunKeeps DEF Running
<1>4. CASE ~InState("dead") /\ UNCHANGED pipe
  <2> DEFINE pc == IF daemon.outOpen \/ daemon.errOpen THEN "select" ELSE "wait"
  <2>1. daemon' = [daemon EXCEPT !.pc = pc]
    BY <1>3, <1>4 DEF Poll
  <2>2. pc \in DaemonPcs /\ pc \in {"select", "wait"}
    BY DEF DaemonPcs
  <2>3. pc = "wait" => ~Alive /\ pipe = EmptyPipes
    BY <1>1, <1>2 DEF RunSound, EmptyPipes
  <2> HIDE DEF pc
  <2>4. /\ daemon' \in DaemonState /\ daemon'.pc = pc /\ daemon'.client = daemon.client
        /\ daemon'.out = daemon.out /\ daemon'.err = daemon.err
        /\ daemon'.outOpen = daemon.outOpen /\ daemon'.errOpen = daemon.errOpen
    BY <1>1, <2>1, <2>2 DEF DaemonState
  <2>5. AllOut' = AllOut /\ AllErr' = AllErr
    BY <1>1, <1>4, <2>4 DEF AllOut, AllErr
  <2>6. RunSound'
    BY <1>1, <1>4, <2>3, <2>4, <2>5 DEF RunSound, Alive
  <2> QED
    BY <1>1, <1>2, <1>4, <2>2, <2>4, <2>6, RunKeeps DEF Running
<1> QED
    BY <1>3, <1>4 DEF Poll


LEMMA BeginsWhole ==
    ASSUME NEW S, NEW s \in Seq(S), NEW t \in Seq(S)
    PROVE  Begins(s, s \o t)
BY ConcatProperties, LenProperties DEF Begins

LEMMA OneMore ==
    ASSUME NEW S, NEW s \in Seq(S), NEW t \in Seq(S), t # <<>>
    PROVE  /\ Append(s, Head(t)) \in Seq(S) /\ Tail(t) \in Seq(S)
           /\ Append(s, Head(t)) \o Tail(t) = s \o t
           /\ Len(Append(s, Head(t))) = Len(s) + 1 /\ Len(s) \in Nat
           /\ Begins(Append(s, Head(t)), s \o t)
           /\ Len(t) # 1 => Tail(t) # <<>>
<1>1. /\ Append(s, Head(t)) \in Seq(S) /\ Tail(t) \in Seq(S) /\ Head(t) \in S
      /\ Append(s, Head(t)) \o Tail(t) = s \o t
    BY MoveHead
<1>2. Len(Append(s, Head(t))) = Len(s) + 1 /\ Len(s) \in Nat
    BY <1>1, AppendProperties, LenProperties
<1>3. Begins(Append(s, Head(t)), Append(s, Head(t)) \o Tail(t))
    BY <1>1, BeginsWhole
<1>4. Len(t) # 1 => Tail(t) # <<>>
  <2>1. Len(t) \in Nat /\ Len(t) # 0 /\ Len(Tail(t)) = Len(t) - 1
    BY HeadTailProperties, LenProperties, EmptySeq
  <2>2. Tail(t) = <<>> => Len(Tail(t)) = 0
    BY <1>1, EmptySeq
  <2> QED
    BY <2>1, <2>2
<1> QED
    BY <1>1, <1>2, <1>3, <1>4

\* A unit is sent to a client that is there.
SendUnit ==
    /\ daemon.pc = "reply"
    /\ sock' = [sock EXCEPT ![daemon.client].data = Append(@, Head(daemon.reply)),
                            ![daemon.client].ended = Len(daemon.reply) = 1]
    /\ daemon' = IF Len(daemon.reply) = 1 THEN Idle ELSE [daemon EXCEPT !.reply = Tail(@)]
    /\ UNCHANGED <<child, pipe, backlog>>

LEMMA SendUnitKeeps ==
    ASSUME HostInv, UNCHANGED client, SendUnit
    PROVE  HostInv'
<1>0. daemon.pc = "reply" /\ UNCHANGED <<child, pipe, backlog, client>>
    BY DEF SendUnit
<1>c. PICK c \in Client : c = daemon.client
    BY <1>0 DEF HostInv, ConnectionsSound, Serving
<1> DEFINE left == daemon.reply
           data == sock[c].data
           more == Append(data, Head(left))
           code == sock[c].code
<1>1. /\ HostTyped /\ NoRun /\ sock[c] \in Request /\ ~sock[c].ended
      /\ left # <<>> /\ data \o left \in Replies(code) /\ code \in Code
      /\ daemon \in DaemonState
    BY <1>0, <1>c DEF HostInv, HostTyped, ChildSound, ConnectionsSound, ReplySound, Serving, Running, Request
<1>2. /\ left \in Seq(Word) /\ data \in Seq(Word)
    BY <1>1 DEF DaemonState, Request
<1>3. /\ more \in Seq(Word) /\ Tail(left) \in Seq(Word) /\ more \o Tail(left) = data \o left
      /\ Len(more) = Len(data) + 1 /\ Len(data) \in Nat
      /\ Begins(more, data \o left)
      /\ Len(left) # 1 => Tail(left) # <<>>
  <2> HIDE DEF left, data
  <2> QED
    BY <1>1, <1>2, OneMore
<1>6. /\ sock'[c] \in Request /\ sock'[c].data = more /\ sock'[c].code = code
      /\ sock'[c].ended <=> Len(left) = 1
  <2>1. sock'[c] = [sock[c] EXCEPT !.data = more, !.ended = Len(left) = 1]
    BY <1>c, <1>1 DEF HostTyped, SendUnit
  <2> HIDE DEF more, left
  <2> QED
    BY <1>1, <1>3, <2>1 DEF Request
<1>7. \A d \in Client : d # c => sock'[d] = sock[d]
    BY <1>c, <1>1 DEF HostTyped, SendUnit
<1>8. sock' \in [Client -> Blank \cup Request]
    BY <1>1, <1>6, <1>7 DEF HostTyped, SendUnit
<1> HIDE DEF more, data, code, left
<1>9. \A d \in Client : d # c => DataOf(d)' /\ CallSound(d)'
  <2>1. \A d \in Client : DataOf(d) /\ CallSound(d)
    BY DEF HostInv, DataSound, CallsSound
  <2>2. \A d \in Client : d # c => SameData(d) /\ (sock[d].ended => sock'[d].ended)
    BY <1>7 DEF SameData
  <2>3. UNCHANGED client
    BY <1>0
  <2> QED
    BY <2>1, <2>2, <2>3, DataStays
<1>10. DataSound' /\ CallsSound'
  <2>1. Begins(sock'[c].data, data \o left) /\ data \o left \in Replies(sock'[c].code)
    BY <1>1, <1>3, <1>6
  <2>2. DataOf(c)'
    BY <1>6, <2>1 DEF DataOf
  <2>3. CallSound(c)'
    <3>1. client[c].got \in 0 .. Len(data) /\ client[c].pc \in {"receive", "off"}
      BY <1>1 DEF HostInv, CallsSound, CallSound, data
    <3>2. client[c].pc = "receive" => code = JobOf(c).task
      BY <1>1 DEF HostInv, CallsSound, CallSound, code
    <3>3. client[c].got \in 0 .. Len(more)
      BY <1>3, <3>1
    <3> QED
      BY <1>0, <1>6, <3>1, <3>2, <3>3 DEF CallSound, At, JobOf
  <2> QED
    BY <1>9, <2>2, <2>3 DEF DataSound, CallsSound
<1>11. \A d \in Client : Queued(d)' <=> Queued(d)
    BY <1>0 DEF Queued
<1>12. /\ \A d \in Client : Queued(d) => d # c /\ Unserved(d)'
       /\ \A d \in Client : ~sock[d].ended => Queued(d) \/ d = c
       /\ \A i, j \in 1 .. Len(backlog') : backlog'[i] = backlog'[j] => i = j
    BY <1>0, <1>c, <1>7 DEF HostInv, ConnectionsSound, Unserved
<1>13. CASE Len(left) = 1
  <2>1. daemon' = Idle
    BY <1>13 DEF left, SendUnit
  <2>2. /\ daemon' \in DaemonState /\ daemon'.pc = "accept" /\ daemon'.client = NoClient
        /\ daemon'.out = <<>> /\ daemon'.err = <<>>
    BY <2>1, EmptySeq DEF Idle, DaemonState, DaemonPcs
  <2>3. HostTyped'
    BY <1>0, <1>1, <1>8, <2>2 DEF HostTyped
  <2>4. ChildSound' /\ ReplySound'
    BY <1>0, <1>1, <2>2 DEF ChildSound, NoRun, Running, ReplySound
  <2>5. ~Serving' /\ NoClient \notin Client
    BY <2>2, DaemonAssumption DEF Serving, Running
  <2>6. \A d \in Client : ~sock'[d].ended => Queued(d)
    BY <1>6, <1>7, <1>12, <1>13
  <2>7. ConnectionsSound'
    BY <1>11, <1>12, <2>2, <2>5, <2>6 DEF ConnectionsSound
  <2> QED
    BY <1>10, <2>3, <2>4, <2>7 DEF HostInv
<1>14. CASE Len(left) # 1
  <2>1. daemon' = [daemon EXCEPT !.reply = Tail(left)]
    BY <1>14 DEF left, SendUnit
  <2>2. /\ daemon' \in DaemonState /\ daemon'.pc = "reply" /\ daemon'.client = c
        /\ daemon'.out = <<>> /\ daemon'.err = <<>> /\ daemon'.reply = Tail(left)
    BY <1>0, <1>c, <1>1, <1>3, <2>1 DEF DaemonState, NoRun
  <2>3. HostTyped'
    BY <1>0, <1>1, <1>8, <2>2 DEF HostTyped
  <2>4. ChildSound'
    BY <1>0, <1>1, <2>2 DEF ChildSound, NoRun, Running
  <2>5. ReplySound'
    <3>1. daemon'.reply # <<>> /\ sock'[daemon'.client].code = code
      BY <1>3, <1>6, <1>14, <2>2
    <3>2. sock'[daemon'.client].data \o daemon'.reply = data \o left
      BY <1>3, <1>6, <2>2
    <3> QED
      BY <1>1, <3>1, <3>2 DEF ReplySound
  <2>6. Serving'
    BY <2>2 DEF Serving
  <2>7. ConnectionsSound'
    BY <1>1, <1>6, <1>7, <1>11, <1>12, <1>14, <2>2, <2>6 DEF ConnectionsSound
  <2> QED
    BY <1>10, <2>3, <2>4, <2>5, <2>7 DEF HostInv
<1> QED
    BY <1>13, <1>14

\* The daemon's steps, and the faults of the host.
LEMMA DaemonKeeps ==
    ASSUME HostInv, UNCHANGED client, DaemonStep \/ ChildStep \/ Fault
    PROVE  HostInv'
<1>1. ASSUME NEW code \in Code, Receive(code)
      PROVE  HostInv'
  <2>1. CASE Close(daemon.client) /\ UNCHANGED child
    BY <1>1, <2>1, CloseKeeps DEF Receive
  <2>2. ASSUME NEW run \in Runs[code], child' = Started(run), UNCHANGED sock,
               daemon' = [daemon EXCEPT !.pc = "select", !.outOpen = TRUE, !.errOpen = TRUE]
        PROVE  HostInv'
    BY <1>1, <2>2, StartKeeps DEF Receive
  <2> QED
    BY <1>1, <2>1, <2>2 DEF Receive
<1>2. CASE Send
  <2>1. CASE GoDown("stopped")
    BY <2>1, GoDownKeeps
  <2>2. CASE ~GoDown("stopped")
    BY <1>2, <2>2, SendUnitKeeps DEF Send, SendUnit
  <2> QED
    BY <2>1, <2>2
<1>3. CASE Stop \/ Crash
    BY <1>3, GoDownKeeps DEF Stop, Crash
<1>4. CASE Accept
    BY <1>4, AcceptKeeps
<1>5. CASE Select
    BY <1>5, SelectKeeps
<1>6. CASE Poll
    BY <1>6, PollKeeps
<1>7. CASE Wait
    BY <1>7, WaitKeeps
<1>8. CASE Restart
    BY <1>8, RestartKeeps
<1>9. CASE RunFails
    BY <1>9, RunFailsKeeps
<1>10. CASE (ScriptStep \/ ScriptFault) /\ UNCHANGED <<daemon, backlog, sock>>
    BY <1>10, ScriptKeepsHost
<1> QED
    BY <1>1, <1>2, <1>3, <1>4, <1>5, <1>6, <1>7, <1>8, <1>9, <1>10
       DEF DaemonStep, ChildStep, Fault


-----------------------------------------------------------------------------
(* The clients' steps.                                                     *)

\* All that the header announces is all there is.
LEMMA CompleteIsWhole ==
    ASSUME NEW code \in Code, NEW reply \in Replies(code), NEW data \in Seq(Word), Begins(data, reply),
           NEW n \in 1 .. Len(data), Complete(SubSeq(data, 1, n))
    PROVE  n = Len(data) /\ data = reply
<1> DEFINE part == SubSeq(data, 1, n)
<1>1. n \in Nat /\ n >= 1 /\ n <= Len(data) /\ Len(data) \in Nat
    BY LenProperties
<1>2. \A i \in 1 .. n : data[i] \in Word
    BY <1>1, ElementOfSeq
<1>3. Len(part) = n /\ \A i \in 1 .. n : part[i] = data[i]
  <2>1. /\ 1 \in Int /\ n \in Int
    BY <1>1
  <2>2. /\ Len(part) = IF 1 <= n THEN n - 1 + 1 ELSE 0
        /\ \A i \in 1 .. n - 1 + 1 : part[i] = data[1 + i - 1]
    BY <1>2, <2>1, SubSeqProperties
  <2>3. Len(part) = n /\ n - 1 + 1 = n
    BY <1>1, <2>2
  <2>4. ASSUME NEW i \in 1 .. n
        PROVE  part[i] = data[i]
    <3>1. 1 + i - 1 = i
      OBVIOUS
    <3> QED
      BY <2>2, <2>3, <3>1
  <2> QED
    BY <2>3, <2>4
<1> HIDE DEF part
<1>4. n >= 4 /\ n >= 4 + part[2] + part[3] + part[4]
    BY <1>3 DEF Complete, part
<1>5. \A i \in 1 .. n : part[i] = reply[i]
    BY <1>1, <1>3 DEF Begins
<1>6. n >= 4 + reply[2] + reply[3] + reply[4]
    BY <1>1, <1>4, <1>5
<1>7. Len(reply) \in Nat /\ Len(reply) = 4 + reply[2] + reply[3] + reply[4] /\ reply \in Seq(Word)
    BY RepliesTyped
<1>8. Len(data) <= Len(reply) /\ \A i \in 1 .. Len(data) : data[i] = reply[i]
    BY DEF Begins
<1>9. n = Len(data) /\ Len(data) = Len(reply)
    BY <1>1, <1>6, <1>7, <1>8
<1> QED
    BY <1>7, <1>8, <1>9, SeqEqual

\* What CallSound asks of the client's next state, if the connection stays.
CallFits(c) ==
    /\ client'[c].got \in 0 .. Len(sock[c].data)
    /\ client'[c].pc \notin {"receive", "off"} => sock[c].ended
    /\ client'[c].pc \in {"receive", "submit"} =>
          sock[c] \in Request /\ sock[c].code = client'[c].job.task
    /\ client'[c].pc = "submit" => sock[c].data \in Replies(sock[c].code)

\* A client goes on, and may close its end of the connection.
LEMMA ClientKeeps ==
    ASSUME HostInv, NEW c \in Client, UNCHANGED <<daemon, child, pipe, backlog>>,
           UNCHANGED sock \/ sock' = [sock EXCEPT ![c].open = FALSE],
           \A d \in Client : d # c => client'[d] = client[d],
           CallFits(c)
    PROVE  HostInv'
<1>1. HostTyped
    BY DEF HostInv
<1>2. /\ sock' \in [Client -> Blank \cup Request]
      /\ \A d \in Client : SameData(d) /\ sock'[d].ended = sock[d].ended
  <2>1. CASE UNCHANGED sock
    BY <1>1, <2>1 DEF HostTyped, SameData
  <2>2. CASE sock' = [sock EXCEPT ![c].open = FALSE]
    BY <1>1, <2>2, CloseTyped
  <2> QED
    BY <2>1, <2>2
<1>3. HostTyped'
    BY <1>1, <1>2 DEF HostTyped
<1>4. \A d \in Client : (Unserved(d)' <=> Unserved(d)) /\ (Queued(d)' <=> Queued(d))
    BY <1>2 DEF Unserved, Queued, SameData
<1>5. ConnectionsSound'
  <2>1. Serving => daemon.client \in Client
    BY DEF HostInv, ConnectionsSound
  <2>2. Serving' <=> Serving
    BY DEF Serving, Running
  <2>3. /\ \A d \in Client : Queued(d)' => Unserved(d)' /\ d # daemon'.client
        /\ \A d \in Client : ~sock'[d].ended => Queued(d)' \/ daemon'.client = d
        /\ \A i, j \in 1 .. Len(backlog') : backlog'[i] = backlog'[j] => i = j
    BY <1>2, <1>4 DEF HostInv, ConnectionsSound
  <2>4. Serving => /\ sock'[daemon.client] \in Request /\ ~sock'[daemon.client].ended
                   /\ daemon.pc # "reply" => Unserved(daemon.client)
    BY <1>2, <2>1 DEF HostInv, ConnectionsSound, SameData
  <2>5. Serving /\ daemon.pc # "reply" => Unserved(daemon.client)'
    BY <1>2, <2>1, <2>4 DEF Unserved, SameData
  <2>6. ~Serving => daemon'.client = NoClient
    BY DEF HostInv, ConnectionsSound
  <2> QED
    BY <2>1, <2>2, <2>3, <2>4, <2>5, <2>6 DEF ConnectionsSound
<1>6. ReplySound'
  <2>1. CASE daemon.pc = "reply"
    <3>1. daemon.client \in Client /\ sock[daemon.client] \in Request
      BY <2>1 DEF HostInv, ConnectionsSound, Serving
    <3>2. /\ sock'[daemon'.client].data = sock[daemon.client].data
          /\ sock'[daemon'.client].code = sock[daemon.client].code
      BY <1>2, <3>1 DEF SameData
    <3>3. /\ daemon.reply # <<>>
          /\ sock[daemon.client].data \o daemon.reply \in Replies(sock[daemon.client].code)
      BY <2>1 DEF HostInv, ReplySound
    <3> QED
      BY <3>2, <3>3 DEF ReplySound
  <2>2. CASE daemon.pc # "reply"
    BY <2>2 DEF ReplySound
  <2> QED
    BY <2>1, <2>2
<1>7. DataSound'
  <2>1. ASSUME NEW d \in Client
        PROVE  DataOf(d)'
    <3>1. DataOf(d) /\ SameData(d)
      BY <1>2 DEF HostInv, DataSound
    <3> QED
      BY <3>1 DEF DataOf, SameData, Replies
  <2> QED
    BY <2>1 DEF DataSound
<1>8. CallsSound'
  <2>1. CallSound(c)'
    <3>1. SameData(c) /\ sock'[c].ended = sock[c].ended
      BY <1>2
    <3> QED
      BY <3>1 DEF CallFits, CallSound, SameData, At, JobOf, Replies
  <2>2. ASSUME NEW d \in Client, d # c
        PROVE  CallSound(d)'
    <3>1. CallSound(d) /\ SameData(d) /\ sock'[d].ended = sock[d].ended /\ client'[d] = client[d]
      BY <1>2, <2>2 DEF HostInv, CallsSound
    <3> QED
      BY <3>1 DEF CallSound, SameData, At, JobOf, Replies
  <2> QED
    BY <2>1, <2>2 DEF CallsSound
<1>9. ChildSound'
  <2>1. CASE Running
    <3>1. daemon.client \in Client /\ sock[daemon.client] \in Request /\ RunSound
      BY <2>1 DEF HostInv, ConnectionsSound, ChildSound, Serving
    <3>2. sock'[daemon'.client].code = sock[daemon.client].code
      BY <1>2, <3>1 DEF SameData
    <3>3. RunSound' /\ Running'
      BY <2>1, <3>1, <3>2 DEF RunSound, Running, Alive, AllOut, AllErr
    <3> QED
      BY <3>3 DEF ChildSound
  <2>2. CASE ~Running
    BY <2>2 DEF HostInv, ChildSound, NoRun, Running
  <2> QED
    BY <2>1, <2>2
<1> QED
    BY <1>3, <1>5, <1>6, <1>7, <1>8, <1>9 DEF HostInv


\* The client asks for a run.
LEMMA ConnectKeeps ==
    ASSUME WorkInv, HostInv, NEW c \in Client, Connect(c), ~Down
    PROVE  HostInv'
<1> DEFINE asked == [open |-> TRUE, ended |-> FALSE, code |-> JobOf(c).task, data |-> <<>>]
<1>1. /\ client[c].pc = "connect" /\ backlog' = Append(backlog, c)
      /\ sock' = [sock EXCEPT ![c] = asked]
      /\ client' = [client EXCEPT ![c].pc = "receive", ![c].got = 0]
      /\ UNCHANGED <<daemon, child, pipe>>
    BY DEF Connect, At
<1>2. JobOf(c).task \in Code
    BY <1>1 DEF WorkInv, InHandIsDue, Busy, Job, Task
<1>3. asked \in Request /\ asked.data = <<>> /\ ~asked.ended /\ asked.code = JobOf(c).task
    BY <1>2, EmptySeq DEF Request
<1>4. HostTyped /\ backlog \in Seq(Client) /\ sock[c].ended
    BY <1>1 DEF HostInv, HostTyped, CallsSound, CallSound
<1> HIDE DEF asked
<1>5. /\ sock'[c] = asked /\ \A d \in Client : d # c => sock'[d] = sock[d] /\ client'[d] = client[d]
      /\ sock' \in [Client -> Blank \cup Request]
      /\ client'[c].pc = "receive" /\ client'[c].got = 0 /\ client'[c].job = client[c].job
    BY <1>1, <1>3, <1>4 DEF HostTyped, WorkInv, ClientsTyped
<1>6. /\ backlog' \in Seq(Client) /\ Len(backlog') = Len(backlog) + 1 /\ Len(backlog) \in Nat
      /\ \A i \in 1 .. Len(backlog) : backlog'[i] = backlog[i]
      /\ backlog'[Len(backlog) + 1] = c
    BY <1>1, <1>4, AppendProperties, LenProperties
<1>7. HostTyped'
    BY <1>1, <1>4, <1>5, <1>6 DEF HostTyped
<1>8. ~Queued(c) /\ c # daemon.client
    BY <1>4, DaemonAssumption DEF HostInv, ConnectionsSound, Unserved
<1>9. \A d \in Client : Queued(d)' <=> Queued(d) \/ d = c
  <2>1. \A i \in 1 .. Len(backlog') : i \in 1 .. Len(backlog) \/ i = Len(backlog) + 1
    BY <1>6
  <2>2. Len(backlog) + 1 \in 1 .. Len(backlog') /\ \A i \in 1 .. Len(backlog) : i \in 1 .. Len(backlog')
    BY <1>6
  <2> QED
    BY <1>6, <2>1, <2>2 DEF Queued
<1>10. ConnectionsSound'
  <2>1. \A i, j \in 1 .. Len(backlog') : backlog'[i] = backlog'[j] => i = j
    <3>1. \A i \in 1 .. Len(backlog') : i \in 1 .. Len(backlog) \/ i = Len(backlog) + 1
      BY <1>6
    <3>2. \A i \in 1 .. Len(backlog) : backlog[i] # c
      BY <1>8 DEF Queued
    <3>3. \A i, j \in 1 .. Len(backlog) : backlog[i] = backlog[j] => i = j
      BY DEF HostInv, ConnectionsSound
    <3> QED
      BY <1>6, <3>1, <3>2, <3>3
  <2>2. \A d \in Client : d # c => (Unserved(d)' <=> Unserved(d))
    BY <1>5 DEF Unserved
  <2>3. Unserved(c)'
    BY <1>3, <1>5 DEF Unserved
  <2>4. \A d \in Client : Queued(d)' => Unserved(d)' /\ d # daemon'.client
    BY <1>1, <1>8, <1>9, <2>2, <2>3 DEF HostInv, ConnectionsSound
  <2>5. \A d \in Client : ~sock'[d].ended => Queued(d)' \/ daemon'.client = d
    BY <1>1, <1>5, <1>9 DEF HostInv, ConnectionsSound
  <2>6. Serving' <=> Serving
    BY <1>1 DEF Serving, Running
  <2>7. CASE Serving
    <3>1. /\ daemon.client \in Client /\ daemon'.client = daemon.client
          /\ sock'[daemon.client] = sock[daemon.client]
          /\ sock[daemon.client] \in Request /\ ~sock[daemon.client].ended
      BY <1>1, <1>5, <1>8, <2>7 DEF HostInv, ConnectionsSound
    <3>2. daemon.pc # "reply" => Unserved(daemon.client)'
      BY <1>1, <2>7, <3>1 DEF HostInv, ConnectionsSound, Unserved
    <3> QED
      BY <1>1, <2>1, <2>4, <2>5, <2>6, <2>7, <3>1, <3>2 DEF ConnectionsSound
  <2>8. CASE ~Serving
    BY <1>1, <2>1, <2>4, <2>5, <2>6, <2>8 DEF HostInv, ConnectionsSound
  <2> QED
    BY <2>7, <2>8
<1>11. DataSound'
  <2>1. DataOf(c)'
    <3>1. [stdout |-> <<>>, stderr |-> <<>>, zip |-> <<>>] \in Returnable[JobOf(c).task]
      BY <1>2, ReturnableTyped
    <3>2. Begins(<<>>, Reply(0, <<>>, <<>>, <<>>))
      <4>1. <<>> \in Seq(Output) /\ 0 \in Word /\ Len(<<>>) = 0
        BY EmptySeq DEF Word
      <4>2. /\ Reply(0, <<>>, <<>>, <<>>) \in Seq(Word)
        BY <4>1, ReplyHeader
      <4> QED
        BY <4>1, <4>2, LenProperties DEF Begins
    <3>3. sock'[c] \in Request /\ sock'[c].data = <<>> /\ sock'[c].code = JobOf(c).task
      BY <1>3, <1>5
    <3> QED
      BY <3>1, <3>2, <3>3 DEF DataOf, Replies
  <2>2. ASSUME NEW d \in Client, d # c
        PROVE  DataOf(d)'
    <3>1. DataOf(d) /\ sock'[d] = sock[d]
      BY <1>5, <2>2 DEF HostInv, DataSound
    <3> QED
      BY <3>1 DEF DataOf, Replies
  <2> QED
    BY <2>1, <2>2 DEF DataSound
<1>12. CallsSound'
  <2>1. CallSound(c)'
    <3>1. Len(sock'[c].data) = 0
      BY <1>3, <1>5, EmptySeq
    <3> QED
      BY <1>3, <1>5, <3>1 DEF CallSound, At, JobOf
  <2>2. ASSUME NEW d \in Client, d # c
        PROVE  CallSound(d)'
    <3>1. CallSound(d) /\ sock'[d] = sock[d] /\ client'[d] = client[d]
      BY <1>5, <2>2 DEF HostInv, CallsSound
    <3> QED
      BY <3>1 DEF CallSound, At, JobOf, Replies
  <2> QED
    BY <2>1, <2>2 DEF CallsSound
<1>13. ReplySound'
  <2>1. CASE daemon.pc = "reply"
    <3>1. daemon.client \in Client
      BY <2>1 DEF HostInv, ConnectionsSound, Serving
    <3>2. daemon' = daemon /\ sock'[daemon.client] = sock[daemon.client]
      BY <1>1, <1>5, <1>8, <3>1
    <3>3. /\ daemon.reply # <<>>
          /\ sock[daemon.client].data \o daemon.reply \in Replies(sock[daemon.client].code)
      BY <2>1 DEF HostInv, ReplySound
    <3> QED
      BY <3>2, <3>3 DEF ReplySound
  <2>2. CASE daemon.pc # "reply"
    BY <1>1, <2>2 DEF ReplySound
  <2> QED
    BY <2>1, <2>2
<1>14. ChildSound'
  <2>1. CASE Running
    <3>1. daemon.client \in Client /\ RunSound
      BY <2>1 DEF HostInv, ConnectionsSound, ChildSound, Serving
    <3>2. sock'[daemon.client] = sock[daemon.client]
      BY <1>5, <1>8, <3>1
    <3>3. RunSound' /\ Running'
      BY <1>1, <2>1, <3>1, <3>2 DEF RunSound, Running, Alive, AllOut, AllErr
    <3> QED
      BY <3>3 DEF ChildSound
  <2>2. CASE ~Running
    BY <1>1, <2>2 DEF HostInv, ChildSound, NoRun, Running
  <2> QED
    BY <2>1, <2>2
<1> QED
    BY <1>7, <1>10, <1>11, <1>12, <1>13, <1>14 DEF HostInv


\* A client that finds its reply complete has all of it, from a connection that is ended.
LEMMA CompleteIsLast ==
    ASSUME HostInv, NEW c \in Client, At(c, "receive"),
           NEW n \in client[c].got + 1 .. Len(sock[c].data), Complete(SubSeq(sock[c].data, 1, n))
    PROVE  n = Len(sock[c].data) /\ sock[c].data \in Replies(sock[c].code) /\ sock[c].ended
<1> DEFINE data == sock[c].data
           code == sock[c].code
<1>1. CallSound(c) /\ DataOf(c)
    BY DEF HostInv, CallsSound, DataSound
<1>2. sock[c] \in Request /\ data \in Seq(Word) /\ code \in Code /\ client[c].got \in Nat
    BY <1>1 DEF CallSound, At, Request
<1>3. PICK reply \in Replies(code) : Begins(data, reply)
    BY <1>1, <1>2 DEF DataOf
<1>4. n \in 1 .. Len(data) /\ Complete(SubSeq(data, 1, n)) /\ Len(data) \in Nat
    BY <1>2, LenProperties
<1> HIDE DEF data, code
<1>5. n = Len(data) /\ data = reply
    BY <1>2, <1>3, <1>4, CompleteIsWhole
<1>6. ASSUME ~sock[c].ended
      PROVE  FALSE
  <2>1. data # <<>>
    BY <1>2, <1>4, EmptySeq
  <2>2. ~Queued(c) /\ daemon.client = c
    BY <1>6, <2>1 DEF HostInv, ConnectionsSound, Unserved, data
  <2>3. Serving /\ daemon.pc = "reply"
    BY <2>1, <2>2, DaemonAssumption DEF HostInv, ConnectionsSound, Unserved, data
  <2>4. daemon.reply # <<>> /\ data \o daemon.reply \in Replies(code) /\ daemon.reply \in Seq(Word)
    BY <2>2, <2>3 DEF HostInv, HostTyped, DaemonState, ReplySound, data, code
  <2>5. Begins(data, data \o daemon.reply)
    BY <1>2, <2>4, BeginsWhole
  <2>6. data = data \o daemon.reply
    BY <1>2, <1>4, <2>4, <2>5, CompleteIsWhole
  <2>7. Len(data \o daemon.reply) = Len(data) + Len(daemon.reply) /\ Len(daemon.reply) \in Nat
    BY <1>2, <2>4, ConcatProperties, LenProperties
  <2>8. Len(daemon.reply) = 0
    BY <1>4, <2>6, <2>7
  <2> QED
    BY <2>4, <2>8, EmptySeq
<1> QED
    BY <1>3, <1>5, <1>6 DEF data, code

LEMMA DataKeepsHost ==
    ASSUME WorkInv, HostInv, NEW c \in Client, Data(c)
    PROVE  HostInv'
<1>1. /\ client[c].pc = "receive" /\ UNCHANGED <<daemon, child, pipe, backlog>>
      /\ CallSound(c) /\ HostTyped
    BY DEF Data, At, HostInv, CallsSound
<1>2. PICK n \in client[c].got + 1 .. Len(sock[c].data) :
         IF Complete(SubSeq(sock[c].data, 1, n))
         THEN /\ client' = [client EXCEPT ![c].got = n, ![c].pc = "submit"]
              /\ sock' = [sock EXCEPT ![c].open = FALSE]
         ELSE /\ client' = [client EXCEPT ![c].got = n]
              /\ UNCHANGED sock
    BY DEF Data
<1>3. n \in 0 .. Len(sock[c].data)
    BY <1>1 DEF CallSound
<1>4. CASE Complete(SubSeq(sock[c].data, 1, n))
  <2>1. sock[c].data \in Replies(sock[c].code) /\ sock[c].ended
    BY <1>4, CompleteIsLast DEF Data
  <2>2. /\ client'[c].pc = "submit" /\ client'[c].got = n /\ client'[c].job = client[c].job
        /\ \A d \in Client : d # c => client'[d] = client[d]
    BY <1>2, <1>4 DEF WorkInv, ClientsTyped
  <2>3. CallFits(c)
    BY <1>1, <1>3, <2>1, <2>2 DEF CallFits, CallSound, JobOf
  <2> QED
    BY <1>1, <1>2, <1>4, <2>2, <2>3, ClientKeeps
<1>5. CASE ~Complete(SubSeq(sock[c].data, 1, n))
  <2>2. /\ client'[c].pc = "receive" /\ client'[c].got = n /\ client'[c].job = client[c].job
        /\ \A d \in Client : d # c => client'[d] = client[d]
    BY <1>1, <1>2, <1>5 DEF WorkInv, ClientsTyped
  <2>3. CallFits(c)
    BY <1>1, <1>3, <2>2 DEF CallFits, CallSound, JobOf
  <2> QED
    BY <1>1, <1>2, <1>5, <2>2, <2>3, ClientKeeps
<1> QED
    BY <1>4, <1>5

\* A client that stops waiting for a reply, because the connection is ended or it is.
LEMMA LeaveKeeps ==
    ASSUME WorkInv, HostInv, NEW c \in Client, UNCHANGED <<daemon, child, pipe, backlog>>,
           UNCHANGED sock \/ sock' = [sock EXCEPT ![c].open = FALSE],
           \A d \in Client : d # c => client'[d] = client[d],
           client'[c].got \in {client[c].got, 0},
           client'[c].pc \notin {"receive", "submit"},
           client'[c].pc # "off" => sock[c].ended
    PROVE  HostInv'
<1>1. client[c].got \in 0 .. Len(sock[c].data)
    BY DEF HostInv, CallsSound, CallSound
<1>2. CallFits(c)
    BY <1>1 DEF CallFits
<1> QED
    BY <1>2, ClientKeeps

\* A socket whose data is dropped is a socket of the same kind.
LEMMA Dropped ==
    ASSUME NEW old \in Blank \cup Request, NEW new, new = [old EXCEPT !.data = <<>>]
    PROVE  /\ new \in Blank \cup Request /\ new.data = <<>> /\ new.ended = old.ended
           /\ new \in Request => old \in Request /\ new.code = old.code
<1>1. <<>> \in Seq(Word)
    BY EmptySeq
<1>2. CASE old \in Blank
  <2>1. new \in Blank /\ new.data = <<>> /\ new.ended = old.ended
    BY <1>1, <1>2 DEF Blank
  <2>2. new \notin Request
    BY <2>1, KindsDiffer
  <2> QED
    BY <2>1, <2>2
<1>3. CASE old \in Request
    BY <1>1, <1>3 DEF Request
<1> QED
    BY <1>2, <1>3

\* The reply a client has done with is dropped: its connection has ended, so nobody
\* waits for it or is served on it.
LEMMA DropKeeps ==
    ASSUME HostInv, NEW c \in Client, UNCHANGED <<daemon, child, pipe, backlog>>,
           sock' = [sock EXCEPT ![c].data = <<>>], sock[c].ended,
           \A d \in Client : d # c => client'[d] = client[d],
           client'[c].got = 0, client'[c].pc \in {"poll", "connect"}
    PROVE  HostInv'
<1>1. HostTyped /\ <<>> \in Seq(Word) /\ sock[c] \in Blank \cup Request
    BY EmptySeq DEF HostInv, HostTyped
<1>2. /\ sock'[c].data = <<>> /\ sock'[c].ended = sock[c].ended /\ sock'[c] \in Blank \cup Request
      /\ sock'[c] \in Request => sock[c] \in Request /\ sock'[c].code = sock[c].code
      /\ \A d \in Client : d # c => sock'[d] = sock[d]
  <2>1. sock'[c] = [sock[c] EXCEPT !.data = <<>>] /\ \A d \in Client : d # c => sock'[d] = sock[d]
    BY <1>1 DEF HostTyped
  <2> QED
    BY <1>1, <2>1, Dropped
<1>3. HostTyped'
    BY <1>1, <1>2 DEF HostTyped
<1>4. ~Queued(c) /\ (Serving => daemon.client \in Client /\ daemon.client # c)
    BY DEF HostInv, ConnectionsSound, Unserved
<1>5. \A d \in Client : d # c => (Unserved(d)' <=> Unserved(d))
    BY <1>2 DEF Unserved
<1>6. ConnectionsSound'
    BY <1>2, <1>4, <1>5 DEF HostInv, ConnectionsSound, Queued, Serving, Running
<1>7. ChildSound'
    BY <1>2, <1>4 DEF HostInv, ChildSound, NoRun, RunSound, Running, Serving, Alive, AllOut, AllErr
<1>8. ReplySound'
  <2>1. CASE daemon.pc = "reply"
    <3>1. sock'[daemon'.client] = sock[daemon.client]
      BY <1>2, <1>4, <2>1 DEF Serving
    <3>2. /\ daemon.reply # <<>>
          /\ sock[daemon.client].data \o daemon.reply \in Replies(sock[daemon.client].code)
      BY <2>1 DEF HostInv, ReplySound
    <3> QED
      BY <3>1, <3>2 DEF ReplySound
  <2>2. CASE daemon.pc # "reply"
    BY <2>2 DEF ReplySound
  <2> QED
    BY <2>1, <2>2
<1>9. DataSound'
  <2>1. ASSUME NEW d \in Client, d # c
        PROVE  DataOf(d)'
    BY <1>2, <2>1 DEF HostInv, DataSound, DataOf, Replies
  <2>2. DataOf(c)'
    <3>1. CASE sock'[c] \in Request
      <4>1. PICK reply \in Replies(sock[c].code) : Begins(sock[c].data, reply)
        BY <1>2, <3>1 DEF HostInv, DataSound, DataOf
      <4>2. Len(sock'[c].data) = 0 /\ Len(sock[c].data) \in Nat
        BY <1>1, <1>2, LenProperties DEF Blank, Request
      <4>3. sock[c].code \in Code
        BY <1>2, <3>1 DEF Request
      <4>4. Len(reply) \in Nat
        BY <4>1, <4>3, RepliesTyped, LenProperties
      <4>5. Begins(sock'[c].data, reply)
        BY <4>2, <4>4 DEF Begins
      <4> QED
        BY <1>2, <3>1, <4>1, <4>5 DEF DataOf, Replies
    <3>2. CASE sock'[c] \notin Request
      BY <1>2, <3>2 DEF DataOf
    <3> QED
      BY <3>1, <3>2
  <2> QED
    BY <2>1, <2>2 DEF DataSound
<1>10. CallsSound'
  <2>1. Len(sock'[c].data) = 0
    BY <1>2
  <2>2. CallSound(c)'
    BY <1>2, <2>1 DEF CallSound, At
  <2>3. ASSUME NEW d \in Client, d # c
        PROVE  CallSound(d)'
    BY <1>2, <2>3 DEF HostInv, CallsSound, CallSound, At, JobOf, Replies
  <2> QED
    BY <2>2, <2>3 DEF CallsSound
<1> QED
    BY <1>3, <1>6, <1>7, <1>8, <1>9, <1>10 DEF HostInv

LEMMA WorkKeepsHost ==
    ASSUME WorkInv, HostInv, NEW c \in Client, Work(c) \/ RequestFails(c) \/ Shutdown(c)
    PROVE  HostInv'
<1>0. CallSound(c)
    BY DEF HostInv, CallsSound
<1>1. ASSUME NEW mode, NEW jobs, Listed(c, mode, jobs)
      PROVE  HostInv'
  <2>1. /\ UNCHANGED <<daemon, child, pipe, backlog, sock>> /\ sock[c].ended
        /\ \A d \in Client : d # c => client'[d] = client[d]
        /\ client'[c].got = client[c].got /\ client'[c].pc \in {"next", "poll"}
    BY <1>0, <1>1 DEF Listed, daemonVars, sandboxVars, At, CallSound, WorkInv, ClientsTyped
  <2> QED
    BY <2>1, LeaveKeeps
<1>2. CASE Turn(c)
  <2>1. /\ UNCHANGED <<daemon, child, pipe, backlog>> /\ sock[c].ended
        /\ sock' = [sock EXCEPT ![c].data = <<>>]
    BY <1>0, <1>2 DEF Turn, At, CallSound
  <2>2. /\ \A d \in Client : d # c => client'[d] = client[d]
        /\ client'[c].got = 0 /\ client'[c].pc \in {"connect", "poll"}
    <3>1. CASE client' = [client EXCEPT ![c] = Round]
      BY <3>1 DEF Round, WorkInv, ClientsTyped
    <3>2. ASSUME NEW job \in client[c].found,
                 client' = [client EXCEPT ![c].pc = "connect", ![c].job = job,
                                          ![c].found = @ \ {job}, ![c].got = 0]
          PROVE  /\ \A d \in Client : d # c => client'[d] = client[d]
                 /\ client'[c].got = 0 /\ client'[c].pc = "connect"
      BY <3>2 DEF WorkInv, ClientsTyped
    <3> QED
      BY <1>2, <3>1, <3>2 DEF Turn
  <2> QED
    BY <2>1, <2>2, DropKeeps
<1>3. ASSUME NEW pc \in {"next", "hung"}, Goto(c, pc), UNCHANGED <<daemon, child, pipe, backlog>>,
             UNCHANGED sock \/ sock' = [sock EXCEPT ![c].open = FALSE], sock[c].ended
      PROVE  HostInv'
  <2>1. /\ \A d \in Client : d # c => client'[d] = client[d]
        /\ client'[c].got = client[c].got /\ client'[c].pc \in {"next", "hung"}
    BY <1>3 DEF Goto, WorkInv, ClientsTyped
  <2> QED
    BY <1>3, <2>1, LeaveKeeps
<1>4. CASE Connect(c)
  <2>1. CASE Down
    BY <1>0, <1>3, <1>4, <2>1 DEF Connect, At, CallSound
  <2>2. CASE ~Down
    BY <1>4, <2>2, ConnectKeeps
  <2> QED
    BY <2>1, <2>2
<1>5. CASE Data(c)
    BY <1>5, DataKeepsHost
<1>6. CASE Closed(c)
    BY <1>3, <1>6 DEF Closed
<1>7. CASE Submit(c)
    BY <1>0, <1>3, <1>7 DEF Submit, At, CallSound, daemonVars, sandboxVars
<1>8. CASE RequestFails(c)
  <2>1. ASSUME At(c, "connect") \/ At(c, "submit"), Goto(c, "next"), UNCHANGED daemonVars
        PROVE  HostInv'
    BY <1>0, <1>3, <2>1 DEF At, CallSound, daemonVars, sandboxVars
  <2> QED
    BY <1>1, <1>8, <2>1 DEF RequestFails
<1>9. CASE Shutdown(c)
  <2>1. /\ UNCHANGED <<daemon, child, pipe, backlog>> /\ sock' = [sock EXCEPT ![c].open = FALSE]
        /\ \A d \in Client : d # c => client'[d] = client[d]
        /\ client'[c].got = client[c].got /\ client'[c].pc = "off"
    BY <1>9 DEF Shutdown, Goto, WorkInv, ClientsTyped
  <2> QED
    BY <2>1, LeaveKeeps
<1> QED
    BY <1>1, <1>2, <1>4, <1>5, <1>6, <1>7, <1>8, <1>9 DEF Work, List

LEMMA HostInit == Init => HostInv
<1> SUFFICES ASSUME Init PROVE HostInv
    OBVIOUS
<1> USE DEF Init, DaemonInit
<1>1. /\ daemon.pc = "accept" /\ daemon.client = NoClient /\ daemon.out = <<>> /\ daemon.err = <<>>
      /\ daemon \in DaemonState
    BY EmptySeq DEF Idle, DaemonState, DaemonPcs
<1>2. \A c \in Client : /\ sock[c].data = <<>> /\ sock[c].ended /\ sock[c] \in Blank
                        /\ client[c].pc = "poll" /\ client[c].got = 0
    BY EmptySeq DEF Blank, Round
<1>3. HostTyped
  <2>1. pipe \in [out : Seq(Output), err : Seq(Output)] /\ backlog \in Seq(Client)
    BY EmptySeq DEF EmptyPipes
  <2> QED
    BY <1>1, <1>2, <2>1 DEF HostTyped
<1>4. ChildSound
    BY <1>1 DEF ChildSound, NoRun, Running
<1>5. ConnectionsSound
    BY <1>1, <1>2 DEF ConnectionsSound, Queued, Serving, Running
<1>6. DataSound /\ ReplySound
    BY <1>1, <1>2, KindsDiffer DEF DataSound, DataOf, ReplySound
<1>7. CallsSound
  <2>1. \A c \in Client : Len(sock[c].data) = 0
    BY <1>2
  <2> QED
    BY <1>2, <2>1 DEF CallsSound, CallSound, At
<1> QED
    BY <1>3, <1>4, <1>5, <1>6, <1>7 DEF HostInv

LEMMA HostNext == WorkInv /\ HostInv /\ [Next]_vars => HostInv'
<1> SUFFICES ASSUME WorkInv, HostInv, [Next]_vars PROVE HostInv'
    OBVIOUS
<1>1. ASSUME NEW c \in Client, Work(c) \/ RequestFails(c) \/ Shutdown(c)
      PROVE  HostInv'
    BY <1>1, WorkKeepsHost
<1>2. CASE (DaemonStep \/ ChildStep \/ Fault) /\ UNCHANGED client
    BY <1>2, DaemonKeeps
<1>3. CASE UNCHANGED <<daemonVars, client>>
  <2>1. UNCHANGED <<daemon, child, pipe, backlog, sock, client>>
    BY <1>3 DEF daemonVars, sandboxVars
  <2>2. HostTyped' /\ ConnectionsSound'
    BY <2>1 DEF HostInv, HostTyped, ConnectionsSound, Queued, Unserved, Serving, Running
  <2>3. ChildSound'
    BY <2>1 DEF HostInv, ChildSound, NoRun, RunSound, Running, Alive, AllOut, AllErr
  <2>4. DataSound' /\ CallsSound'
    BY <2>1, DataKeeps DEF SameData
  <2>5. ReplySound'
    <3>1. CASE daemon.pc = "reply"
      <4>1. /\ daemon.reply # <<>>
            /\ sock[daemon.client].data \o daemon.reply \in Replies(sock[daemon.client].code)
        BY <3>1 DEF HostInv, ReplySound
      <4> QED
        BY <2>1, <4>1 DEF ReplySound
    <3>2. CASE daemon.pc # "reply"
      BY <2>1, <3>2 DEF ReplySound
    <3> QED
      BY <3>1, <3>2
  <2> QED
    BY <2>2, <2>3, <2>4, <2>5 DEF HostInv
<1> QED
    BY <1>1, <1>2, <1>3 DEF Next, Trouble, ServerFault, Others, vars

\* The state of the host fits the runs that were asked for: what was printed is in the
\* pipes and the buffers in order, and what was sent is the beginning of a whole reply
\* (executor_daemon.cpp:125-170, 250-275, client.ts:99-154).
THEOREM HostInvHolds == Spec => []HostInv
<1>1. Init => HostInv
    BY HostInit
<1>2. WorkInv /\ HostInv /\ [Next]_vars => HostInv'
    BY HostNext
<1> QED
    BY <1>1, <1>2, WorkInvHolds, PTL DEF Spec

-----------------------------------------------------------------------------
(* The refinement: the calls of the clients are the calls of RemoteRun.    *)

Calls == [c \in Client |-> CallOf(c)]

NoCall == [state |-> "idle"]
Asked(code) == [state |-> "asked", code |-> code]
Returned(code, output) == [state |-> "returned", code |-> code, output |-> output]

\* One step of RemoteRun for one client, or none.
CallStep(before, after) ==
    \/ after = before
    \/ before = NoCall /\ \E code \in Code : after = Asked(code)
    \/ \E code \in Code : before = Asked(code) /\
          \/ after = NoCall
          \/ \E output \in Returnable[code] : after = Returned(code, output)
    \/ before.state = "returned" /\ after = NoCall

LEMMA CallStepIsRemote ==
    ASSUME NEW c \in Client, CallStep(CallOf(c), CallOf(c)'),
           \A d \in Client : d # c => CallOf(d)' = CallOf(d)
    PROVE  [Remote!Next]_Calls
<1> DEFINE before == CallOf(c)
           after == CallOf(c)'
<1>1. Calls[c] = before /\ Calls' = [Calls EXCEPT ![c] = after]
    BY DEF Calls
<1>2. CASE after = before
  <2>1. Calls' = Calls
    BY <1>2 DEF Calls
  <2> QED
    BY <2>1
<1> HIDE DEF before, after
<1>3. CASE before = NoCall /\ \E code \in Code : after = Asked(code)
  <2>1. \E code \in Code : Remote!Ask(c, code)
    BY <1>1, <1>3 DEF Calls, Remote!Ask, Remote!Become, Remote!Idle, NoCall, Asked
  <2> QED
    BY <2>1 DEF Remote!Next
<1>4. ASSUME NEW code \in Code, before = Asked(code), after = NoCall
      PROVE  Remote!GiveUp(c)
    BY <1>1, <1>4 DEF Calls, Remote!GiveUp, Remote!Become, Remote!Idle, NoCall, Asked
<1>5. ASSUME NEW code \in Code, before = Asked(code), NEW output \in Returnable[code],
             after = Returned(code, output)
      PROVE  Remote!Return(c)
  <2>1. Calls[c].state = "asked" /\ Calls[c].code = code
    BY <1>1, <1>5 DEF Asked
  <2>2. Calls' = [Calls EXCEPT ![c] = [state |-> "returned", code |-> Calls[c].code,
                                       output |-> output]]
    BY <1>1, <1>5, <2>1 DEF Returned
  <2>3. output \in Returnable[Calls[c].code]
    BY <1>5, <2>1
  <2> QED
    BY <2>1, <2>2, <2>3 DEF Calls, Remote!Return, Remote!Become
<1>6. CASE before.state = "returned" /\ after = NoCall
  <2>1. Remote!Use(c)
    BY <1>1, <1>6 DEF Calls, Remote!Use, Remote!Become, Remote!Idle, NoCall
  <2> QED
    BY <2>1 DEF Remote!Next
<1>7. CallStep(before, after)
    BY DEF before, after
<1> QED
    BY <1>2, <1>3, <1>4, <1>5, <1>6, <1>7 DEF CallStep, Remote!Next, before, after

\* A client that stays where it is makes no step of its call: of a reply that it is
\* about to submit no more is sent.
LEMMA CallStays ==
    ASSUME NEW d \in Client, client'[d] = client[d], At(d, "submit") => sock'[d].data = sock[d].data
    PROVE  CallOf(d)' = CallOf(d)
BY DEF CallOf, At, JobOf, OutputOf, Reported

LEMMA OthersStay ==
    ASSUME NEW c \in Client, \A d \in Client : d # c => client'[d] = client[d],
           \A d \in Client : d # c => sock'[d] = sock[d],
           CallStep(CallOf(c), CallOf(c)')
    PROVE  [Remote!Next]_Calls
<1>1. \A d \in Client : d # c => CallOf(d)' = CallOf(d)
    BY CallStays
<1> QED
    BY <1>1, CallStepIsRemote

\* Where a client is in its call.
LEMMA CallAt ==
    ASSUME NEW c \in Client
    PROVE  /\ client[c].pc \in {"receive", "hung"} => CallOf(c) = Asked(JobOf(c).task)
           /\ client[c].pc = "submit" => CallOf(c) = Returned(JobOf(c).task, OutputOf(Reported(c)))
           /\ client[c].pc \notin {"receive", "hung", "submit"} => CallOf(c) = NoCall
BY DEF CallOf, At, Asked, Returned, NoCall

LEMMA CallAtNext ==
    ASSUME NEW c \in Client
    PROVE  /\ client'[c].pc \in {"receive", "hung"} => CallOf(c)' = Asked(client'[c].job.task)
           /\ client'[c].pc = "submit" =>
                 CallOf(c)' = Returned(client'[c].job.task, OutputOf(Reported(c))')
           /\ client'[c].pc \notin {"receive", "hung", "submit"} => CallOf(c)' = NoCall
BY DEF CallOf, At, JobOf, Asked, Returned, NoCall

\* A reply that is whole comes apart into an output that the code may leave.
LEMMA ReportedIsReturnable ==
    ASSUME NEW code \in Code, NEW c \in Client, sock[c].data \in Replies(code)
    PROVE  OutputOf(Reported(c)) \in Returnable[code] /\ Reported(c).status \in {0, 1}
<1>1. PICK word \in {0, 1}, output \in Returnable[code] :
         sock[c].data = Reply(word, output.stdout, output.stderr, output.zip)
    BY DEF Replies
<1> DEFINE data == sock[c].data
           out == output.stdout
           err == output.stderr
           zip == output.zip
<1>2. /\ out \in Seq(Output) /\ err \in Seq(Output) /\ zip \in Seq(Output) /\ word \in Word
      /\ output = [stdout |-> out, stderr |-> err, zip |-> zip]
      /\ Len(out) \in Nat /\ Len(err) \in Nat /\ Len(zip) \in Nat
    BY <1>1, ReturnableTyped, LenProperties DEF Word
<1> HIDE DEF out, err, zip
<1>3. HasParts(data, out, err, zip) /\ HasHeader(data, word, out, err, zip)
    BY <1>1, <1>2, ReplyParts, ReplyHeader DEF out, err, zip
<1>4. /\ 5 + data[2] - 1 = 4 + Len(out)
      /\ 5 + data[2] + data[3] - 1 = 4 + Len(out) + Len(err)
      /\ 5 + data[2] + data[3] + data[4] - 1 = 4 + Len(out) + Len(err) + Len(zip)
      /\ 5 + data[2] = 5 + Len(out) /\ 5 + data[2] + data[3] = 5 + Len(out) + Len(err)
    BY <1>2, <1>3 DEF HasHeader
<1>5. /\ SubSeq(data, 5, 5 + data[2] - 1) = out
      /\ SubSeq(data, 5 + data[2], 5 + data[2] + data[3] - 1) = err
      /\ SubSeq(data, 5 + data[2] + data[3], 5 + data[2] + data[3] + data[4] - 1) = zip
    BY <1>3, <1>4 DEF HasParts
<1>6. Reported(c) = [status |-> data[1], stdout |-> out, stderr |-> err, zip |-> zip]
    BY <1>5 DEF Reported
<1>7. OutputOf(Reported(c)) = output /\ Reported(c).status = word
    BY <1>2, <1>3, <1>6 DEF OutputOf, HasHeader
<1> QED
    BY <1>7

\* The steps that end in a place between calls.
LEMMA LeavesCall ==
    ASSUME WorkInv, NEW c \in Client, client'[c].pc \in {"poll", "next", "connect", "off"}
    PROVE  CallStep(CallOf(c), CallOf(c)')
<1>1. CallOf(c)' = NoCall
    BY CallAtNext
<1>2. client[c].pc \in {"receive", "hung"} =>
         \E code \in Code : CallOf(c) = Asked(code)
  <2>1. client[c].pc \in {"receive", "hung"} => JobOf(c).task \in Code
    BY DEF WorkInv, InHandIsDue, Busy, Job, Task
  <2> QED
    BY <2>1, CallAt
<1>3. client[c].pc = "submit" => CallOf(c).state = "returned"
    BY CallAt DEF Returned
<1> QED
    BY <1>1, <1>2, <1>3, CallAt DEF CallStep

LEMMA DataCall ==
    ASSUME WorkInv, HostInv, NEW c \in Client, Data(c)
    PROVE  [Remote!Next]_Calls
<1> DEFINE code == JobOf(c).task
<1>1. /\ client[c].pc = "receive" /\ CallSound(c) /\ HostTyped
      /\ code \in Code /\ CallOf(c) = Asked(code)
    BY CallAt DEF Data, At, HostInv, CallsSound, WorkInv, InHandIsDue, Busy, Job, Task
<1>2. PICK n \in client[c].got + 1 .. Len(sock[c].data) :
         IF Complete(SubSeq(sock[c].data, 1, n))
         THEN /\ client' = [client EXCEPT ![c].got = n, ![c].pc = "submit"]
              /\ sock' = [sock EXCEPT ![c].open = FALSE]
         ELSE /\ client' = [client EXCEPT ![c].got = n]
              /\ UNCHANGED sock
    BY DEF Data
<1>3. CASE Complete(SubSeq(sock[c].data, 1, n))
  <2>1. sock[c].data \in Replies(sock[c].code) /\ sock[c].code = code
    BY <1>1, <1>3, CompleteIsLast DEF Data, CallSound
  <2>2. OutputOf(Reported(c)) \in Returnable[code]
    BY <1>1, <2>1, ReportedIsReturnable
  <2>3. /\ client'[c].pc = "submit" /\ client'[c].job = client[c].job
        /\ \A d \in Client : d # c => client'[d] = client[d]
    BY <1>2, <1>3 DEF WorkInv, ClientsTyped
  <2>4. sock'[c].data = sock[c].data /\ \A d \in Client : d # c => sock'[d] = sock[d]
    BY <1>1, <1>2, <1>3, CloseTyped DEF SameData, HostTyped
  <2>5. OutputOf(Reported(c))' = OutputOf(Reported(c))
    BY <2>4 DEF OutputOf, Reported
  <2>6. CallOf(c)' = Returned(code, OutputOf(Reported(c)))
    BY <2>3, <2>5, CallAtNext DEF JobOf
  <2>7. CallStep(CallOf(c), CallOf(c)')
    BY <1>1, <2>2, <2>6 DEF CallStep
  <2> QED
    BY <2>3, <2>4, <2>7, OthersStay
<1>4. CASE ~Complete(SubSeq(sock[c].data, 1, n))
  <2>1. /\ client'[c].pc = "receive" /\ client'[c].job = client[c].job /\ sock' = sock
        /\ \A d \in Client : d # c => client'[d] = client[d]
    BY <1>1, <1>2, <1>4 DEF WorkInv, ClientsTyped
  <2>2. CallOf(c)' = CallOf(c)
    BY <1>1, <2>1, CallAtNext DEF JobOf
  <2> QED
    BY <2>1, <2>2, OthersStay DEF CallStep
<1> QED
    BY <1>3, <1>4

\* The other steps of a client, which leave the daemon alone.
LEMMA WorkCall ==
    ASSUME WorkInv, HostInv, NEW c \in Client, Work(c) \/ RequestFails(c) \/ Shutdown(c)
    PROVE  [Remote!Next]_Calls
<1>1. ASSUME client'[c].pc \in {"poll", "next", "connect", "off"},
             \A d \in Client : d # c => client'[d] = client[d],
             \/ UNCHANGED sock \/ sock' = [sock EXCEPT ![c].open = FALSE]
             \/ sock' = [sock EXCEPT ![c].data = <<>>]
      PROVE  [Remote!Next]_Calls
  <2>1. \A d \in Client : d # c => sock'[d] = sock[d]
    BY <1>1 DEF HostInv, HostTyped
  <2> QED
    BY <1>1, <2>1, LeavesCall, OthersStay
<1>2. ASSUME NEW mode, NEW jobs, Listed(c, mode, jobs)
      PROVE  [Remote!Next]_Calls
  <2>1. /\ sock' = sock /\ client'[c].pc \in {"next", "poll"}
        /\ \A d \in Client : d # c => client'[d] = client[d]
    BY <1>2 DEF Listed, daemonVars, WorkInv, ClientsTyped
  <2> QED
    BY <1>1, <2>1
<1>3. CASE Turn(c)
  <2>1. CASE client' = [client EXCEPT ![c] = Round]
    <3>1. client'[c].pc = "poll" /\ \A d \in Client : d # c => client'[d] = client[d]
      BY <2>1 DEF Round, WorkInv, ClientsTyped
    <3> QED
      BY <1>1, <1>3, <3>1 DEF Turn
  <2>2. ASSUME NEW job \in client[c].found,
               client' = [client EXCEPT ![c].pc = "connect", ![c].job = job,
                                        ![c].found = @ \ {job}, ![c].got = 0]
        PROVE  [Remote!Next]_Calls
    <3>1. client'[c].pc = "connect" /\ \A d \in Client : d # c => client'[d] = client[d]
      BY <2>2 DEF WorkInv, ClientsTyped
    <3> QED
      BY <1>1, <1>3, <3>1 DEF Turn
  <2> QED
    BY <1>3, <2>1, <2>2 DEF Turn
<1>4. ASSUME NEW pc \in {"next", "off"}, Goto(c, pc),
             UNCHANGED sock \/ sock' = [sock EXCEPT ![c].open = FALSE]
      PROVE  [Remote!Next]_Calls
  <2>1. client'[c].pc = pc /\ \A d \in Client : d # c => client'[d] = client[d]
    BY <1>4 DEF Goto, WorkInv, ClientsTyped
  <2> QED
    BY <1>1, <1>4, <2>1
<1>5. CASE Connect(c)
  <2>1. CASE Down
    BY <1>4, <1>5, <2>1 DEF Connect
  <2>2. CASE ~Down
    <3>1. /\ client[c].pc = "connect" /\ client'[c].pc = "receive" /\ client'[c].job = client[c].job
          /\ \A d \in Client : d # c => client'[d] = client[d] /\ sock'[d] = sock[d]
      BY <1>5, <2>2 DEF Connect, At, WorkInv, ClientsTyped, HostInv, HostTyped
    <3>2. JobOf(c).task \in Code
      BY <3>1 DEF WorkInv, InHandIsDue, Busy, Job, Task
    <3>3. CallOf(c) = NoCall /\ CallOf(c)' = Asked(JobOf(c).task)
      BY <3>1, CallAt, CallAtNext DEF JobOf
    <3>4. CallStep(CallOf(c), CallOf(c)')
      BY <3>2, <3>3 DEF CallStep
    <3> QED
      BY <3>1, <3>4, OthersStay
  <2> QED
    BY <2>1, <2>2
<1>6. CASE Data(c)
    BY <1>6, DataCall
<1>7. CASE Closed(c)
  <2>1. CASE Goto(c, "next")
    BY <1>4, <1>7, <2>1 DEF Closed
  <2>2. CASE Goto(c, "hung")
    <3>1. /\ client[c].pc = "receive" /\ client'[c].pc = "hung" /\ client'[c].job = client[c].job
          /\ \A d \in Client : d # c => client'[d] = client[d] /\ sock'[d] = sock[d]
      BY <1>7, <2>2 DEF Closed, Goto, At, WorkInv, ClientsTyped, HostInv, HostTyped
    <3>2. CallOf(c)' = CallOf(c)
      BY <3>1, CallAt, CallAtNext DEF JobOf
    <3> QED
      BY <3>1, <3>2, OthersStay DEF CallStep
  <2> QED
    BY <1>7, <2>1, <2>2 DEF Closed
<1>8. CASE Submit(c)
    BY <1>4, <1>8 DEF Submit, daemonVars
<1>9. CASE RequestFails(c)
  <2>1. ASSUME Goto(c, "next"), UNCHANGED daemonVars
        PROVE  [Remote!Next]_Calls
    BY <1>4, <2>1 DEF daemonVars
  <2> QED
    BY <1>2, <1>9, <2>1 DEF RequestFails
<1>10. CASE Shutdown(c)
    BY <1>4, <1>10 DEF Shutdown
<1> QED
    BY <1>2, <1>3, <1>5, <1>6, <1>7, <1>8, <1>9, <1>10 DEF Work, List

\* The steps of the host leave every call as it is: what is sent is sent to a client
\* that still waits, or that is gone.
LEMMA HostCall ==
    ASSUME WorkInv, HostInv, UNCHANGED client, DaemonStep \/ ChildStep \/ Fault
    PROVE  Calls' = Calls
<1> SUFFICES ASSUME NEW d \in Client, At(d, "submit")
             PROVE  sock'[d].data = sock[d].data
  <2>1. ASSUME \A d \in Client : At(d, "submit") => sock'[d].data = sock[d].data
        PROVE  Calls' = Calls
    <3>1. \A d \in Client : CallOf(d)' = CallOf(d)
      BY <2>1, CallStays
    <3> QED
      BY <3>1 DEF Calls
  <2> QED
    BY <2>1
<1>1. sock[d].ended /\ HostTyped
    BY DEF HostInv, CallsSound, CallSound, At
<1>2. ASSUME NEW pc, GoDown(pc)
      PROVE  sock'[d].data = sock[d].data
  <2>1. sock'[d] = [sock[d] EXCEPT !.ended = TRUE]
    BY <1>2 DEF GoDown
  <2>2. sock[d] \in Blank \cup Request
    BY <1>1 DEF HostTyped
  <2> QED
    BY <2>1, <2>2 DEF Blank, Request
<1>3. ASSUME NEW code, Receive(code)
      PROVE  sock'[d].data = sock[d].data
  <2>1. CASE UNCHANGED sock
    BY <2>1
  <2>2. CASE Close(daemon.client)
    <3>1. sock[d] \in Blank \cup Request /\ sock \in [Client -> Blank \cup Request]
      BY <1>1 DEF HostTyped
    <3>2. sock'[d] = sock[d] \/ sock'[d] = [sock[d] EXCEPT !.ended = TRUE]
      BY <2>2, <3>1 DEF Close
    <3> QED
      BY <3>1, <3>2 DEF Blank, Request
  <2> QED
    BY <1>3, <2>1, <2>2 DEF Receive
<1>4. CASE Send
  <2>1. d # daemon.client
    BY <1>1, <1>4 DEF Send, HostInv, ConnectionsSound, Serving
  <2>2. CASE GoDown("stopped")
    BY <1>2, <2>2
  <2>3. CASE sock' = [sock EXCEPT ![daemon.client].data = Append(@, Head(daemon.reply)),
                                  ![daemon.client].ended = Len(daemon.reply) = 1]
    BY <1>1, <2>1, <2>3 DEF HostTyped
  <2> QED
    BY <1>4, <2>2, <2>3 DEF Send
<1>5. CASE Accept \/ Select \/ Poll \/ Wait \/ Restart \/ ChildStep \/ RunFails
    BY <1>5 DEF Accept, Select, Poll, Wait, Restart, ChildStep, RunFails
<1>6. CASE Stop \/ Crash
    BY <1>2, <1>6 DEF Stop, Crash
<1> QED
    BY <1>3, <1>4, <1>5, <1>6 DEF DaemonStep, Fault

LEMMA NextCall ==
    ASSUME WorkInv, HostInv, [Next]_vars
    PROVE  [Remote!Next]_Calls
<1>1. ASSUME NEW c \in Client, Work(c) \/ RequestFails(c) \/ Shutdown(c)
      PROVE  [Remote!Next]_Calls
    BY <1>1, WorkCall
<1>2. CASE (DaemonStep \/ ChildStep \/ Fault) /\ UNCHANGED client
    BY <1>2, HostCall
<1>3. CASE UNCHANGED <<daemonVars, client>>
  <2>1. \A d \in Client : CallOf(d)' = CallOf(d)
    BY <1>3, CallStays DEF daemonVars
  <2>2. Calls' = Calls
    BY <2>1 DEF Calls
  <2> QED
    BY <2>2
<1> QED
    BY <1>1, <1>2, <1>3 DEF Next, Trouble, ServerFault, Others, vars

\* What a client submits is the whole of what the script leaves of one run of that task's
\* code, or the empty reply of a run that could not be started, for any number of clients
\* that share the daemon, any outputs, pipes of any size, replies in pieces of any length,
\* and whatever fails or is killed in between (executor_daemon.cpp:125-170,
\* client.ts:99-154, executor_docker.sh:75-92).
THEOREM RunsAreRemote == Spec => RunsRemotely
<1>1. Init => Remote!Init
  <2>1. Init => \A c \in Client : CallOf(c) = [state |-> "idle"]
    BY DEF Init, Round, CallOf, At
  <2> QED
    BY <2>1 DEF Remote!Init, Remote!Idle
<1>2. WorkInv /\ HostInv /\ [Next]_vars => [Remote!Next]_Calls
    BY NextCall
<1> QED
    BY <1>1, <1>2, WorkInvHolds, HostInvHolds, PTL DEF Spec, RunsRemotely, Remote!Spec, Calls

-----------------------------------------------------------------------------
(* Types and bounds.                                                       *)

Bounded == /\ faults \in 0 .. MaxFaults
           /\ Len(pipe.out) <= PipeSize /\ Len(pipe.err) <= PipeSize

\* The sizes in a header are sizes of what a run leaves.
LEMMA SizesOfOutputs ==
    ASSUME NEW code \in Code, NEW output \in Returnable[code]
    PROVE  Len(output.stdout) \in Size /\ Len(output.stderr) \in Size /\ Len(output.zip) \in Size
<1>1. Len(<<>>) = 0 /\ 0 \in Size /\ 1 \in Size
    BY DEF Size
<1>2. CASE output = [stdout |-> <<>>, stderr |-> <<>>, zip |-> <<>>]
    BY <1>1, <1>2
<1>3. ASSUME NEW run \in Runs[code], output \in Leavings(run)
      PROVE  Len(output.stdout) \in Size /\ Len(output.stderr) \in Size /\ Len(output.zip) \in Size
  <2>1. Len(run.stdout) \in Size /\ Len(run.stderr) \in Size /\ Len(run.stderr) + 1 \in Size
        /\ Len(run.files) \in Size
    BY DEF Size
  <2>2. run.stderr \in Seq(Output) /\ Message \in Output
    BY SandboxAssumption
  <2>3. Len(Append(run.stderr, Message)) = Len(run.stderr) + 1 /\ Len(<<Message>>) = 1
    BY <2>2, AppendProperties
  <2>4. \/ output = Finished(run) \/ output = NotStarted \/ output = NotArchived(run)
        \/ output = Nothing
    BY <1>3 DEF Leavings
  <2>5. \/ /\ output.stdout = run.stdout
           /\ output.stderr \in {run.stderr, Append(run.stderr, Message)}
           /\ output.zip \in {run.files, <<>>}
        \/ output.stdout = <<>> /\ output.stderr \in {<<Message>>, <<>>} /\ output.zip = <<>>
    BY <2>4 DEF Finished, NotStarted, NotArchived, Nothing
  <2> QED
    BY <1>1, <2>1, <2>3, <2>5
<1> QED
    BY <1>2, <1>3 DEF Returnable, Nothing

\* The units that were sent are of the kinds that the header and the parts have.
LEMMA UnitsTyped ==
    ASSUME HostInv, NEW c \in Client, NEW i \in 1 .. Len(sock[c].data)
    PROVE  sock[c].data[i] \in IF i = 1 THEN {0, 1} ELSE IF i <= 4 THEN Size ELSE Output
<1>1. sock[c] \in Blank \cup Request /\ DataOf(c) /\ sock[c].data \in Seq(Word)
    BY DEF HostInv, HostTyped, DataSound, Blank, Request
<1>2. CASE sock[c] \notin Request
    BY <1>1, <1>2 DEF DataOf
<1>3. CASE sock[c] \in Request
  <2> DEFINE code == sock[c].code
  <2>1. code \in Code
    BY <1>3 DEF Request
  <2>2. PICK reply \in Replies(code) : Begins(sock[c].data, reply)
    BY <1>1, <1>3 DEF DataOf
  <2>3. PICK word \in {0, 1}, output \in Returnable[code] :
           reply = Reply(word, output.stdout, output.stderr, output.zip)
    BY <2>2 DEF Replies
  <2> HIDE DEF code
  <2> DEFINE out == output.stdout
             err == output.stderr
             zip == output.zip
  <2>4. /\ out \in Seq(Output) /\ err \in Seq(Output) /\ zip \in Seq(Output) /\ word \in Word
        /\ Len(out) \in Size /\ Len(err) \in Size /\ Len(zip) \in Size
    BY <2>1, <2>3, ReturnableTyped, SizesOfOutputs DEF Word
  <2> HIDE DEF out, err, zip
  <2>5. HasHeader(reply, word, out, err, zip) /\ HasParts(reply, out, err, zip)
    BY <2>3, <2>4, ReplyHeader, ReplyParts DEF out, err, zip
  <2>6. i \in 1 .. Len(reply) /\ sock[c].data[i] = reply[i] /\ Len(reply) \in Nat
    <3>1. Len(sock[c].data) \in Nat /\ Len(reply) \in Nat
      BY <1>1, <2>1, <2>2, LenProperties, RepliesTyped
    <3> QED
      BY <2>2, <3>1 DEF Begins
  <2>7. CASE i <= 4
    <3>1. i \in {1, 2, 3, 4}
      BY <2>6, <2>7
    <3> QED
      BY <2>4, <2>5, <2>6, <3>1 DEF HasHeader
  <2>8. CASE i > 4
    BY <2>5, <2>6, <2>8 DEF HasParts
  <2> QED
    BY <2>6, <2>7, <2>8
<1> QED
    BY <1>2, <1>3

\* No more is written into a pipe than it holds.
LEMMA BoundedNext ==
    ASSUME WorkInv, HostInv, Bounded, [Next]_vars
    PROVE  Bounded'
<1>1. faults' \in 0 .. MaxFaults
    BY ExecutorAssumption DEF Bounded, Next, Trouble, vars
<1>2. /\ pipe \in [out : Seq(Output), err : Seq(Output)]
      /\ Len(pipe.out) \in Nat /\ Len(pipe.err) \in Nat /\ PipeSize \in Nat \ {0}
    BY SandboxAssumption, LenProperties DEF HostInv, HostTyped
<1>3. CASE pipe' = pipe
    BY <1>1, <1>3 DEF Bounded
<1>4. CASE pipe' = EmptyPipes
  <2>1. Len(pipe'.out) = 0 /\ Len(pipe'.err) = 0
    BY <1>4 DEF EmptyPipes
  <2> QED
    BY <1>1, <1>2, <2>1 DEF Bounded
<1>5. CASE Select
  <2>1. /\ pipe'.out = pipe.out \/ (pipe.out # <<>> /\ pipe'.out = Tail(pipe.out))
        /\ pipe'.err = pipe.err \/ (pipe.err # <<>> /\ pipe'.err = Tail(pipe.err))
    BY <1>5 DEF Select, ReadsOut, ReadsErr
  <2>2. /\ pipe.out # <<>> => Len(Tail(pipe.out)) = Len(pipe.out) - 1
        /\ pipe.err # <<>> => Len(Tail(pipe.err)) = Len(pipe.err) - 1
    BY <1>2, HeadTailProperties
  <2> QED
    BY <1>1, <1>2, <2>1, <2>2 DEF Bounded
<1>6. CASE ScriptStep \/ ScriptFault
  <2>1. CASE WriteOut \/ WriteErr
    <3>0. child # NoChild
      BY <2>1 DEF WriteOut, WriteErr, Alive, NoChild
    <3>1. child.out \in Seq(Output) /\ child.err \in Seq(Output)
      BY <3>0 DEF HostInv, HostTyped, Script
    <3>2. CASE WriteOut
      <4>1. /\ Len(pipe.out) < PipeSize /\ child.out # <<>>
            /\ pipe'.out = Append(pipe.out, Head(child.out)) /\ pipe'.err = pipe.err
        BY <1>2, <3>2 DEF WriteOut
      <4>2. Len(Append(pipe.out, Head(child.out))) = Len(pipe.out) + 1
        BY <1>2, <3>1, <4>1, AppendProperties, HeadTailProperties
      <4> QED
        BY <1>1, <1>2, <4>1, <4>2 DEF Bounded
    <3>3. CASE WriteErr
      <4>1. /\ Len(pipe.err) < PipeSize /\ child.err # <<>>
            /\ pipe'.err = Append(pipe.err, Head(child.err)) /\ pipe'.out = pipe.out
        BY <1>2, <3>3 DEF WriteErr
      <4>2. Len(Append(pipe.err, Head(child.err))) = Len(pipe.err) + 1
        BY <1>2, <3>1, <4>1, AppendProperties, HeadTailProperties
      <4> QED
        BY <1>1, <1>2, <4>1, <4>2 DEF Bounded
    <3> QED
      BY <2>1, <3>2, <3>3
  <2> QED
    BY <1>3, <1>6, <2>1 DEF ScriptStep, ScriptFault, Prepare, ProgramEnds, Archive, Leave, Exit,
       ExecFails, DockerFails, ArchiveFails, LeaveFails, Complain
<1>7. CASE DaemonStep \/ ChildStep \/ Fault
    BY <1>3, <1>4, <1>5, <1>6, <1>7 DEF DaemonStep, ChildStep, Fault, Accept, Receive, Poll, Wait, Send,
       Restart, RunFails, Stop, Crash, GoDown
<1>8. ASSUME NEW c \in Client, Work(c) \/ RequestFails(c) \/ Shutdown(c)
      PROVE  pipe' = pipe
    BY <1>8 DEF Work, List, Listed, Turn, Connect, Data, Closed, Submit, RequestFails, Shutdown,
       daemonVars, sandboxVars
<1>9. CASE UNCHANGED daemonVars
    BY <1>3, <1>9 DEF daemonVars, sandboxVars
<1> QED
    BY <1>3, <1>7, <1>8, <1>9 DEF Next, Trouble, ServerFault, Others, vars

\* Every variable of the clients and of the host keeps its type, for all values of the
\* constants: among them that what a client has received never passes what was sent, that
\* a header's sizes are sizes of what a run leaves (client.ts:99-131), and that a pipe
\* holds no more than it can.
THEOREM ExecutorTyped == Spec => []TypeOK
<1>1. Init => Bounded
    BY ExecutorAssumption, SandboxAssumption DEF Init, DaemonInit, EmptyPipes, Bounded
<1>2. WorkInv /\ HostInv /\ Bounded /\ [Next]_vars => Bounded'
    BY BoundedNext
<1>3. ASSUME WorkInv, HostInv, Bounded
      PROVE  TypeOK
  <2>1. /\ Market!MarketTypeOK /\ faults \in 0 .. MaxFaults
        /\ processed \in [Client -> SUBSET Task] /\ accepted \in [Client -> SUBSET Job]
        /\ Len(pipe.out) <= PipeSize /\ Len(pipe.err) <= PipeSize
    BY <1>3 DEF WorkInv, ClientsTyped, Bounded
  <2>2. daemon.pc \in DaemonPcs /\ daemon.client \in Client \cup {NoClient}
    BY <1>3 DEF HostInv, HostTyped, DaemonState
  <2>3. ASSUME NEW c \in Client
        PROVE  /\ client[c].pc \in Pcs /\ client[c].pending \subseteq Mode
               /\ client[c].found \subseteq Job /\ client[c].job \in Job \cup {NoJob}
               /\ client[c].got \in 0 .. Len(sock[c].data)
    BY <1>3 DEF WorkInv, ClientsTyped, HostInv, CallsSound, CallSound
  <2>4. \A c \in Client : \A i \in 1 .. Len(sock[c].data) :
           sock[c].data[i] \in IF i = 1 THEN {0, 1} ELSE IF i <= 4 THEN Size ELSE Output
    BY <1>3, UnitsTyped
  <2> HIDE DEF Size
  <2> QED
    BY <2>1, <2>2, <2>3, <2>4 DEF TypeOK, Pcs, DaemonPcs
<1> QED
    BY <1>1, <1>2, <1>3, WorkInvHolds, HostInvHolds, PTL DEF Spec
=============================================================================
