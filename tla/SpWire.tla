------------------------------- MODULE SpWire -------------------------------
(***************************************************************************)
(* One connection of the system call proxy (sysproxy.c): the threads that  *)
(* send frames over it under the send lock, the requests that wait for an  *)
(* answer, and the main loop that puts the client's frames together.       *)
(*                                                                         *)
(* A frame is a record with its length; on the wire it is the sequence of  *)
(* its bytes, each of which is the frame and an offset, so that a reader   *)
(* gets a frame right only when it gets its bytes together.  sppc says     *)
(* where a thread is: "lock" wants the send lock, "cvwait" sleeps on       *)
(* spc_cv, "send" is in dosend, "sent" has left it, "rwait" sleeps on its  *)
(* rw_cv, "rwake" has been woken there.                                    *)
(***************************************************************************)
EXTENDS SequencesExt, FiniteSetsExt, Integers

CONSTANTS
  SpThread,   \* the threads that work for the client
  HDRSZ,      \* the bytes of a header (scaled down)
  MaxReq      \* requests and responses that are sent in a behaviour

VARIABLES
  spc_state, spc_ostatus, spc_nextreq, spc_respwait,
  spc_hdr, spc_off, spc_buf,  \* the frame being read: header, bytes so far, the body or NULL
  sppc, spop,                     \* each thread's place and the frame that it sends
  spiov,                        \* what is left of the frame in dosend
  sperror,                    \* the result of the call
  sprw,                         \* each thread's struct respwait
  spcurlwp,                     \* is the thread on its own lwp, or on dosend's?
  wireout, wirein,            \* the bytes on their way to the client and back
  asked,                      \* the requests that the client has not answered
  gone,                       \* has the client closed its end?
  cut,                        \* the frames that a failed send left unfinished
  discopc,                    \* how far serv_handledisco() is: "no", "kicked", "wiped"
  nsent                       \* the frames begun

spcvars == <<spc_state, spc_ostatus, spc_nextreq, spc_respwait>>
rdvars == <<spc_hdr, spc_off, spc_buf>>
thvars == <<sppc, spop, spiov, sperror, spcurlwp>>
wirevars == <<wireout, wirein, asked, gone, cut>>
spwvars == <<spcvars, rdvars, thvars, sprw, wirevars, discopc, nsent>>

NoData == [class |-> "none"]
Idle == [type |-> "none"]

SPInit ==
  /\ spc_state = "RUNNING" /\ spc_ostatus = "FREE" /\ spc_nextreq = 0 /\ spc_respwait = <<>>
  /\ spc_hdr = NoData /\ spc_off = 0 /\ spc_buf = NoData
  /\ sppc = [t \in SpThread |-> "idle"] /\ spop = [t \in SpThread |-> Idle] /\ spiov = [t \in SpThread |-> <<>>]
  /\ sperror = [t \in SpThread |-> 0] /\ spcurlwp = [t \in SpThread |-> "own"]
  /\ sprw = [t \in SpThread |-> [reqno |-> -1, data |-> NoData, done |-> FALSE]]
  /\ wireout = <<>> /\ wirein = <<>> /\ asked = {} /\ gone = FALSE /\ nsent = 0
  /\ cut = {} /\ discopc = "no"

\* The bytes of a frame, in the pieces that dosend is given.
Bytes(f, from, to) == [i \in 1 .. to - from + 1 |-> [frame |-> f, at |-> from + i - 1]]
Pieces(f) == SelectSeq(<<Bytes(f, 1, HDRSZ), Bytes(f, HDRSZ + 1, f.len)>>, LAMBDA p : p # <<>>)

-----------------------------------------------------------------------------
(* The send lock.  Both operators are part of a section under spc_mtx.     *)

WakeSenders(p) == [t \in SpThread |-> IF p[t] = "cvwait" THEN "lock" ELSE p[t]]

sendlockl(t) ==
  \/ /\ spc_ostatus = "FREE"
     /\ spc_ostatus' = "BUSY" /\ sppc' = [sppc EXCEPT ![t] = "send"]
  \/ /\ spc_ostatus # "FREE"
     /\ spc_ostatus' = "WANTED" /\ sppc' = [sppc EXCEPT ![t] = "cvwait"]

sendunlockl(p) ==
  /\ spc_ostatus' = "FREE"
  /\ sppc' = IF spc_ostatus = "WANTED" THEN WakeSenders(p) ELSE p

relock(t) ==
  /\ sppc[t] = "lock"
  /\ sendlockl(t)
  /\ UNCHANGED <<spc_state, spc_nextreq, spc_respwait, rdvars, spop, spiov, sperror, spcurlwp, sprw, wirevars,
                 discopc, nsent>>

-----------------------------------------------------------------------------
(* Sending                                                                 *)

Begins(t, f) ==
  /\ sppc[t] = "idle" /\ nsent < MaxReq /\ nsent' = nsent + 1
  /\ spop' = [spop EXCEPT ![t] = f] /\ spiov' = [spiov EXCEPT ![t] = Pieces(f)]
  /\ sperror' = [sperror EXCEPT ![t] = 0]

\* copyin_req() and anonmmap_req(): putwait() joins the waiters and takes the
\* send lock in one section.
putwait(t) ==
  /\ Begins(t, [class |-> "REQ", type |-> "COPYIN", reqno |-> spc_nextreq, len |-> HDRSZ + 1])
  /\ sprw' = [sprw EXCEPT ![t] = [reqno |-> spc_nextreq, data |-> NoData, done |-> FALSE]]
  /\ spc_nextreq' = spc_nextreq + 1
  /\ spc_respwait' = Append(spc_respwait, t)
  /\ sendlockl(t)
  /\ UNCHANGED <<spc_state, rdvars, spcurlwp, wirevars, discopc>>

\* send_copyout_req(), send_raise_req() and the responses: no answer is
\* expected.  nextreq() is a section of its own.
send_copyout_req(t) ==
  /\ Begins(t, [class |-> "REQ", type |-> "COPYOUT", reqno |-> spc_nextreq, len |-> HDRSZ + 2])
  /\ spc_nextreq' = spc_nextreq + 1
  /\ sppc' = [sppc EXCEPT ![t] = "lock"]
  /\ UNCHANGED <<spc_state, spc_ostatus, spc_respwait, rdvars, spcurlwp, sprw, wirevars, discopc>>

send_resp(t) ==
  /\ \E len \in {HDRSZ, HDRSZ + 1} : Begins(t, [class |-> "RESP", type |-> "RESP", reqno |-> 0, len |-> len, by |-> t])
  /\ sppc' = [sppc EXCEPT ![t] = "lock"]
  /\ UNCHANGED <<spcvars, rdvars, spcurlwp, sprw, wirevars, discopc>>

\* What dosend keeps of the pieces when n bytes went out.
Advance(pieces, n) ==
  LET head == Head(pieces)
  IN IF n >= Len(head) THEN (IF n = Len(head) THEN Tail(pieces) ELSE <<SubSeq(pieces[2], n - Len(head) + 1, Len(pieces[2]))>>)
     ELSE <<SubSeq(head, n + 1, Len(head))>> \o Tail(pieces)

\* dosend() runs on an lwp of process 1 and goes on until everything is out.
dosend(t) ==
  /\ sppc[t] = "send"
  /\ \E n \in 1 .. Len(FlattenSeq(spiov[t])) :
       /\ wireout' = wireout \o SubSeq(FlattenSeq(spiov[t]), 1, n)
       /\ spiov' = [spiov EXCEPT ![t] = Advance(@, n)]
       /\ sppc' = [sppc EXCEPT ![t] = IF spiov'[t] = <<>> THEN "sent" ELSE "send"]
       /\ spcurlwp' = [spcurlwp EXCEPT ![t] = IF spiov'[t] = <<>> THEN "own" ELSE "proc1"]
  /\ UNCHANGED <<spcvars, rdvars, spop, sperror, sprw, wirein, asked, gone, cut, discopc, nsent>>

\* A call fails, on a dead connection or on one that lives: dosend leaves by its
\* label out, whatever it has sent of the frame.
dosend_error(t) ==
  /\ sppc[t] = "send"
  /\ sperror' = [sperror EXCEPT ![t] = 1]
  /\ sppc' = [sppc EXCEPT ![t] = "sent"]
  /\ spcurlwp' = [spcurlwp EXCEPT ![t] = "proc1"]
  /\ cut' = IF spiov[t] = Pieces(spop[t]) THEN cut ELSE cut \cup {spop[t]}
  /\ UNCHANGED <<spcvars, rdvars, spop, spiov, sprw, wireout, wirein, asked, gone, discopc, nsent>>

\* sendunlock() after a frame that has no answer.
sendunlock(t) ==
  /\ sppc[t] = "sent" /\ spop[t].type # "COPYIN"
  /\ sendunlockl([sppc EXCEPT ![t] = "idle"])
  /\ UNCHANGED <<spc_state, spc_nextreq, spc_respwait, rdvars, spop, spiov, sperror, spcurlwp, sprw, wirevars,
                 discopc, nsent>>

unputwait(t) ==
  /\ sppc[t] = "sent" /\ spop[t].type = "COPYIN" /\ sperror[t] # 0
  /\ sendunlockl([sppc EXCEPT ![t] = "idle"])
  /\ spc_respwait' = Remove(spc_respwait, t)
  /\ UNCHANGED <<spc_state, spc_nextreq, rdvars, spop, spiov, sperror, spcurlwp, sprw, wirevars,
                 discopc, nsent>>

\* Variant: the waiter does not look whether the connection is dying.
MustWait_NoState(t) == ~sprw[t].done

MustWait(t) == ~sprw[t].done /\ spc_state # "DYING"

\* waitresp(): give the lock back, and sleep until there is an answer or the
\* connection dies.
waitresp(t) ==
  /\ sppc[t] = "sent" /\ spop[t].type = "COPYIN" /\ sperror[t] = 0
  /\ sendunlockl([sppc EXCEPT ![t] = IF MustWait(t) THEN "rwait" ELSE "rwake"])
  /\ UNCHANGED <<spc_state, spc_nextreq, spc_respwait, rdvars, spop, spiov, sperror, spcurlwp, sprw, wirevars,
                 discopc, nsent>>

waitresp_done(t) ==
  /\ sppc[t] = "rwake" /\ ~MustWait(t)
  /\ sppc' = [sppc EXCEPT ![t] = "idle"]
  /\ spc_respwait' = Remove(spc_respwait, t)
  /\ sperror' = [sperror EXCEPT ![t] = IF spc_state = "DYING" THEN 1 ELSE 0]
  /\ UNCHANGED <<spc_state, spc_ostatus, spc_nextreq, rdvars, spop, spiov, spcurlwp, sprw, wirevars, discopc, nsent>>

-----------------------------------------------------------------------------
(* Receiving: the main loop                                                *)

spcresetbuf == spc_buf' = NoData /\ spc_off' = 0

Asker(reqno) == {t \in ToSet(spc_respwait) : sprw[t].reqno = reqno}

\* kickwaiter(): the frame becomes the property of the thread that asked.
kickwaiter(f) ==
  /\ \/ /\ Asker(f.reqno) = {}
        /\ UNCHANGED <<sprw, sppc>>
     \/ \E t \in Asker(f.reqno) :
          /\ sprw' = [sprw EXCEPT ![t].data = f, ![t].done = TRUE]
          /\ sppc' = [sppc EXCEPT ![t] = IF @ = "rwait" THEN "rwake" ELSE @]
  /\ spcresetbuf
  /\ spc_hdr' = f
  /\ UNCHANGED <<spcvars, spop, spiov, sperror, spcurlwp>>

\* readframe(): one read of at most what is left of the header, or of the
\* body; with the last byte of the header in hand it goes on to the body.
Left(off) == IF off < HDRSZ THEN HDRSZ - off ELSE spc_hdr.len - off

FrameDone(f, off) == off = f.len

Received(f, off) ==
  \/ /\ FrameDone(f, off)
     /\ kickwaiter([f EXCEPT !.got = off])
  \/ /\ ~FrameDone(f, off)
     /\ spc_hdr' = f /\ spc_off' = off
     /\ spc_buf' = IF off >= HDRSZ THEN f ELSE NoData
     /\ UNCHANGED <<spcvars, thvars, sprw>>

readframe ==
  /\ spc_state = "RUNNING" /\ wirein # <<>>
  /\ \E n \in 1 .. Min({Left(spc_off), Len(wirein)}) :
       LET f == wirein[1].frame
           off == spc_off + n
           body == IF spc_off < HDRSZ /\ off = HDRSZ THEN 0 .. Min({f.len - HDRSZ, Len(wirein) - n}) ELSE {0}
       IN \E m \in body :
            /\ wirein' = SubSeq(wirein, n + m + 1, Len(wirein))
            /\ Received(f, off + m)
  /\ UNCHANGED <<wireout, asked, gone, cut, discopc, nsent>>

\* The read fails or the client has closed.  serv_handledisco() wakes whoever
\* waits and frees the send lock, whoever has it, under spc_mtx ...
handledisco_wakes ==
  /\ spc_state = "RUNNING"
  /\ spc_state' = "DYING" /\ discopc' = "kicked"
  /\ sendunlockl([t \in SpThread |-> IF sppc[t] = "rwait" THEN "rwake" ELSE sppc[t]])
  /\ UNCHANGED <<spc_nextreq, spc_respwait, rdvars, spop, spiov, sperror, spcurlwp, sprw, wirevars, nsent>>

\* ... and, after the lwp has ended, clears what comes after spc_pfd, without it.
handledisco_wipes ==
  /\ discopc = "kicked" /\ discopc' = "wiped"
  /\ spc_ostatus' = "FREE" /\ spc_nextreq' = 0
  /\ spc_hdr' = NoData /\ spcresetbuf
  /\ UNCHANGED <<spc_state, spc_respwait, thvars, sprw, wirevars, nsent>>

-----------------------------------------------------------------------------
(* The client (external) reads whole frames and answers what it is asked,  *)
(* in any order.  What it does with a frame that was cut is its own        *)
(* business; it answers nothing any more.                                  *)

ClientReads ==
  /\ ~gone /\ wireout # <<>> /\ Len(wireout) >= wireout[1].frame.len
  /\ LET f == wireout[1].frame
     IN /\ SubSeq(wireout, 1, f.len) = Bytes(f, 1, f.len)
        /\ wireout' = SubSeq(wireout, f.len + 1, Len(wireout))
        /\ asked' = IF f.type = "COPYIN" THEN asked \cup {f.reqno} ELSE asked
  /\ UNCHANGED <<spcvars, rdvars, thvars, sprw, wirein, gone, cut, discopc, nsent>>

ClientAnswers ==
  /\ ~gone
  /\ \E r \in asked, len \in {HDRSZ + 1, HDRSZ + 2} :
       /\ asked' = asked \ {r}
       /\ wirein' = wirein \o Bytes([class |-> "RESP", reqno |-> r, len |-> len, got |-> 0], 1, len)
  /\ UNCHANGED <<spcvars, rdvars, thvars, sprw, wireout, gone, cut, discopc, nsent>>

ClientCloses ==
  /\ ~gone /\ gone' = TRUE
  /\ UNCHANGED <<spcvars, rdvars, thvars, sprw, wireout, wirein, asked, cut, discopc, nsent>>

-----------------------------------------------------------------------------
SPThreadStep(t) ==
  \/ relock(t) \/ putwait(t) \/ send_copyout_req(t) \/ send_resp(t) \/ dosend(t) \/ dosend_error(t)
  \/ sendunlock(t) \/ unputwait(t) \/ waitresp(t) \/ waitresp_done(t)

SPNext ==
  \/ \E t \in SpThread : SPThreadStep(t)
  \/ readframe \/ handledisco_wakes \/ handledisco_wipes \/ ClientReads \/ ClientAnswers \/ ClientCloses

SPSpec == SPInit /\ [][SPNext]_spwvars

-----------------------------------------------------------------------------
(* Properties                                                              *)

\* While the connection lives, frames of several threads never mix on the
\* wire, however dosend's writes are cut up: the next frame begins where one
\* ends, or where a failed send has left it.  A thread that waits for an answer
\* gets the answer to its own request, put together from all of its bytes.
FramesWhole ==
  spc_state = "RUNNING" =>
    /\ \A i \in 1 .. Len(wireout) - 1 :
         LET a == wireout[i] b == wireout[i + 1]
         IN \/ b = [frame |-> a.frame, at |-> a.at + 1]
            \/ b.at = 1 /\ (a.at = a.frame.len \/ a.frame \in cut)
    /\ \A t \in SpThread :
         sprw[t].done => sprw[t].data.reqno = sprw[t].reqno /\ sprw[t].data.got = sprw[t].data.len

\* No thread sleeps for an answer that has come or on a connection that is
\* gone, and none sleeps for a send lock whose holder would not wake it, until
\* serv_handledisco() wipes the lock.
NoStrandedSender ==
  \A t \in SpThread :
    /\ sppc[t] = "rwait" => ~sprw[t].done /\ spc_state = "RUNNING"
    /\ sppc[t] = "cvwait" => spc_ostatus = "WANTED" \/ discopc = "wiped"

\* Both: the send lock and the wait for an answer keep frames whole and wake
\* everyone they put to sleep.
ConnectionSound == FramesWhole /\ NoStrandedSender

\* Whoever sleeps for the send lock is woken by its holder, at any time.  The
\* comment in serv_handledisco() says that nobody sends any more when the
\* connection is wiped; a thread that takes the lock between the kick and the
\* wipe, with another one behind it, then wakes nobody.
SendersWoken == \A t \in SpThread : sppc[t] = "cvwait" => spc_ostatus = "WANTED"

\* A thread that has left dosend is on its own lwp again.
LwpRestored == \A t \in SpThread : sppc[t] \notin {"send", "lock", "cvwait"} => spcurlwp[t] = "own"
=============================================================================
