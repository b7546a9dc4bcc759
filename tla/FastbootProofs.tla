---------------------------- MODULE FastbootProofs ----------------------------
(***************************************************************************)
(* Fastboot's transfers and downloads, for downloads of any length: one    *)
(* transfer at a time, and no image but a sparse one is taken from a       *)
(* download that broke off; and what the host is told is the first verdict *)
(* of each handler.                                                        *)
(***************************************************************************)
EXTENDS Fastboot, SequenceTheorems, TLAPS

\* A packet is being written exactly when the handler stands at one.
WritesPacket == fb.pc = "writing" => fb.step \in 1..Len(fb.script) /\ Here \in Packets

\* What is not left to be read has been written to the buffer; the transfer
\* that is complete but not yet counted, too.
PartsAreFresh ==
  /\ fb.left <= fb.len
  /\ \A i \in 1..(fb.len - fb.left) : dl.fresh[i]
  /\ fb.pc = "receiving" =>
       /\ fb.left > 0
       /\ ev.done /\ txn.ok /\ ~txn.short => dl.fresh[fb.len - fb.left + 1]

\* download_size counts parts of the last download; what has been used of the
\* buffer, but for sparse images, was counted so when it was used.
BufferOK ==
  /\ \A i \in 1..dl.size : dl.fresh[i]
  /\ DownloadIsWhole

\* The inductive invariant.
FastbootInv ==
  FastbootTypeOK /\ OneTransfer /\ WritesPacket /\ PartsAreFresh /\ BufferOK

Links == [link : {"up", "down", "stopped"}, fault : BOOLEAN,
          req : {"none", "in", "out"}, stale : BOOLEAN]
Pcs == {"offline", "loop", "reading", "handling", "writing", "data", "receiving", "gone"}
Items == Packets \cup {"stop", "leave"}
Loops == [pc : Pcs, state : {"offline", "command", "complete", "error"}, known : BOOLEAN,
          script : Seq(Items), step : Nat \ {0}, left : 0..MaxTransfers,
          len : 0..MaxTransfers]

\* The handlers are sequences of packets, "stop" and "leave".
LEMMA ScriptTypes ==
  /\ \A c \in DOMAIN Scripts : \A s \in Scripts[c] : s \in Seq(Items)
  /\ <<"FAIL">> \in Seq(Items) /\ <<"DATA", "OKAY">> \in Seq(Items) /\ <<>> \in Seq(Items)
<1>1. /\ "INFO" \in Items /\ "DATA" \in Items /\ "OKAY" \in Items /\ "FAIL" \in Items
      /\ "stop" \in Items /\ "leave" \in Items
  BY DEF Items, Packets, Finals
<1>2. /\ <<"OKAY">> \in Seq(Items) /\ <<"FAIL">> \in Seq(Items) /\ <<>> \in Seq(Items)
      /\ <<"OKAY", "OKAY">> \in Seq(Items) /\ <<"FAIL", "OKAY">> \in Seq(Items)
      /\ <<"OKAY", "leave">> \in Seq(Items) /\ <<"FAIL", "leave">> \in Seq(Items)
      /\ <<"OKAY", "stop">> \in Seq(Items) /\ <<"DATA", "OKAY">> \in Seq(Items)
      /\ <<"FAIL", "OKAY", "OKAY">> \in Seq(Items)
      /\ <<"INFO", "INFO", "OKAY">> \in Seq(Items)
      /\ <<"OKAY", "stop", "leave">> \in Seq(Items)
  BY <1>1
<1>3. \A c \in DOMAIN Scripts : \A s \in Scripts[c] : s \in Seq(Items)
  <2>1. DOMAIN Scripts = {"getvar", "erase", "flash", "devinfo", "format", "reboot",
                          "boot", "continue"}
    BY DEF Scripts
  <2>2. Scripts["getvar"] = {<<"OKAY">>} /\ Scripts["reboot"] = {<<"OKAY", "leave">>}
    BY DEF Scripts
  <2>3. Scripts["erase"] = {<<"OKAY">>, <<"FAIL">>}
    BY DEF Scripts
  <2>4. Scripts["flash"] = {<<"OKAY", "OKAY">>, <<"FAIL", "OKAY">>,
                            <<"FAIL", "OKAY", "OKAY">>}
    BY DEF Scripts
  <2>5. /\ Scripts["devinfo"] = {<<"INFO", "INFO", "OKAY">>}
        /\ Scripts["format"] = {<<"OKAY", "leave">>, <<"FAIL", "leave">>}
    BY DEF Scripts
  <2>6. /\ Scripts["boot"] = {<<"FAIL">>, <<"OKAY", "stop", "leave">>}
        /\ Scripts["continue"] = {<<"OKAY", "stop", "leave">>, <<"OKAY", "stop">>}
    BY DEF Scripts
  <2>7. ASSUME NEW c \in DOMAIN Scripts, NEW s \in Scripts[c] PROVE s \in Seq(Items)
    <3>1. CASE c \in {"getvar", "reboot", "erase"}
      BY <1>2, <2>2, <2>3, <2>7, <3>1
    <3>2. CASE c = "flash"
      BY <1>2, <2>4, <2>7, <3>2
    <3>3. CASE c \in {"devinfo", "format"}
      BY <1>2, <2>5, <2>7, <3>3
    <3>4. CASE c \in {"boot", "continue"}
      BY <1>2, <2>6, <2>7, <3>4
    <3>5. QED BY <2>1, <2>7, <3>1, <3>2, <3>3, <3>4
  <2>8. QED BY <2>7
<1>4. QED
  BY <1>2, <1>3

LEMMA FastbootInitOK == FastbootInit => FastbootInv
<1>1. SUFFICES ASSUME FastbootInit PROVE FastbootInv
  OBVIOUS
<1>2. FastbootTypeOK
  BY <1>1, ScriptTypes, FastbootAssumption
  DEF FastbootInit, FastbootTypeOK, Items, Buffers, EmptyBuffer
<1>3. QED
  BY <1>1, <1>2, FastbootAssumption
  DEF FastbootInit, EmptyBuffer, FastbootInv, OneTransfer, Waiting, WritesPacket, PartsAreFresh,
      BufferOK, DownloadIsWhole

-----------------------------------------------------------------------------
(* One lemma per action.  All that an action does to the thread is a new    *)
(* record; that it has the type of one is shown first.                      *)

LEMMA FastbootTypes ==
  ASSUME FastbootTypeOK
  PROVE  /\ usb \in Links /\ fb \in Loops /\ told \in Seq(Packets)
         /\ usb.link \in {"up", "down", "stopped"} /\ usb.fault \in BOOLEAN
         /\ usb.req \in {"none", "in", "out"} /\ usb.stale \in BOOLEAN
         /\ ev.online \in BOOLEAN /\ ev.done \in BOOLEAN
         /\ fb.script \in Seq(Items) /\ fb.step \in Nat \ {0} /\ Len(fb.script) \in Nat
         /\ fb.left \in 0..MaxTransfers /\ fb.len \in 0..MaxTransfers
<1>1. usb \in Links /\ fb \in Loops /\ told \in Seq(Packets)
  BY DEF FastbootTypeOK, Links, Loops, Pcs, Items
<1>2. QED
  BY <1>1 DEF FastbootTypeOK, Links, Loops

\* Queueing a request, or failing to.
LEMMA Queued ==
  ASSUME FastbootTypeOK, NEW dir \in {"in", "out"}
  PROVE  /\ Accept(dir) => usb' \in Links /\ usb'.req = dir
         /\ Refuse => usb' \in Links /\ usb'.req = usb.req
<1> DEFINE stale == usb.link # "up"
           fault == usb.fault \/ usb.link = "up"
<1>1. stale \in BOOLEAN /\ fault \in BOOLEAN
  OBVIOUS
<1>2. /\ Accept(dir) => usb' = [usb EXCEPT !.req = dir, !.stale = stale]
      /\ Refuse => usb' = [usb EXCEPT !.fault = fault]
  BY DEF Accept, Refuse
<1> HIDE DEF stale, fault
<1>3. QED
  BY <1>1, <1>2, FastbootTypes DEF Links

LEMMA CompleteOK ==
  ASSUME FastbootInv, NEW ok \in BOOLEAN, NEW short \in BOOLEAN, Complete(ok, short)
  PROVE  FastbootInv'
<1> USE DEF FastbootInv
<1>1. usb.req # "none" /\ ~ev.done /\ Waiting /\ fb' = fb
  BY DEF Complete, OneTransfer
<1>2. usb.req = "in" <=> fb.pc = "writing"
  BY <1>1 DEF OneTransfer
<1>3. FastbootTypeOK'
  <2> DEFINE fault == usb.fault \/ (usb.link = "up" /\ ~usb.stale /\ (short \/ ~ok))
  <2>0. fault \in BOOLEAN /\ usb' = [usb EXCEPT !.req = "none", !.stale = FALSE, !.fault = fault]
    BY DEF Complete
  <2> HIDE DEF fault
  <2>1. /\ usb' \in Links /\ ev' \in [online : BOOLEAN, done : BOOLEAN]
        /\ txn' \in [ok : BOOLEAN, short : BOOLEAN]
    BY <2>0, FastbootTypes DEF Complete, Links, FastbootTypeOK
  <2>2. told' \in Seq(Packets)
    BY <1>2, FastbootTypes DEF Complete, WritesPacket, Here
  <2>3. dl' \in Buffers
    BY FastbootTypes DEF Complete, FastbootTypeOK, Buffers
  <2>4. QED
    BY <1>1, <2>1, <2>2, <2>3 DEF FastbootTypeOK, Links
<1>4. OneTransfer' /\ WritesPacket'
  BY <1>1, FastbootTypes DEF Complete, OneTransfer, Waiting, WritesPacket, Here, FastbootTypeOK
<1>5. /\ dl'.size = dl.size /\ dl'.use = dl.use
      /\ \A i \in 1..MaxTransfers : dl.fresh[i] => dl'.fresh[i]
  BY FastbootTypes DEF Complete, FastbootTypeOK, Buffers
<1>6. PartsAreFresh'
  <2>1. ASSUME fb.pc = "receiving", ok, ~short PROVE dl'.fresh[fb.len - fb.left + 1]
    <3>1. dl' = [dl EXCEPT !.fresh[fb.len - fb.left + 1] = TRUE]
      BY <2>1 DEF Complete
    <3>2. fb.len - fb.left + 1 \in 1..MaxTransfers
      BY <2>1, FastbootTypes, FastbootAssumption DEF PartsAreFresh
    <3>3. QED BY <3>1, <3>2 DEF FastbootTypeOK, Buffers
  <2>2. txn'.ok = ok /\ txn'.short = short
    BY DEF Complete
  <2>3. \A i \in 1..(fb.len - fb.left) : i \in 1..MaxTransfers
    BY FastbootTypes, FastbootAssumption
  <2>4. QED
    BY <1>1, <1>5, <2>1, <2>2, <2>3, FastbootTypes DEF PartsAreFresh
<1>7. BufferOK'
  <2>1. \A i \in 1..dl.size : i \in 1..MaxTransfers
    BY FastbootAssumption DEF FastbootTypeOK, Buffers
  <2>2. QED
    BY <1>5, <2>1 DEF BufferOK, DownloadIsWhole
<1>8. QED
  BY <1>3, <1>4, <1>6, <1>7

\* A step of the thread, or of the link, that touches neither the buffer nor a
\* transfer.
LEMMA LinkUpOK ==
  ASSUME FastbootInv, LinkUp
  PROVE  FastbootInv'
<1> USE DEF FastbootInv
<1>1. FastbootTypeOK'
  <2>1. usb' \in Links
    BY FastbootTypes DEF LinkUp, Links
  <2>2. ev' \in [online : BOOLEAN, done : BOOLEAN]
    BY DEF LinkUp, FastbootTypeOK
  <2>3. QED
    BY <2>1, <2>2 DEF LinkUp, FastbootTypeOK, Links
<1>2. QED
  BY <1>1 DEF LinkUp, FastbootTypeOK, OneTransfer, Waiting, WritesPacket, Here, PartsAreFresh,
              BufferOK, DownloadIsWhole

LEMMA LinkDownOK ==
  ASSUME FastbootInv, LinkDown
  PROVE  FastbootInv'
<1> USE DEF FastbootInv
<1>1. usb' \in Links /\ usb'.req = usb.req
  BY FastbootTypes DEF LinkDown, Links
<1>2. FastbootTypeOK'
  BY <1>1 DEF LinkDown, FastbootTypeOK, Links
<1>3. QED
  BY <1>1, <1>2 DEF LinkDown, OneTransfer, Waiting, WritesPacket, Here, PartsAreFresh,
                    BufferOK, DownloadIsWhole

LEMMA PowerOnOK ==
  ASSUME FastbootInv, PowerOn
  PROVE  FastbootInv'
<1> USE DEF FastbootInv
<1>1. FastbootTypeOK'
  BY ScriptTypes, FastbootAssumption DEF PowerOn, FastbootTypeOK, Items, Buffers, EmptyBuffer
<1>2. QED
  BY <1>1, FastbootAssumption
  DEF PowerOn, EmptyBuffer, OneTransfer, Waiting, WritesPacket, PartsAreFresh, BufferOK, DownloadIsWhole

\* A step of the thread that waits for no transfer before it or after it.
LEMMA NoTransfer ==
  ASSUME FastbootInv, ~Waiting, fb' \in Loops, ~Waiting', usb' \in Links, usb'.req = usb.req,
         ev' \in [online : BOOLEAN, done : BOOLEAN], ev'.done = ev.done, txn' = txn, told' = told,
         dl' = dl, fb'.left = fb.left, fb'.len = fb.len
  PROVE  FastbootInv'
<1>1. FastbootTypeOK'
  BY DEF FastbootInv, FastbootTypeOK, Loops, Links, Pcs, Items
<1>2. OneTransfer' /\ WritesPacket'
  BY DEF FastbootInv, OneTransfer, WritesPacket, Waiting
<1>3. PartsAreFresh' /\ BufferOK'
  BY DEF FastbootInv, PartsAreFresh, BufferOK, DownloadIsWhole, Waiting
<1>4. QED
  BY <1>1, <1>2, <1>3 DEF FastbootInv

\* A step of the thread that queues a request.
LEMMA BeginsTransfer ==
  ASSUME FastbootInv, ~Waiting, NEW dir \in {"in", "out"}, Accept(dir),
         fb' \in Loops, Waiting', dir = "in" <=> fb'.pc = "writing", WritesPacket',
         fb'.pc = "receiving" => fb'.left > 0,
         UNCHANGED <<ev, txn, dl, told>>, fb'.left = fb.left, fb'.len = fb.len
  PROVE  FastbootInv'
<1>1. usb' \in Links /\ usb'.req = dir
  BY Queued DEF FastbootInv
<1>2. FastbootTypeOK'
  BY <1>1 DEF FastbootInv, FastbootTypeOK, Loops, Links, Pcs, Items
<1>3. ~ev.done /\ OneTransfer'
  BY <1>1 DEF FastbootInv, OneTransfer, Waiting
<1>4. PartsAreFresh' /\ BufferOK'
  BY <1>3 DEF FastbootInv, PartsAreFresh, BufferOK, DownloadIsWhole
<1>5. QED
  BY <1>2, <1>3, <1>4 DEF FastbootInv

\* A step of the thread that takes the completion of its request.
LEMMA EndsTransfer ==
  ASSUME FastbootInv, Waiting, ev.done, ev' = [ev EXCEPT !.done = FALSE], fb' \in Loops,
         ~Waiting', UNCHANGED <<usb, txn>>
  PROVE  /\ OneTransfer' /\ WritesPacket'
         /\ told' \in Seq(Packets) /\ dl' \in Buffers
              => FastbootTypeOK'
<1>1. ev' \in [online : BOOLEAN, done : BOOLEAN] /\ ~ev'.done
  BY DEF FastbootInv, FastbootTypeOK
<1>2. OneTransfer' /\ WritesPacket'
  BY <1>1 DEF FastbootInv, OneTransfer, WritesPacket, Waiting
<1>3. ASSUME told' \in Seq(Packets),
             dl' \in Buffers
      PROVE  FastbootTypeOK'
  BY <1>1, <1>3 DEF FastbootInv, FastbootTypeOK, Loops, Pcs, Items
<1>4. QED
  BY <1>2, <1>3

LEMMA WaitOnlineOK ==
  ASSUME FastbootInv, WaitOnline
  PROVE  FastbootInv'
BY NoTransfer, FastbootTypes
DEF WaitOnline, FastbootInv, FastbootTypeOK, Waiting, Loops, Pcs

LEMMA LeftLoopType ==
  ASSUME FastbootInv
  PROVE  LeftLoop \in Loops /\ LeftLoop.pc = "offline" /\ LeftLoop.left = fb.left
         /\ LeftLoop.len = fb.len
BY FastbootTypes DEF FastbootInv, LeftLoop, Loops, Pcs

LEMMA LoopOK ==
  ASSUME FastbootInv, Loop
  PROVE  FastbootInv'
<1>1. ~Waiting /\ UNCHANGED <<ev, txn, dl, told>>
  BY DEF Loop, Waiting
<1>2. ev \in [online : BOOLEAN, done : BOOLEAN]
  BY DEF FastbootInv, FastbootTypeOK
<1>3. CASE fb' = LeftLoop /\ (UNCHANGED usb \/ Refuse)
  <2>1. usb' \in Links /\ usb'.req = usb.req
    BY <1>3, Queued, FastbootTypes DEF FastbootInv
  <2>2. QED
    BY <1>1, <1>2, <1>3, <2>1, LeftLoopType, NoTransfer DEF Waiting
<1>4. CASE fb' = [fb EXCEPT !.pc = "reading"] /\ Accept("out")
  <2>1. fb' \in Loops /\ fb'.pc = "reading" /\ fb'.left = fb.left /\ fb'.len = fb.len
    BY <1>4, FastbootTypes DEF FastbootInv, Loops, Pcs
  <2>2. QED
    BY <1>1, <1>4, <2>1, BeginsTransfer DEF Waiting, WritesPacket
<1>5. QED
  BY <1>3, <1>4 DEF Loop

\* Going on to the next item of the handler changes nothing but the position.
LEMMA NextItem ==
  ASSUME NEW f \in Loops
  PROVE  LET g == [f EXCEPT !.step = f.step + 1] IN
           g \in Loops /\ g.pc = f.pc /\ g.left = f.left /\ g.len = f.len
<1>1. f.step + 1 \in Nat \ {0}
  BY DEF Loops
<1>2. QED
  BY <1>1 DEF Loops

\* A handler that sends its FAIL, or goes back to the loop.
LEMMA LastItem ==
  ASSUME NEW f \in Loops, NEW q \in Seq(Items)
  PROVE  /\ LET g == [f EXCEPT !.script = q] IN
              g \in Loops /\ g.pc = f.pc /\ g.left = f.left /\ g.len = f.len
         /\ LET g == [f EXCEPT !.pc = "loop"] IN
              g \in Loops /\ g.pc = "loop" /\ g.left = f.left /\ g.len = f.len
<1>1. LET g == [f EXCEPT !.script = q] IN
        g \in Loops /\ g.pc = f.pc /\ g.left = f.left /\ g.len = f.len
  BY DEF Loops
<1>2. LET g == [f EXCEPT !.pc = "loop"] IN
        g \in Loops /\ g.pc = "loop" /\ g.left = f.left /\ g.len = f.len
  BY DEF Loops, Pcs
<1>3. QED
  BY <1>1, <1>2

LEMMA HandlerReturnsOK ==
  ASSUME FastbootInv, HandlerReturns
  PROVE  FastbootInv'
<1>1. fb' \in Loops /\ fb'.pc \in {"handling", "loop"} /\ fb'.left = fb.left /\ fb'.len = fb.len
  <2> DEFINE longer == Append(fb.script, "FAIL")
  <2>1. "FAIL" \in Items
    BY DEF Items, Packets, Finals
  <2>2. longer \in Seq(Items)
    BY <2>1, FastbootTypes DEF FastbootInv
  <2>3. \/ fb' = [fb EXCEPT !.script = longer]
        \/ fb' = [fb EXCEPT !.pc = "loop"]
    BY DEF HandlerReturns
  <2>4. fb.pc = "handling"
    BY DEF HandlerReturns
  <2> HIDE DEF longer
  <2>5. fb \in Loops
    BY FastbootTypes DEF FastbootInv
  <2>6. CASE fb' = [fb EXCEPT !.script = longer]
    <3>1. fb' \in Loops /\ fb'.pc = fb.pc /\ fb'.left = fb.left /\ fb'.len = fb.len
      BY <2>2, <2>5, <2>6, LastItem, Zenon
    <3>2. QED
      BY <2>4, <3>1
  <2>7. CASE fb' = [fb EXCEPT !.pc = "loop"]
    <3>1. fb' \in Loops /\ fb'.pc = "loop" /\ fb'.left = fb.left /\ fb'.len = fb.len
      BY <2>2, <2>5, <2>7, LastItem, Zenon
    <3>2. QED
      BY <3>1
  <2>8. QED
    BY <2>3, <2>6, <2>7
<1>2. QED
  BY <1>1, NoTransfer, FastbootTypes
  DEF HandlerReturns, FastbootInv, FastbootTypeOK, Waiting

LEMMA SendNothingOK ==
  ASSUME FastbootInv, SendNothing
  PROVE  FastbootInv'
<1>1. fb' \in Loops /\ fb'.pc = "handling" /\ fb'.left = fb.left /\ fb'.len = fb.len
  <2>1. fb' = [fb EXCEPT !.step = fb.step + 1] /\ fb.pc = "handling"
    BY DEF SendNothing, AtPacket
  <2>2. fb \in Loops
    BY FastbootTypes DEF FastbootInv
  <2>3. QED
    BY <2>1, <2>2, NextItem
<1>2. QED
  BY <1>1, NoTransfer, FastbootTypes
  DEF SendNothing, AtPacket, FastbootInv, FastbootTypeOK, Waiting

LEMMA StopOK ==
  ASSUME FastbootInv, Stop
  PROVE  FastbootInv'
<1>1. fb' \in Loops /\ fb'.pc = "handling" /\ fb'.left = fb.left /\ fb'.len = fb.len
  <2>1. fb' = [fb EXCEPT !.step = fb.step + 1] /\ fb.pc = "handling"
    BY DEF Stop
  <2>2. fb \in Loops
    BY FastbootTypes DEF FastbootInv
  <2>3. QED
    BY <2>1, <2>2, NextItem
<1>2. usb' \in Links /\ usb'.req = usb.req
  BY FastbootTypes DEF Stop, FastbootInv, Links
<1>3. QED
  BY <1>1, <1>2, NoTransfer DEF Stop, FastbootInv, FastbootTypeOK, Waiting

LEMMA LeaveOK ==
  ASSUME FastbootInv, Leave
  PROVE  FastbootInv'
<1>1. fb' \in Loops /\ fb'.pc = "gone" /\ fb'.left = fb.left /\ fb'.len = fb.len
  BY FastbootTypes DEF Leave, FastbootInv, Loops, Pcs
<1>2. QED
  BY <1>1, NoTransfer, FastbootTypes
  DEF Leave, FastbootInv, FastbootTypeOK, Waiting

LEMMA WriteFailedType ==
  ASSUME FastbootInv
  PROVE  WriteFailed \in Loops /\ WriteFailed.pc = "handling" /\ WriteFailed.left = fb.left
         /\ WriteFailed.len = fb.len
<1> DEFINE n == IF Here = "DATA" THEN Len(fb.script) + 1 ELSE fb.step + 1
<1>1. n \in Nat \ {0} /\ WriteFailed = [fb EXCEPT !.pc = "handling", !.state = "error", !.step = n]
  BY FastbootTypes DEF FastbootInv, WriteFailed
<1> HIDE DEF n
<1>2. QED
  BY <1>1, FastbootTypes DEF FastbootInv, Loops, Pcs

LEMMA DownloadFailedType ==
  ASSUME FastbootInv
  PROVE  DownloadFailed \in Loops /\ DownloadFailed.pc = "handling"
         /\ DownloadFailed.left = fb.left /\ DownloadFailed.len = fb.len
<1> DEFINE n == Len(fb.script) + 1
<1>1. n \in Nat \ {0}
  BY FastbootTypes DEF FastbootInv
<1> HIDE DEF n
<1>2. DownloadFailed = [fb EXCEPT !.pc = "handling", !.state = "error", !.step = n]
  BY DEF DownloadFailed, n
<1>3. QED
  BY <1>1, <1>2, FastbootTypes DEF FastbootInv, Loops, Pcs

LEMMA SendOK ==
  ASSUME FastbootInv, Send
  PROVE  FastbootInv'
<1>1. ~Waiting /\ UNCHANGED <<ev, txn, dl, told>> /\ AtPacket
  BY DEF Send, AtPacket, Waiting
<1>2. ev \in [online : BOOLEAN, done : BOOLEAN]
  BY DEF FastbootInv, FastbootTypeOK
<1>3. CASE Refuse /\ fb' = WriteFailed
  <2>1. usb' \in Links /\ usb'.req = usb.req
    BY <1>3, Queued DEF FastbootInv
  <2>2. QED
    BY <1>1, <1>2, <1>3, <2>1, WriteFailedType, NoTransfer DEF Waiting
<1>4. CASE Accept("in") /\ fb' = [fb EXCEPT !.pc = "writing",
                                     !.state = IF Here \in Finals THEN "complete" ELSE @]
  <2>1. /\ fb' \in Loops /\ fb'.pc = "writing" /\ fb'.left = fb.left /\ fb'.len = fb.len
        /\ fb'.script = fb.script /\ fb'.step = fb.step
    BY <1>4, FastbootTypes DEF FastbootInv, Loops, Pcs
  <2>2. WritesPacket'
    BY <1>1, <2>1, FastbootTypes DEF WritesPacket, AtPacket, Here, FastbootInv
  <2>3. QED
    BY <1>1, <1>4, <2>1, <2>2, BeginsTransfer DEF Waiting
<1>5. QED
  BY <1>3, <1>4 DEF Send

LEMMA SentOK ==
  ASSUME FastbootInv, Sent
  PROVE  FastbootInv'
<1>1. Waiting /\ ev.done /\ ev' = [ev EXCEPT !.done = FALSE] /\ UNCHANGED <<usb, txn, dl, told>>
  BY DEF Sent, Waiting
<1>2. fb' \in Loops /\ fb'.pc \in {"handling", "data"} /\ fb'.left = fb.left /\ fb'.len = fb.len
  <2> DEFINE n == fb.step + 1
  <2>1. n \in Nat \ {0}
    BY FastbootTypes DEF FastbootInv
  <2>2. \/ fb' = WriteFailed
        \/ fb' = [fb EXCEPT !.pc = "data"]
        \/ fb' = [fb EXCEPT !.pc = "handling", !.step = n]
    BY DEF Sent
  <2> HIDE DEF n
  <2>3. QED
    BY <2>1, <2>2, WriteFailedType, FastbootTypes DEF FastbootInv, Loops, Pcs
<1>3. OneTransfer' /\ WritesPacket' /\ FastbootTypeOK'
  BY <1>1, <1>2, EndsTransfer DEF Waiting, FastbootInv, FastbootTypeOK
<1>4. PartsAreFresh' /\ BufferOK'
  BY <1>1, <1>2 DEF FastbootInv, PartsAreFresh, BufferOK, DownloadIsWhole
<1>5. QED
  BY <1>3, <1>4 DEF FastbootInv

LEMMA ReceivedOK ==
  ASSUME FastbootInv, Received
  PROVE  FastbootInv'
<1>1. /\ Waiting /\ ev.done /\ ev' = [ev EXCEPT !.done = FALSE] /\ UNCHANGED <<usb, txn, dl, told>>
      /\ fb.pc = "receiving"
  BY DEF Received, Waiting
<1>2. fb.left > 0
  BY <1>1 DEF FastbootInv, PartsAreFresh
<1>3. CASE txn.ok /\ ~txn.short
  <2>1. /\ fb' \in Loops /\ fb'.pc = "data" /\ fb'.left = fb.left - 1 /\ fb'.len = fb.len
    <3> DEFINE n == fb.left - 1
    <3>1. n \in 0..MaxTransfers
      BY <1>2, FastbootTypes, FastbootAssumption DEF FastbootInv
    <3>2. fb' = [fb EXCEPT !.pc = "data", !.left = n]
      BY <1>3 DEF Received
    <3> HIDE DEF n
    <3>3. fb' \in Loops /\ fb'.pc = "data" /\ fb'.left = n /\ fb'.len = fb.len
      BY <3>1, <3>2, FastbootTypes DEF FastbootInv, Loops, Pcs
    <3>4. QED BY <3>3 DEF n
  <2>2. dl.fresh[fb.len - fb.left + 1]
    BY <1>1, <1>3 DEF FastbootInv, PartsAreFresh
  <2>3. PartsAreFresh'
    BY <1>1, <2>1, <2>2, FastbootTypes, FastbootAssumption, SMTT(30) DEF FastbootInv, PartsAreFresh
  <2>4. OneTransfer' /\ WritesPacket' /\ FastbootTypeOK'
    BY <1>1, <2>1, EndsTransfer DEF Waiting, FastbootInv, FastbootTypeOK
  <2>5. QED
    BY <1>1, <2>3, <2>4 DEF FastbootInv, BufferOK, DownloadIsWhole
<1>4. CASE ~(txn.ok /\ ~txn.short)
  <2>1. fb' = DownloadFailed
    BY <1>4 DEF Received
  <2>2. OneTransfer' /\ WritesPacket' /\ FastbootTypeOK'
    BY <1>1, <2>1, DownloadFailedType, EndsTransfer DEF Waiting, FastbootInv, FastbootTypeOK
  <2>3. QED
    BY <1>1, <2>1, <2>2, DownloadFailedType DEF FastbootInv, PartsAreFresh, BufferOK, DownloadIsWhole
<1>5. QED
  BY <1>3, <1>4

LEMMA ReceiveOK ==
  ASSUME FastbootInv, Receive
  PROVE  FastbootInv'
<1>1. ~Waiting /\ UNCHANGED <<ev, txn, told>>
  BY DEF Receive, Waiting
<1>2. ev \in [online : BOOLEAN, done : BOOLEAN]
  BY DEF FastbootInv, FastbootTypeOK
<1>3. CASE fb.left = 0 /\ UNCHANGED usb
  <2>1. /\ fb' = [fb EXCEPT !.pc = "handling", !.step = @ + 1]
        /\ dl' = [dl EXCEPT !.size = fb.len]
    BY <1>3, FastbootTypes DEF FastbootInv, Receive
  <2>2. fb' \in Loops /\ fb'.pc = "handling" /\ fb'.left = fb.left /\ fb'.len = fb.len
    <3> DEFINE n == fb.step + 1
    <3>1. n \in Nat \ {0} /\ fb' = [fb EXCEPT !.pc = "handling", !.step = n]
      BY <2>1, FastbootTypes DEF FastbootInv
    <3> HIDE DEF n
    <3>2. QED BY <3>1, FastbootTypes DEF FastbootInv, Loops, Pcs
  <2>3. /\ dl' \in Buffers
        /\ dl'.size = fb.len /\ dl'.fresh = dl.fresh /\ dl'.use = dl.use
    BY <2>1, FastbootTypes DEF FastbootInv, FastbootTypeOK, Buffers
  <2>4. FastbootTypeOK' /\ OneTransfer' /\ WritesPacket'
    BY <1>1, <1>3, <2>2, <2>3
    DEF FastbootInv, FastbootTypeOK, OneTransfer, WritesPacket, Waiting, Loops, Pcs, Items
  <2>5. PartsAreFresh' /\ BufferOK'
    BY <1>1, <1>3, <2>2, <2>3, FastbootTypes DEF FastbootInv, PartsAreFresh, BufferOK, DownloadIsWhole
  <2>6. QED
    BY <2>4, <2>5 DEF FastbootInv
<1>4. CASE fb.left > 0 /\ Accept("out") /\ fb' = [fb EXCEPT !.pc = "receiving"] /\ UNCHANGED dl
  <2>1. fb' \in Loops /\ fb'.pc = "receiving" /\ fb'.left = fb.left /\ fb'.len = fb.len
    BY <1>4, FastbootTypes DEF FastbootInv, Loops, Pcs
  <2>2. QED
    BY <1>1, <1>4, <2>1, BeginsTransfer DEF Waiting, WritesPacket
<1>5. CASE Refuse /\ fb' = DownloadFailed /\ UNCHANGED dl
  <2>1. usb' \in Links /\ usb'.req = usb.req
    BY <1>5, Queued DEF FastbootInv
  <2>2. QED
    BY <1>1, <1>2, <1>5, <2>1, DownloadFailedType, NoTransfer DEF Waiting
<1>6. QED
  BY <1>3, <1>4, <1>5 DEF Receive

\* A handler is begun: the parts still to be read are as many as its download.
LEMMA DispatchType ==
  ASSUME FastbootInv, NEW known \in BOOLEAN, NEW state \in {"offline", "command", "complete", "error"},
         NEW script \in Seq(Items), NEW len \in 0..MaxTransfers,
         Dispatch(known, state, script, len)
  PROVE  fb' \in Loops /\ fb'.pc = "handling" /\ fb'.left = len /\ fb'.len = len
<1> DEFINE one == 1
<1>1. one \in Nat \ {0}
  OBVIOUS
<1>2. fb' = [fb EXCEPT !.pc = "handling", !.state = state, !.known = known,
                       !.script = script, !.step = one, !.left = len, !.len = len]
  BY DEF Dispatch
<1> HIDE DEF one
<1>3. QED
  BY <1>1, <1>2, FastbootTypes DEF FastbootInv, Loops, Pcs

\* A handler uses the whole of a whole download, or a sparse image.
LEMMA UseOK ==
  ASSUME FastbootTypeOK, BufferOK, NEW c, NEW s, UseBuffer(c, s)
  PROVE  dl' \in Buffers /\ (dl' = dl \/ BufferOK')
<1>1. \/ dl' = dl
      \/ \E n \in 0..dl.size : Uses(FALSE, n)
      \/ \E n \in 1..MaxTransfers : Uses(TRUE, n)
  <2>1. dl.size \in 0..dl.size /\ \A n \in 1..dl.size : n \in 0..dl.size
    BY FastbootAssumption DEF FastbootTypeOK, Buffers
  <2>2. QED
    BY <2>1 DEF UseBuffer
<1>2. ASSUME NEW sparse \in BOOLEAN, NEW n \in Nat, Uses(sparse, n), ~sparse => n \in 0..dl.size
      PROVE  dl' \in Buffers /\ BufferOK'
  <2> DEFINE whole == \A i \in 1..n : dl.fresh[i]
  <2>1. whole \in BOOLEAN /\ dl' = [dl EXCEPT !.use = [sparse |-> sparse, whole |-> whole]]
    BY <1>2 DEF Uses
  <2>2. ~sparse => whole
    <3>1. ~sparse => \A i \in 1..n : i \in 1..dl.size
      BY <1>2, FastbootAssumption DEF FastbootTypeOK, Buffers
    <3>2. QED
      BY <3>1 DEF BufferOK
  <2> HIDE DEF whole
  <2>3. dl' \in Buffers /\ dl'.size = dl.size /\ dl'.fresh = dl.fresh
        /\ dl'.use.sparse = sparse /\ dl'.use.whole = whole
    BY <2>1 DEF FastbootTypeOK, Buffers
  <2>4. QED
    BY <2>2, <2>3 DEF BufferOK, DownloadIsWhole
<1>3. dl \in Buffers /\ \A n \in 0..dl.size : n \in Nat
  BY FastbootAssumption DEF FastbootTypeOK, Buffers
<1>4. CASE dl' = dl
  BY <1>3, <1>4
<1>5. ASSUME NEW n \in 0..dl.size, Uses(FALSE, n) PROVE dl' \in Buffers /\ BufferOK'
  BY <1>2, <1>3, <1>5
<1>6. ASSUME NEW n \in 1..MaxTransfers, Uses(TRUE, n) PROVE dl' \in Buffers /\ BufferOK'
  <2>1. n \in Nat /\ TRUE \in BOOLEAN
    BY FastbootAssumption
  <2>2. QED
    BY <1>2, <1>6, <2>1
<1>7. QED
  BY <1>1, <1>4, <1>5, <1>6

LEMMA CommandReadOK ==
  ASSUME FastbootInv, CommandRead
  PROVE  FastbootInv'
<1>1. Waiting /\ ev.done /\ ev' = [ev EXCEPT !.done = FALSE] /\ UNCHANGED <<usb, txn>>
      /\ fb.pc = "reading"
  BY DEF CommandRead, Waiting
<1>2. CASE fb' = LeftLoop /\ UNCHANGED <<dl, told>>
  <2>1. OneTransfer' /\ WritesPacket' /\ FastbootTypeOK'
    BY <1>1, <1>2, LeftLoopType, EndsTransfer DEF Waiting, FastbootInv, FastbootTypeOK
  <2>2. PartsAreFresh' /\ BufferOK'
    BY <1>1, <1>2, LeftLoopType DEF FastbootInv, PartsAreFresh, BufferOK, DownloadIsWhole
  <2>3. QED
    BY <2>1, <2>2 DEF FastbootInv
<1>3. ASSUME told' = <<>>, NEW len \in 0..MaxTransfers,
             fb' \in Loops, fb'.pc = "handling", fb'.left = len, fb'.len = len,
             dl' \in Buffers,
             dl' = dl \/ (dl'.size = 0 /\ dl'.use = dl.use) \/ BufferOK'
      PROVE  FastbootInv'
  <2>1. OneTransfer' /\ WritesPacket' /\ FastbootTypeOK'
    BY <1>1, <1>3, EndsTransfer DEF Waiting
  <2>2. PartsAreFresh'
    BY <1>3, FastbootAssumption DEF PartsAreFresh
  <2>3. BufferOK'
    BY <1>3 DEF FastbootInv, BufferOK, DownloadIsWhole
  <2>4. QED
    BY <2>1, <2>2, <2>3 DEF FastbootInv
<1>4. dl \in Buffers /\ 0 \in 0..MaxTransfers
      /\ fb.state \in {"offline", "command", "complete", "error"}
  BY FastbootAssumption DEF FastbootInv, FastbootTypeOK
<1>5. CASE told' = <<>> /\ UNCHANGED dl /\ Dispatch(FALSE, fb.state, <<"FAIL">>, 0)
  BY <1>3, <1>4, <1>5, DispatchType, ScriptTypes
<1>6. CASE /\ told' = <<>>
           /\ \E c \in DOMAIN Scripts : \E s \in Scripts[c] :
                Dispatch(TRUE, "command", s, 0) /\ UseBuffer(c, s)
  <2>1. PICK c \in DOMAIN Scripts, s \in Seq(Items) :
          Dispatch(TRUE, "command", s, 0) /\ UseBuffer(c, s)
    BY <1>6, ScriptTypes
  <2>2. dl' \in Buffers /\ (dl' = dl \/ BufferOK')
    BY <2>1, UseOK DEF FastbootInv
  <2>3. QED
    BY <1>3, <1>4, <1>6, <2>1, <2>2, DispatchType
<1>7. CASE told' = <<>> /\ Download
  <2>1. CASE Dispatch(TRUE, "command", <<"FAIL">>, 0) /\ dl' = [dl EXCEPT !.size = 0]
    <3>1. dl' \in Buffers /\ dl'.size = 0 /\ dl'.use = dl.use
      BY <1>4, <2>1 DEF Buffers
    <3>2. QED BY <1>3, <1>4, <1>7, <2>1, <3>1, DispatchType, ScriptTypes
  <2>2. ASSUME NEW len \in 0..MaxTransfers, Dispatch(TRUE, "command", <<"DATA", "OKAY">>, len),
               dl' = [dl EXCEPT !.size = 0, !.fresh = [i \in 1..MaxTransfers |-> FALSE]]
        PROVE  FastbootInv'
    <3>1. dl' \in Buffers /\ dl'.size = 0 /\ dl'.use = dl.use
      BY <1>4, <2>2 DEF Buffers
    <3>2. QED BY <1>3, <1>4, <1>7, <2>2, <3>1, DispatchType, ScriptTypes
  <2>3. QED
    BY <1>7, <2>1, <2>2 DEF Download
<1>8. QED
  BY <1>2, <1>5, <1>6, <1>7 DEF CommandRead

-----------------------------------------------------------------------------

\* The invariant holds whatever the host and the link do.
THEOREM FastbootInvariant == FastbootSpec => []FastbootInv
<1>1. FastbootInit => FastbootInv
  BY FastbootInitOK
<1>2. FastbootInv /\ [FastbootNext]_fbvars => FastbootInv'
  <2> SUFFICES ASSUME FastbootInv, [FastbootNext]_fbvars PROVE FastbootInv'
    OBVIOUS
  <2>1. CASE Handler
    BY <2>1, WaitOnlineOK, LoopOK, CommandReadOK, HandlerReturnsOK, SendNothingOK, SendOK,
       SentOK, ReceiveOK, ReceivedOK, StopOK, LeaveOK DEF Handler
  <2>2. CASE \E ok, short \in BOOLEAN : Complete(ok, short)
    BY <2>2, CompleteOK
  <2>3. CASE LinkUp \/ LinkDown \/ PowerOn
    BY <2>3, LinkUpOK, LinkDownOK, PowerOnOK
  <2>4. CASE UNCHANGED fbvars
    BY <2>4
    DEF fbvars, FastbootInv, FastbootTypeOK, OneTransfer, Waiting, WritesPacket, Here,
        PartsAreFresh, BufferOK, DownloadIsWhole
  <2>5. QED
    BY <2>1, <2>2, <2>3, <2>4 DEF FastbootNext
<1>3. QED
  BY <1>1, <1>2, PTL DEF FastbootSpec

\* The one request of fastboot.c and its completion always belong to the
\* transfer that the thread waits for, whatever transfers fail and whenever the
\* link goes.
THEOREM TransfersMatch == FastbootSpec => []OneTransfer
<1>1. FastbootInv => OneTransfer
  BY DEF FastbootInv
<1>2. QED
  BY <1>1, FastbootInvariant, PTL

\* What cmd_boot starts, and what cmd_flash writes of an image that is not
\* sparse, is all of the last download, however many transfers a download takes
\* and wherever it breaks off.
THEOREM DownloadsWhole == FastbootSpec => []DownloadIsWhole
<1>1. FastbootInv => DownloadIsWhole
  BY DEF FastbootInv, BufferOK
<1>2. QED
  BY <1>1, FastbootInvariant, PTL

\* The type invariant.
THEOREM FastbootTyped == FastbootSpec => []FastbootTypeOK
<1>1. FastbootInv => FastbootTypeOK
  BY DEF FastbootInv
<1>2. QED
  BY <1>1, FastbootInvariant, PTL
-----------------------------------------------------------------------------
(* What the host is told.  The packets it has received are the ones at the  *)
(* head of the handler, and all before the last are no verdicts; where the  *)
(* thread stands and fastboot_state say how many they are.                  *)

Unanswered(n) == \A i \in 1..n : fb.script[i] \notin Finals
Answered == told # <<>> /\ fb.script[Len(told)] \in Finals

\* Every handler answers, and stops the link or leaves only after that.
ScriptAnswers ==
  /\ fb.script # <<>> =>
       \E i \in 1..Len(fb.script) : fb.script[i] \in Finals /\ Unanswered(i - 1)
  /\ \A i \in 1..Len(fb.script) :
       fb.script[i] \notin Packets => \E j \in 1..(i - 1) : fb.script[j] \in Finals

Echoes ==
  /\ Len(told) <= Len(fb.script)
  /\ \A i \in 1..Len(told) : told[i] = fb.script[i]
  /\ Unanswered(Len(told) - 1)

StateMatches ==
  /\ fb.pc = "offline" => fb.state = "offline"
  /\ fb.pc \in {"loop", "reading"} => fb.state # "command"
  /\ fb.pc \in {"loop", "reading", "handling"} /\ fb.known /\ fb.state = "complete" => Answered
  /\ fb.pc = "handling" /\ fb.state = "command" =>
       fb.step = Len(told) + 1 /\ Unanswered(Len(told))
  /\ fb.pc = "writing" =>
       /\ Len(told) = IF ev.done /\ txn.ok THEN fb.step ELSE fb.step - 1
       /\ Unanswered(fb.step - 1)
       /\ fb.state = IF Here \in Finals THEN "complete" ELSE "command"
  /\ fb.pc \in {"data", "receiving"} =>
       fb.state = "command" /\ Len(told) = fb.step /\ Unanswered(fb.step)

AnswerInv == ScriptAnswers /\ Echoes /\ StateMatches

\* The facts of FastbootInv that the proofs below use.
LEMMA AnswerFacts ==
  ASSUME FastbootInv
  PROVE  /\ fb \in Loops /\ fb.script \in Seq(Items) /\ told \in Seq(Packets)
         /\ Len(told) \in Nat /\ Len(fb.script) \in Nat /\ fb.step \in Nat \ {0}
         /\ told # <<>> <=> Len(told) # 0
         /\ fb.script # <<>> <=> Len(fb.script) # 0
         /\ fb.pc = "writing" => fb.step \in 1..Len(fb.script) /\ Here \in Packets
         /\ usb.req = "in" => fb.pc = "writing" /\ ~ev.done
         /\ fb.pc = "writing" /\ ~ev.done => usb.req = "in"
<1>1. /\ fb \in Loops /\ fb.script \in Seq(Items) /\ told \in Seq(Packets)
      /\ fb.step \in Nat \ {0} /\ usb.req \in {"none", "in", "out"}
  BY FastbootTypes DEF FastbootInv
<1>2. Len(told) \in Nat /\ Len(fb.script) \in Nat
  BY <1>1
<1>3. (told # <<>> <=> Len(told) # 0) /\ (fb.script # <<>> <=> Len(fb.script) # 0)
  BY <1>1, EmptySeq
<1>4. QED
  BY <1>1, <1>2, <1>3 DEF FastbootInv, OneTransfer, Waiting, WritesPacket

\* A prefix with no verdict but perhaps at its end is a prefix of the first
\* verdict, and with one at its end it is that.
LEMMA EchoIsVerdict ==
  ASSUME FastbootInv, AnswerInv
  PROVE  AnswerIsFirstVerdict
<1>1. SUFFICES ASSUME told # <<>>
               PROVE  IsPrefix(told, Verdict) /\ (Answered => told = Verdict)
  BY DEF AnswerInv, StateMatches, Answered, AnswerIsFirstVerdict
<1> DEFINE n == Len(told)
           s == fb.script
           First(i) == s[i] \in Finals /\ \A j \in 1..(i - 1) : s[j] \notin Finals
           f == FirstFinal
<1>2. /\ s \in Seq(Items) /\ told \in Seq(Packets) /\ n \in Nat \ {0} /\ Len(s) \in Nat
      /\ n <= Len(s) /\ DOMAIN s = 1..Len(s)
      /\ \A i \in 1..n : told[i] = s[i]
      /\ \A i \in 1..(n - 1) : s[i] \notin Finals
  BY <1>1, AnswerFacts DEF AnswerInv, Echoes, Unanswered
<1>3. \E i \in 1..Len(s) : First(i)
  BY <1>2, EmptySeq DEF AnswerInv, ScriptAnswers, Unanswered
<1>4. f \in 1..Len(s) /\ First(f)
  BY <1>2, <1>3 DEF FirstFinal
<1>5. n <= f /\ (s[n] \in Finals => f = n)
  BY <1>2, <1>4
<1> HIDE DEF f, s
<1>6. /\ Verdict = SubSeq(s, 1, f) /\ Verdict \in Seq(Items) /\ Len(Verdict) = f
      /\ \A i \in 1..f : Verdict[i] = s[i]
  <2>1. Verdict = SubSeq(s, 1, f)
    BY DEF Verdict, f, s
  <2>2. \A i \in 1..f : s[i] \in Items
    BY <1>2, <1>4
  <2>3. QED
    BY <1>4, <2>1, <2>2, SubSeqProperties
<1>7. told \in Seq(Items)
  BY <1>2 DEF Items
<1>8. IsPrefix(told, Verdict)
  <2>1. /\ SubSeq(told, 1, n) \in Seq(Items) /\ SubSeq(Verdict, 1, n) \in Seq(Items)
        /\ Len(SubSeq(told, 1, n)) = n /\ Len(SubSeq(Verdict, 1, n)) = n
        /\ \A i \in 1..n : SubSeq(told, 1, n)[i] = told[i] /\ SubSeq(Verdict, 1, n)[i] = Verdict[i]
    <3>1. \A i \in 1..n : told[i] \in Items /\ Verdict[i] \in Items
      BY <1>2, <1>4, <1>5, <1>6, <1>7
    <3>2. QED
      BY <1>2, <3>1, SubSeqProperties
  <2>2. \A i \in 1..n : told[i] = Verdict[i]
    BY <1>2, <1>4, <1>5, <1>6
  <2>3. SubSeq(told, 1, n) = SubSeq(Verdict, 1, n)
    BY <2>1, <2>2, SeqEqual
  <2>4. QED
    BY <1>2, <1>5, <1>6, <2>3 DEF IsPrefix
<1>9. ASSUME Answered PROVE told = Verdict
  <2>1. f = n
    BY <1>5, <1>9 DEF Answered, s
  <2>2. QED
    BY <1>2, <1>6, <1>7, <2>1, SeqEqual
<1>10. QED
  BY <1>8, <1>9

\* A step that changes neither the handler nor what the host has been told.
LEMMA NothingTold ==
  ASSUME AnswerInv, told' = told, fb'.script = fb.script
  PROVE  /\ ScriptAnswers' /\ Echoes' /\ (Answered' <=> Answered)
         /\ \A n : Unanswered(n)' <=> Unanswered(n)
<1>1. \A n : Unanswered(n)' <=> Unanswered(n)
  BY DEF Unanswered
<1>2. QED
  BY <1>1 DEF AnswerInv, ScriptAnswers, Echoes, Answered

\* The thread leaves what it does, and the error is noted or the loop left.
LEMMA Breaks ==
  ASSUME AnswerInv, told' = told, fb'.script = fb.script,
         \/ fb'.pc = "offline" /\ fb'.state = "offline"
         \/ fb'.pc = "handling" /\ fb'.state = "error"
         \/ fb'.pc = "gone"
  PROVE  AnswerInv'
BY NothingTold DEF AnswerInv, StateMatches

\* The next item of a handler after its answer, or in STATE_ERROR.
LEMMA GoesOn ==
  ASSUME AnswerInv, told' = told, fb'.script = fb.script, fb.pc = "handling",
         fb.state # "command", fb'.pc \in {"handling", "loop"},
         fb'.state = fb.state, fb'.known = fb.known
  PROVE  AnswerInv'
BY NothingTold DEF AnswerInv, StateMatches

LEMMA CompleteAnswers ==
  ASSUME FastbootInv, AnswerInv, NEW ok \in BOOLEAN, NEW short \in BOOLEAN, Complete(ok, short)
  PROVE  AnswerInv'
<1>1. fb' = fb /\ ev'.done /\ (txn'.ok <=> ok) /\ usb.req # "none"
  BY DEF Complete, FastbootInv, FastbootTypeOK
<1>2. fb.pc \in {"reading", "writing", "receiving"} /\ ~ev.done
  BY <1>1 DEF FastbootInv, OneTransfer, Waiting
<1>3. CASE ok /\ usb.req = "in"
  <2>0. PICK n \in Nat, p \in Packets : n = Len(told) /\ p = fb.script[fb.step]
    BY <1>2, <1>3, AnswerFacts DEF Here
  <2>1. /\ fb.pc = "writing" /\ n = fb.step - 1 /\ Unanswered(n)
        /\ fb.step \in 1..Len(fb.script) /\ told \in Seq(Packets) /\ Len(fb.script) \in Nat
    BY <1>2, <1>3, <2>0, AnswerFacts DEF AnswerInv, StateMatches
  <2>2. told' = Append(told, p)
    BY <1>3, <2>0 DEF Complete
  <2>3. /\ Len(told') = n + 1 /\ told' # <<>> /\ told'[n + 1] = p
        /\ \A i \in 1..n : told'[i] = told[i]
    <3>1. /\ Append(told, p) # <<>> /\ Len(Append(told, p)) = Len(told) + 1
          /\ Append(told, p)[Len(told) + 1] = p
          /\ \A i \in 1..Len(told) : Append(told, p)[i] = told[i]
      BY <2>1, AppendProperties
    <3>2. QED
      BY <2>0, <2>2, <3>1
  <2>4. Echoes'
    <3>1. \A i \in 1..(n + 1) : told'[i] = fb'.script[i]
      <4>1. \A i \in 1..n : told'[i] = fb.script[i]
        BY <2>0, <2>3 DEF AnswerInv, Echoes
      <4>2. told'[n + 1] = fb.script[n + 1]
        BY <2>0, <2>1, <2>3
      <4>3. QED
        BY <1>1, <4>1, <4>2
    <3>2. Unanswered(n)'
      BY <1>1, <2>1 DEF Unanswered
    <3>3. QED
      BY <1>1, <2>1, <2>3, <3>1, <3>2 DEF Echoes
  <2>5. ScriptAnswers'
    BY <1>1 DEF AnswerInv, ScriptAnswers, Unanswered
  <2>6. StateMatches'
    BY <1>1, <1>3, <2>0, <2>1, <2>3 DEF AnswerInv, StateMatches, Unanswered, Here
  <2>7. QED
    BY <2>4, <2>5, <2>6 DEF AnswerInv
<1>4. CASE ~(ok /\ usb.req = "in")
  <2>1. told' = told
    BY <1>4 DEF Complete
  <2>2. fb.pc = "writing" => ~txn'.ok
    BY <1>1, <1>2, <1>4 DEF FastbootInv, OneTransfer
  <2>3. QED
    BY <1>1, <1>2, <2>1, <2>2, NothingTold DEF AnswerInv, StateMatches, Here
<1>5. QED
  BY <1>3, <1>4

LEMMA LinkAnswers ==
  ASSUME FastbootInv, AnswerInv, LinkUp \/ LinkDown
  PROVE  AnswerInv'
<1>1. fb' = fb /\ told' = told /\ txn' = txn /\ ev'.done = ev.done
  BY DEF LinkUp, LinkDown, FastbootInv, FastbootTypeOK
<1>2. QED
  BY <1>1, NothingTold DEF AnswerInv, StateMatches, Here

LEMMA PowerOnAnswers ==
  ASSUME PowerOn
  PROVE  AnswerInv'
<1>1. fb'.pc = "offline" /\ fb'.state = "offline" /\ fb'.script = <<>> /\ told' = <<>>
  BY DEF PowerOn
<1>2. QED
  BY <1>1 DEF AnswerInv, ScriptAnswers, Echoes, StateMatches, Unanswered

LEMMA LoopAnswers ==
  ASSUME FastbootInv, AnswerInv, WaitOnline \/ Loop
  PROVE  AnswerInv'
<1>1. told' = told /\ txn' = txn /\ fb \in Loops
  BY AnswerFacts DEF WaitOnline, Loop
<1>2. CASE WaitOnline
  <2>1. /\ fb'.pc = "loop" /\ fb'.script = fb.script /\ fb'.state = fb.state
        /\ fb.state = "offline"
    BY <1>1, <1>2 DEF WaitOnline, Loops, AnswerInv, StateMatches
  <2>2. QED
    BY <1>1, <2>1, NothingTold DEF AnswerInv, StateMatches
<1>3. CASE Loop /\ fb' = LeftLoop
  <2>1. fb'.pc = "offline" /\ fb'.state = "offline" /\ fb'.script = fb.script
    BY <1>1, <1>3 DEF LeftLoop, Loops
  <2>2. QED
    BY <1>1, <2>1, Breaks
<1>4. CASE Loop /\ fb' = [fb EXCEPT !.pc = "reading"]
  <2>1. /\ fb.pc = "loop" /\ fb'.pc = "reading" /\ fb'.script = fb.script
        /\ fb'.state = fb.state /\ fb'.known = fb.known
    BY <1>1, <1>4 DEF Loop, Loops
  <2>2. QED
    BY <1>1, <2>1, NothingTold DEF AnswerInv, StateMatches
<1>5. QED
  BY <1>2, <1>3, <1>4 DEF Loop

LEMMA HandlerAnswers ==
  ASSUME FastbootInv, AnswerInv, HandlerReturns
  PROVE  AnswerInv'
<1>1. /\ told' = told /\ fb \in Loops /\ fb.pc = "handling" /\ fb.step > Len(fb.script)
      /\ fb.script \in Seq(Items) /\ Len(fb.script) \in Nat /\ Len(told) \in Nat
      /\ fb.step \in Nat
  BY AnswerFacts DEF HandlerReturns
<1>2. CASE fb.state # "command"
  <2>1. fb' = [fb EXCEPT !.pc = "loop"]
    BY <1>2 DEF HandlerReturns
  <2>2. fb'.pc = "loop" /\ fb'.script = fb.script /\ fb'.state = fb.state /\ fb'.known = fb.known
    BY <1>1, <2>1 DEF Loops
  <2>3. QED
    BY <1>1, <1>2, <2>2, GoesOn
<1>3. CASE fb.state = "command"
  <2>0. PICK n \in Nat : n = Len(fb.script)
    BY <1>1
  <2>1. Len(told) = n /\ fb.step = n + 1 /\ Unanswered(n)
    BY <1>1, <1>3, <2>0 DEF AnswerInv, Echoes, StateMatches
  <2>2. "FAIL" \in Items /\ "FAIL" \in Finals /\ "FAIL" \in Packets
    BY DEF Items, Packets, Finals
  <2>3. /\ fb'.script = Append(fb.script, "FAIL") /\ fb'.pc = "handling"
        /\ fb'.state = "command" /\ fb'.step = n + 1
    BY <1>1, <1>3, <2>1 DEF HandlerReturns, Loops
  <2>4. /\ Len(fb'.script) = n + 1 /\ fb'.script[n + 1] = "FAIL"
        /\ \A i \in 1..n : fb'.script[i] = fb.script[i]
    BY <1>1, <2>0, <2>2, <2>3, AppendProperties
  <2>5. Unanswered(n)'
    BY <2>1, <2>4 DEF Unanswered
  <2>6. ScriptAnswers'
    <3>1. n + 1 \in 1..Len(fb'.script) /\ fb'.script[n + 1] \in Finals /\ Unanswered((n + 1) - 1)'
      BY <2>2, <2>4, <2>5
    <3>2. \A i \in 1..n : fb'.script[i] \in Packets
      BY <2>0, <2>1, <2>4 DEF AnswerInv, ScriptAnswers, Unanswered
    <3>3. \A i \in 1..(n + 1) : fb'.script[i] \in Packets
      BY <2>2, <2>4, <3>2
    <3>4. QED
      BY <2>4, <3>1, <3>3 DEF ScriptAnswers
  <2>7. Echoes'
    BY <1>1, <2>0, <2>1, <2>4, <2>5 DEF AnswerInv, Echoes, Unanswered
  <2>8. StateMatches'
    BY <1>1, <2>1, <2>3, <2>5 DEF StateMatches
  <2>9. QED
    BY <2>6, <2>7, <2>8 DEF AnswerInv
<1>4. QED
  BY <1>2, <1>3

LEMMA SkipAnswers ==
  ASSUME FastbootInv, AnswerInv, SendNothing \/ Stop \/ Leave
  PROVE  AnswerInv'
<1>1. told' = told /\ fb \in Loops /\ fb.pc = "handling" /\ fb.step \in 1..Len(fb.script)
  BY AnswerFacts DEF SendNothing, AtPacket, Stop, Leave
<1>2. CASE SendNothing \/ Stop
  <2>1. /\ fb'.pc = "handling" /\ fb'.script = fb.script /\ fb'.state = fb.state
        /\ fb'.known = fb.known
    BY <1>1, <1>2 DEF SendNothing, AtPacket, Stop, Loops
  <2>2. fb.state # "command"
    <3>1. CASE SendNothing
      BY <3>1 DEF SendNothing
    <3>2. CASE Stop
      <4>1. fb.script[fb.step] \notin Packets
        BY <3>2 DEF Stop, Here, Packets, Finals
      <4>2. PICK j \in 1..(fb.step - 1) : fb.script[j] \in Finals
        BY <1>1, <4>1 DEF AnswerInv, ScriptAnswers
      <4>3. QED
        BY <1>1, <4>2, AnswerFacts DEF AnswerInv, StateMatches, Unanswered
    <3>3. QED
      BY <1>2, <3>1, <3>2
  <2>3. QED
    BY <1>1, <2>1, <2>2, GoesOn
<1>3. CASE Leave
  <2>1. fb'.pc = "gone" /\ fb'.script = fb.script
    BY <1>1, <1>3 DEF Leave, Loops
  <2>2. QED
    BY <1>1, <2>1, Breaks
<1>4. QED
  BY <1>2, <1>3

LEMMA Failures ==
  ASSUME FastbootInv
  PROVE  /\ WriteFailed.pc = "handling" /\ WriteFailed.state = "error"
         /\ WriteFailed.script = fb.script
         /\ DownloadFailed.pc = "handling" /\ DownloadFailed.state = "error"
         /\ DownloadFailed.script = fb.script
BY AnswerFacts DEF WriteFailed, DownloadFailed, Loops

LEMMA SendAnswers ==
  ASSUME FastbootInv, AnswerInv, Send
  PROVE  AnswerInv'
<1>1. /\ told' = told /\ ev' = ev /\ fb \in Loops /\ fb.pc = "handling" /\ fb.state = "command"
      /\ fb.step \in 1..Len(fb.script)
  BY AnswerFacts DEF Send, AtPacket
<1>2. CASE fb' = WriteFailed
  BY <1>1, <1>2, Failures, Breaks
<1>3. CASE fb' = [fb EXCEPT !.pc = "writing", !.state = IF Here \in Finals THEN "complete" ELSE @]
  <2>1. /\ fb'.pc = "writing" /\ fb'.script = fb.script /\ fb'.step = fb.step
        /\ fb'.state = IF Here \in Finals THEN "complete" ELSE "command"
    BY <1>1, <1>3 DEF Loops
  <2>2. ~ev.done
    BY <1>1 DEF FastbootInv, OneTransfer, Waiting
  <2>3. fb.step = Len(told) + 1 /\ Unanswered(Len(told)) /\ Len(told) \in Nat
    BY <1>1, AnswerFacts DEF AnswerInv, StateMatches
  <2>4. Unanswered(fb.step - 1)'
    BY <2>1, <2>3 DEF Unanswered
  <2>5. Len(told') = fb'.step - 1
    BY <1>1, <2>1, <2>3
  <2>6. Here' = Here
    BY <2>1 DEF Here
  <2>7. StateMatches'
    BY <1>1, <2>1, <2>2, <2>4, <2>5, <2>6 DEF StateMatches
  <2>8. QED
    BY <1>1, <2>1, <2>7, NothingTold DEF AnswerInv
<1>4. QED
  BY <1>2, <1>3 DEF Send

LEMMA SentAnswers ==
  ASSUME FastbootInv, AnswerInv, Sent
  PROVE  AnswerInv'
<1>1. /\ told' = told /\ fb \in Loops /\ fb.pc = "writing" /\ ev.done
      /\ fb.step \in 1..Len(fb.script) /\ Len(told) \in Nat /\ (told # <<>> <=> Len(told) # 0)
  BY AnswerFacts DEF Sent
<1>2. CASE ~txn.ok
  BY <1>1, <1>2, Failures, Breaks DEF Sent
<1>3. CASE txn.ok
  <2>1. /\ Len(told) = fb.step /\ Unanswered(fb.step - 1)
        /\ fb.state = IF Here \in Finals THEN "complete" ELSE "command"
    BY <1>1, <1>3 DEF AnswerInv, StateMatches
  <2>2. CASE Here \in Finals
    <3>1. Here # "DATA"
      BY <2>2 DEF Finals
    <3>2. /\ fb'.pc = "handling" /\ fb'.script = fb.script /\ fb'.state = "complete"
      BY <1>1, <1>3, <2>1, <2>2, <3>1 DEF Sent, Loops
    <3>3. Answered
      BY <1>1, <2>1, <2>2 DEF Answered, Here
    <3>4. QED
      BY <1>1, <3>2, <3>3, NothingTold DEF AnswerInv, StateMatches
  <2>3. CASE Here \notin Finals
    <3>1. Unanswered(fb.step)
      BY <1>1, <2>1, <2>3 DEF Unanswered, Here
    <3>2. /\ fb'.script = fb.script /\ fb'.state = "command"
          /\ \/ fb'.pc = "data" /\ fb'.step = fb.step
             \/ fb'.pc = "handling" /\ fb'.step = fb.step + 1
      BY <1>1, <1>3, <2>1, <2>3 DEF Sent, Loops
    <3>3. Unanswered(Len(told))' /\ (fb'.pc = "data" => Unanswered(fb.step)')
      BY <1>1, <2>1, <3>1, <3>2 DEF Unanswered
    <3>4. StateMatches'
      BY <1>1, <2>1, <3>2, <3>3 DEF StateMatches
    <3>5. QED
      BY <1>1, <3>2, <3>4, NothingTold DEF AnswerInv
  <2>4. QED
    BY <2>2, <2>3
<1>4. QED
  BY <1>2, <1>3

LEMMA ReceiveAnswers ==
  ASSUME FastbootInv, AnswerInv, Receive \/ Received
  PROVE  AnswerInv'
<1>1. /\ told' = told /\ fb \in Loops /\ fb.pc \in {"data", "receiving"}
      /\ fb.step \in Nat /\ Len(told) \in Nat
  BY AnswerFacts DEF Receive, Received
<1>2. fb.state = "command" /\ Len(told) = fb.step /\ Unanswered(fb.step)
  BY <1>1 DEF AnswerInv, StateMatches
<1>3. CASE fb' = DownloadFailed
  BY <1>1, <1>3, Failures, Breaks
<1>4. CASE fb' # DownloadFailed
  <2>1. /\ fb'.script = fb.script /\ fb'.state = "command"
        /\ \/ fb'.pc \in {"data", "receiving"} /\ fb'.step = fb.step
           \/ fb'.pc = "handling" /\ fb'.step = fb.step + 1
    BY <1>1, <1>2, <1>4 DEF Receive, Received, Loops
  <2>2. Unanswered(Len(told))' /\ (fb'.step = fb.step => Unanswered(fb.step)')
    BY <1>1, <1>2, <2>1 DEF Unanswered
  <2>3. StateMatches'
    BY <1>1, <1>2, <2>1, <2>2 DEF StateMatches
  <2>4. QED
    BY <1>1, <2>1, <2>3, NothingTold DEF AnswerInv
<1>5. QED
  BY <1>3, <1>4

\* The handlers that a command may begin: each has a verdict, and nothing but
\* packets before it.
LEMMA ScriptVerdicts ==
  ASSUME NEW s, \/ s \in {<<"FAIL">>, <<"DATA", "OKAY">>}
                \/ \E c \in DOMAIN Scripts : s \in Scripts[c]
  PROVE  /\ \E i \in 1..Len(s) : s[i] \in Finals /\ \A j \in 1..(i - 1) : s[j] \notin Finals
         /\ \A i \in 1..Len(s) : s[i] \notin Packets => \E j \in 1..(i - 1) : s[j] \in Finals
<1>1. /\ "OKAY" \in Finals /\ "FAIL" \in Finals /\ "INFO" \notin Finals /\ "DATA" \notin Finals
      /\ "INFO" \in Packets /\ "DATA" \in Packets
  BY DEF Finals, Packets
<1>2. \/ s[1] \in Finals /\ Len(s) \in Nat \ {0}
      \/ s = <<"DATA", "OKAY">>
      \/ s = <<"INFO", "INFO", "OKAY">>
  BY <1>1 DEF Scripts
<1>3. CASE s[1] \in Finals /\ Len(s) \in Nat \ {0}
  <2>1. 1 \in 1..Len(s) /\ \A j \in 1..(1 - 1) : s[j] \notin Finals
    BY <1>3
  <2>2. s[1] \in Packets
    BY <1>3 DEF Packets
  <2>3. \A i \in 1..Len(s) : i # 1 => 1 \in 1..(i - 1)
    BY <1>3
  <2>4. QED
    BY <1>3, <2>1, <2>2, <2>3
<1>4. CASE s = <<"DATA", "OKAY">>
  <2>1. Len(s) = 2 /\ s[1] = "DATA" /\ s[2] = "OKAY"
    BY <1>4
  <2>2. \A i \in 1..2 : s[i] \in Packets
    BY <1>1, <2>1 DEF Packets
  <2>3. 2 \in 1..2 /\ s[2] \in Finals /\ \A j \in 1..(2 - 1) : s[j] \notin Finals
    BY <1>1, <2>1
  <2>4. QED
    BY <2>1, <2>2, <2>3
<1>5. CASE s = <<"INFO", "INFO", "OKAY">>
  <2>1. Len(s) = 3 /\ s[1] = "INFO" /\ s[2] = "INFO" /\ s[3] = "OKAY"
    BY <1>5
  <2>2. \A i \in 1..3 : s[i] \in Packets
    BY <1>1, <2>1 DEF Packets
  <2>3. 3 \in 1..3 /\ s[3] \in Finals /\ \A j \in 1..(3 - 1) : s[j] \notin Finals
    BY <1>1, <2>1
  <2>4. QED
    BY <2>1, <2>2, <2>3
<1>6. QED
  BY <1>2, <1>3, <1>4, <1>5

\* A handler is begun, and the host told nothing of it yet.
LEMMA DispatchAnswers ==
  ASSUME FastbootInv, AnswerInv, fb.pc = "reading", told' = <<>>,
         NEW known \in BOOLEAN, NEW s, NEW len, NEW state \in {"command", fb.state},
         known <=> state = "command",
         Dispatch(known, state, s, len),
         \/ s \in {<<"FAIL">>, <<"DATA", "OKAY">>}
         \/ \E c \in DOMAIN Scripts : s \in Scripts[c]
  PROVE  AnswerInv'
<1>1. /\ fb'.pc = "handling" /\ fb'.state = state /\ (fb'.known <=> known) /\ fb'.script = s
      /\ fb'.step = 1
  BY AnswerFacts DEF Dispatch, Loops
<1>2. Len(told') = 0
  OBVIOUS
<1>3. ScriptAnswers'
  BY <1>1, ScriptVerdicts DEF ScriptAnswers, Unanswered
<1>4. Len(fb'.script) \in Nat
  BY <1>1, ScriptTypes
<1>5. Echoes'
  BY <1>1, <1>2, <1>4 DEF Echoes, Unanswered
<1>6. StateMatches'
  BY <1>1, <1>2 DEF StateMatches, Unanswered
<1>7. QED
  BY <1>3, <1>5, <1>6 DEF AnswerInv

LEMMA ReadAnswers ==
  ASSUME FastbootInv, AnswerInv, CommandRead
  PROVE  AnswerInv'
<1>1. fb.pc = "reading" /\ fb.state # "command" /\ fb \in Loops
  BY AnswerFacts DEF CommandRead, AnswerInv, StateMatches
<1>2. CASE fb' = LeftLoop /\ told' = told
  <2>1. fb'.pc = "offline" /\ fb'.state = "offline" /\ fb'.script = fb.script
    BY <1>1, <1>2 DEF LeftLoop, Loops
  <2>2. QED
    BY <1>2, <2>1, Breaks
<1>3. CASE told' = <<>> /\ Dispatch(FALSE, fb.state, <<"FAIL">>, 0)
  BY <1>1, <1>3, DispatchAnswers
<1>4. CASE /\ told' = <<>>
           /\ \E c \in DOMAIN Scripts : \E s \in Scripts[c] : Dispatch(TRUE, "command", s, 0)
  BY <1>1, <1>4, DispatchAnswers
<1>5. CASE told' = <<>> /\ Download
  <2>1. PICK s \in {<<"FAIL">>, <<"DATA", "OKAY">>} :
          \E len \in 0..MaxTransfers : Dispatch(TRUE, "command", s, len)
    <3>1. 0 \in 0..MaxTransfers
      BY FastbootAssumption
    <3>2. CASE Dispatch(TRUE, "command", <<"FAIL">>, 0)
      BY <3>1, <3>2
    <3>3. CASE \E len \in 0..MaxTransfers : Dispatch(TRUE, "command", <<"DATA", "OKAY">>, len)
      BY <3>3
    <3>4. QED
      BY <1>5, <3>2, <3>3 DEF Download
  <2>2. QED
    BY <1>1, <1>5, <2>1, DispatchAnswers
<1>6. QED
  BY <1>2, <1>3, <1>4, <1>5 DEF CommandRead

THEOREM AnswerInvariant == FastbootSpec => []AnswerInv
<1>1. FastbootInit => AnswerInv
  BY DEF FastbootInit, AnswerInv, ScriptAnswers, Echoes, StateMatches, Unanswered
<1>2. FastbootInv /\ AnswerInv /\ [FastbootNext]_fbvars => AnswerInv'
  <2> SUFFICES ASSUME FastbootInv, AnswerInv, [FastbootNext]_fbvars PROVE AnswerInv'
    OBVIOUS
  <2>1. CASE Handler
    BY <2>1, LoopAnswers, ReadAnswers, HandlerAnswers, SkipAnswers, SendAnswers, SentAnswers,
       ReceiveAnswers DEF Handler
  <2>2. CASE \E ok, short \in BOOLEAN : Complete(ok, short)
    BY <2>2, CompleteAnswers
  <2>3. CASE LinkUp \/ LinkDown \/ PowerOn
    BY <2>3, LinkAnswers, PowerOnAnswers
  <2>4. CASE UNCHANGED fbvars
    BY <2>4, NothingTold DEF fbvars, AnswerInv, StateMatches, Here
  <2>5. QED
    BY <2>1, <2>2, <2>3, <2>4 DEF FastbootNext
<1>3. QED
  BY <1>1, <1>2, FastbootInvariant, PTL DEF FastbootSpec

\* The host is told the head of what the handler says, up to its first OKAY or
\* FAIL and no further, whatever transfers fail; and it has been told all of
\* that when the thread comes back for another command without an error.
THEOREM FirstVerdictAnswers == FastbootSpec => []AnswerIsFirstVerdict
<1>1. FastbootInv /\ AnswerInv => AnswerIsFirstVerdict
  BY EchoIsVerdict
<1>2. QED
  BY <1>1, FastbootInvariant, AnswerInvariant, PTL
=============================================================================
