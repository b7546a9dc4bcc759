------------------------------- MODULE Fastboot -------------------------------
(***************************************************************************)
(* The fastboot protocol (app/aboot/fastboot.c and the command handlers of *)
(* app/aboot/aboot.c): one thread reads a command from the host, runs its  *)
(* handler and answers, with one transfer request and two auto-unsignal    *)
(* events.  The USB controller is not in the repository; as dev/udc.h has  *)
(* it, a request it accepts is completed once, by an interrupt.            *)
(*                                                                         *)
(* A handler is the sequence of the packets it sends ("INFO", "DATA",      *)
(* "OKAY", "FAIL"), of "stop" (udc_stop) and of "leave" (the kernel is     *)
(* started or the device reset).  A download is counted in transfers.      *)
(***************************************************************************)
EXTENDS Naturals, Sequences, SequencesExt

CONSTANT MaxTransfers   \* bound on the transfers of a download (download_max)

ASSUME FastbootAssumption == MaxTransfers \in Nat

VARIABLES
  usb,    \* the link, whether it has failed since it is up, the request queued and
          \* whether the link has been down under it
  ev,     \* usb_online and txn_done are signalled
  txn,    \* what req_complete has stored: txn_status, a transfer cut short
  fb,     \* the thread: pc, fastboot_state, the handler and how far it is
  dl,     \* download_size; which parts of the buffer the last download wrote;
          \* history: how cmd_boot or cmd_flash last used the buffer
  told    \* history: the packets the host has received for the command

fbvars == <<usb, ev, txn, fb, dl, told>>

Finals == {"OKAY", "FAIL"}
Packets == {"INFO", "DATA"} \cup Finals

\* What the handlers do, by command, with each way they can go.
Scripts ==
  [getvar   |-> {<<"OKAY">>},
   erase    |-> {<<"OKAY">>, <<"FAIL">>},
   flash    |-> {<<"OKAY", "OKAY">>, <<"FAIL", "OKAY">>, <<"FAIL", "OKAY", "OKAY">>},
   devinfo  |-> {<<"INFO", "INFO", "OKAY">>},
   format   |-> {<<"OKAY", "leave">>, <<"FAIL", "leave">>},
   reboot   |-> {<<"OKAY", "leave">>},
   boot     |-> {<<"FAIL">>, <<"OKAY", "stop", "leave">>},
   continue |-> {<<"OKAY", "stop", "leave">>, <<"OKAY", "stop">>}]

\* Nothing has been downloaded, and nothing used.
EmptyBuffer ==
  [size |-> 0, fresh |-> [i \in 1..MaxTransfers |-> FALSE],
   use |-> [sparse |-> FALSE, whole |-> TRUE]]

FastbootInit ==
  /\ usb = [link |-> "down", fault |-> FALSE, req |-> "none", stale |-> FALSE]
  /\ ev = [online |-> FALSE, done |-> FALSE]
  /\ txn = [ok |-> TRUE, short |-> FALSE]
  /\ fb = [pc |-> "offline", state |-> "offline", known |-> FALSE,
           script |-> <<>>, step |-> 1, left |-> 0, len |-> 0]
  /\ dl = EmptyBuffer
  /\ told = <<>>

-----------------------------------------------------------------------------
(* The USB controller, and the host at its other end.                      *)

\* udc_request_queue accepts the request, or returns an error.
Accept(dir) == usb' = [usb EXCEPT !.req = dir, !.stale = usb.link # "up"]
Refuse == usb' = [usb EXCEPT !.fault = @ \/ usb.link = "up"]

\* req_complete, in the interrupt: status and length are stored and txn_done
\* is signalled.  A request that the link was down under always fails.
Complete(ok, short) ==
  /\ usb.req # "none"
  /\ ok => usb.link = "up" /\ ~usb.stale
  /\ short => ok /\ fb.pc = "receiving"
  /\ usb' = [usb EXCEPT !.req = "none", !.stale = FALSE,
                        !.fault = @ \/ (usb.link = "up" /\ ~usb.stale /\ (short \/ ~ok))]
  /\ txn' = [ok |-> ok, short |-> short]
  /\ ev' = [ev EXCEPT !.done = TRUE]
  /\ told' = IF ok /\ usb.req = "in" THEN Append(told, fb.script[fb.step]) ELSE told
  /\ dl' = IF ok /\ ~short /\ fb.pc = "receiving"
           THEN [dl EXCEPT !.fresh[fb.len - fb.left + 1] = TRUE] ELSE dl
  /\ UNCHANGED fb

\* fastboot_notify: UDC_EVENT_ONLINE signals usb_online.
LinkUp ==
  /\ usb.link = "down"
  /\ usb' = [usb EXCEPT !.link = "up", !.fault = FALSE]
  /\ ev' = [ev EXCEPT !.online = TRUE]
  /\ UNCHANGED <<txn, fb, dl, told>>

LinkDown ==
  /\ usb.link = "up"
  /\ usb' = [usb EXCEPT !.link = "down", !.stale = TRUE]
  /\ UNCHANGED <<ev, txn, fb, dl, told>>

\* The device is switched on again after it has left fastboot, or after
\* udc_stop, when no ONLINE can come any more.
PowerOn ==
  /\ fb.pc = "gone" \/ (usb.link = "stopped" /\ fb.pc = "offline")
  /\ usb' = [link |-> "down", fault |-> FALSE, req |-> "none", stale |-> FALSE]
  /\ ev' = [online |-> FALSE, done |-> FALSE]
  /\ fb' = [pc |-> "offline", state |-> "offline", known |-> FALSE,
            script |-> <<>>, step |-> 1, left |-> 0, len |-> 0]
  /\ dl' = EmptyBuffer
  /\ told' = <<>>
  /\ UNCHANGED txn

-----------------------------------------------------------------------------
(* The command loop.                                                       *)

\* event_wait(&usb_online).
WaitOnline ==
  /\ fb.pc = "offline"
  /\ ev.online
  /\ ev' = [ev EXCEPT !.online = FALSE]
  /\ fb' = [fb EXCEPT !.pc = "loop"]
  /\ UNCHANGED <<usb, txn, dl, told>>

\* Mutant of LeftLoop: fastboot_state stays STATE_ERROR.
LeftLoopInError == [fb EXCEPT !.pc = "offline"]

\* Behind the loop: back to event_wait(&usb_online).
LeftLoop == [fb EXCEPT !.pc = "offline", !.state = "offline"]

\* while (fastboot_state != STATE_ERROR): leave, or usb_read a command.
Loop ==
  /\ fb.pc = "loop"
  /\ \/ fb.state = "error" /\ fb' = LeftLoop /\ UNCHANGED usb
     \/ fb.state # "error" /\ fb' = LeftLoop /\ Refuse
     \/ fb.state # "error" /\ fb' = [fb EXCEPT !.pc = "reading"] /\ Accept("out")
  /\ UNCHANGED <<ev, txn, dl, told>>

Dispatch(known, state, script, len) ==
  fb' = [fb EXCEPT !.pc = "handling", !.state = state, !.known = known,
                   !.script = script, !.step = 1, !.left = len, !.len = len]

\* Mutants of Download: the old size is kept until the new one is known; the
\* test of the length is off by one.
DownloadKeepsSize ==
  \/ Dispatch(TRUE, "command", <<"FAIL">>, 0) /\ UNCHANGED dl
  \/ \E len \in 0..MaxTransfers :
       /\ Dispatch(TRUE, "command", <<"DATA", "OKAY">>, len)
       /\ dl' = [dl EXCEPT !.fresh = [i \in 1..MaxTransfers |-> FALSE]]

DownloadTooLong ==
  \/ Dispatch(TRUE, "command", <<"FAIL">>, 0) /\ dl' = [dl EXCEPT !.size = 0]
  \/ \E len \in 0..(MaxTransfers + 1) :
       /\ Dispatch(TRUE, "command", <<"DATA", "OKAY">>, len)
       /\ dl' = [dl EXCEPT !.size = 0, !.fresh = [i \in 1..MaxTransfers |-> FALSE]]

\* cmd_download: what was downloaded before is given up first.
Download ==
  \/ /\ Dispatch(TRUE, "command", <<"FAIL">>, 0)
     /\ dl' = [dl EXCEPT !.size = 0]
  \/ \E len \in 0..MaxTransfers :
       /\ Dispatch(TRUE, "command", <<"DATA", "OKAY">>, len)
       /\ dl' = [dl EXCEPT !.size = 0, !.fresh = [i \in 1..MaxTransfers |-> FALSE]]

\* The first n parts of the buffer are used, as a sparse image or not.
Uses(sparse, n) ==
  dl' = [dl EXCEPT !.use = [sparse |-> sparse, whole |-> \A i \in 1..n : dl.fresh[i]]]

\* What the handlers take from the buffer.  cmd_boot takes the sizes in the
\* image's header and starts nothing that is longer than sz.  cmd_flash writes
\* sz bytes; but when the buffer begins like a sparse image it writes what the
\* chunks in the buffer say, whatever sz is.
UseBuffer(c, script) ==
  \/ c = "boot" /\ script # <<"FAIL">> /\ \E n \in 1..dl.size : Uses(FALSE, n)
  \/ c = "flash" /\ Uses(FALSE, dl.size)
  \/ c = "flash" /\ \E n \in 1..MaxTransfers : Uses(TRUE, n)
  \/ c # "flash" /\ (c = "boot" => script = <<"FAIL">>) /\ UNCHANGED dl

\* The command has come, or the transfer has failed.  No handler for it:
\* fastboot_fail("unknown command"), which does not touch fastboot_state.
CommandRead ==
  /\ fb.pc = "reading"
  /\ ev.done
  /\ ev' = [ev EXCEPT !.done = FALSE]
  /\ \/ ~txn.ok /\ fb' = LeftLoop /\ UNCHANGED <<dl, told>>
     \/ /\ txn.ok
        /\ told' = <<>>
        /\ \/ Dispatch(FALSE, fb.state, <<"FAIL">>, 0) /\ UNCHANGED dl
           \/ \E c \in DOMAIN Scripts : \E s \in Scripts[c] :
                Dispatch(TRUE, "command", s, 0) /\ UseBuffer(c, s)
           \/ Download
  /\ UNCHANGED <<usb, txn>>

\* The handler has returned; one that has not answered is answered for.
HandlerReturns ==
  /\ fb.pc = "handling"
  /\ fb.step > Len(fb.script)
  /\ fb' = IF fb.state = "command" THEN [fb EXCEPT !.script = Append(@, "FAIL")]
           ELSE [fb EXCEPT !.pc = "loop"]
  /\ UNCHANGED <<usb, ev, txn, dl, told>>

-----------------------------------------------------------------------------
(* The handlers.                                                           *)

Here == fb.script[fb.step]
AtPacket == fb.pc = "handling" /\ fb.step <= Len(fb.script) /\ Here \in Packets

\* fastboot_ack and fastboot_info send nothing outside STATE_COMMAND.
SendNothing ==
  /\ AtPacket
  /\ fb.state # "command"
  /\ fb' = [fb EXCEPT !.step = @ + 1]
  /\ UNCHANGED <<usb, ev, txn, dl, told>>

\* After a failed usb_write: only cmd_download looks at its result.
WriteFailed ==
  [fb EXCEPT !.pc = "handling", !.state = "error",
             !.step = IF Here = "DATA" THEN Len(fb.script) + 1 ELSE @ + 1]

\* Mutant of Send: the state is not looked at.
SendAlways ==
  /\ AtPacket
  /\ \/ Refuse /\ fb' = WriteFailed
     \/ Accept("in") /\ fb' = [fb EXCEPT !.pc = "writing", !.state = "complete"]
  /\ UNCHANGED <<ev, txn, dl, told>>

\* fastboot_ack, fastboot_info, and the answer of cmd_download: usb_write up to
\* event_wait.  The state is STATE_COMPLETE before the answer is sent.  (In
\* STATE_ERROR, in which nobody calls them, usb_write and usb_read do nothing.)
Send ==
  /\ AtPacket
  /\ fb.state = "command"
  /\ \/ Refuse /\ fb' = WriteFailed
     \/ /\ Accept("in")
        /\ fb' = [fb EXCEPT !.pc = "writing",
                            !.state = IF Here \in Finals THEN "complete" ELSE @]
  /\ UNCHANGED <<ev, txn, dl, told>>

\* Mutant of Sent: usb_write does not wait for txn_done.
SentUnwaited ==
  /\ fb.pc = "writing"
  /\ fb' = IF Here = "DATA" THEN [fb EXCEPT !.pc = "data"]
           ELSE [fb EXCEPT !.pc = "handling", !.step = @ + 1]
  /\ UNCHANGED <<usb, ev, txn, dl, told>>

\* The rest of usb_write; after "DATA" cmd_download goes on to usb_read.
Sent ==
  /\ fb.pc = "writing"
  /\ ev.done
  /\ ev' = [ev EXCEPT !.done = FALSE]
  /\ fb' = IF ~txn.ok THEN WriteFailed
           ELSE IF Here = "DATA" THEN [fb EXCEPT !.pc = "data"]
           ELSE [fb EXCEPT !.pc = "handling", !.step = @ + 1]
  /\ UNCHANGED <<usb, txn, dl, told>>

\* The usb_read of cmd_download has failed or has come short.
DownloadFailed ==
  [fb EXCEPT !.pc = "handling", !.state = "error", !.step = Len(fb.script) + 1]

\* The loop of that usb_read: queue the next transfer, or all is there.
Receive ==
  /\ fb.pc = "data"
  /\ \/ /\ fb.left = 0
        /\ fb' = [fb EXCEPT !.pc = "handling", !.step = @ + 1]
        /\ dl' = [dl EXCEPT !.size = fb.len]
        /\ UNCHANGED usb
     \/ /\ fb.left > 0
        /\ Accept("out")
        /\ fb' = [fb EXCEPT !.pc = "receiving"]
        /\ UNCHANGED dl
     \/ /\ fb.left > 0
        /\ Refuse
        /\ fb' = DownloadFailed
        /\ UNCHANGED dl
  /\ UNCHANGED <<ev, txn, told>>

Received ==
  /\ fb.pc = "receiving"
  /\ ev.done
  /\ ev' = [ev EXCEPT !.done = FALSE]
  /\ fb' = IF txn.ok /\ ~txn.short THEN [fb EXCEPT !.pc = "data", !.left = @ - 1]
           ELSE DownloadFailed
  /\ UNCHANGED <<usb, txn, dl, told>>

\* udc_stop.
Stop ==
  /\ fb.pc = "handling"
  /\ fb.step <= Len(fb.script)
  /\ Here = "stop"
  /\ usb' = [usb EXCEPT !.link = "stopped"]
  /\ fb' = [fb EXCEPT !.step = @ + 1]
  /\ UNCHANGED <<ev, txn, dl, told>>

\* boot_linux or reboot_device.
Leave ==
  /\ fb.pc = "handling"
  /\ fb.step <= Len(fb.script)
  /\ Here = "leave"
  /\ fb' = [fb EXCEPT !.pc = "gone"]
  /\ UNCHANGED <<usb, ev, txn, dl, told>>

Handler ==
  \/ WaitOnline \/ Loop \/ CommandRead \/ HandlerReturns
  \/ SendNothing \/ Send \/ Sent \/ Receive \/ Received \/ Stop \/ Leave

FastbootNext ==
  \/ Handler
  \/ \E ok, short \in BOOLEAN : Complete(ok, short)
  \/ LinkUp \/ LinkDown \/ PowerOn

\* The thread runs on; an answer is fetched by the host, and a request that the
\* link was down under is given back by the controller.
FastbootSpec ==
  /\ FastbootInit /\ [][FastbootNext]_fbvars
  /\ WF_fbvars(Handler)
  /\ WF_fbvars(\E ok, short \in BOOLEAN :
                 (usb.req = "in" \/ usb.stale) /\ Complete(ok, short))

-----------------------------------------------------------------------------
(* Properties.                                                             *)

Buffers == [size : 0..MaxTransfers, fresh : [1..MaxTransfers -> BOOLEAN],
            use : [sparse : BOOLEAN, whole : BOOLEAN]]

\* Type invariant of fastboot.
FastbootTypeOK ==
  /\ usb \in [link : {"up", "down", "stopped"}, fault : BOOLEAN,
              req : {"none", "in", "out"}, stale : BOOLEAN]
  /\ ev \in [online : BOOLEAN, done : BOOLEAN]
  /\ txn \in [ok : BOOLEAN, short : BOOLEAN]
  /\ fb \in [pc : {"offline", "loop", "reading", "handling", "writing", "data",
                   "receiving", "gone"},
             state : {"offline", "command", "complete", "error"}, known : BOOLEAN,
             script : Seq(Packets \cup {"stop", "leave"}), step : Nat \ {0},
             left : 0..MaxTransfers, len : 0..MaxTransfers]
  /\ dl \in Buffers
  /\ told \in Seq(Packets)

Waiting == fb.pc \in {"reading", "writing", "receiving"}

\* The one request, with its status and length, belongs to the transfer the
\* thread waits for: it is queued or txn_done is signalled, never both, exactly
\* while the thread waits, so no completion is taken for that of another
\* transfer and no buffer is in use when the thread goes on.
OneTransfer ==
  /\ Waiting <=> (usb.req # "none" \/ ev.done)
  /\ ~(usb.req # "none" /\ ev.done)
  /\ usb.req # "none" => (usb.req = "in" <=> fb.pc = "writing")

FirstFinal == CHOOSE i \in DOMAIN fb.script :
                fb.script[i] \in Finals /\ \A j \in 1..(i - 1) : fb.script[j] \notin Finals
Verdict == SubSeq(fb.script, 1, FirstFinal)

\* The host is told what the handler says first, and once: cmd_flash ends in
\* fastboot_okay whatever has failed before, and no OKAY may follow that FAIL.
\* A command with a handler has been answered when the next one is read.
AnswerIsFirstVerdict ==
  /\ told # <<>> => IsPrefix(told, Verdict)
  /\ fb.pc \in {"loop", "reading"} /\ fb.known /\ fb.state = "complete" => told = Verdict

\* What cmd_boot starts, and what cmd_flash writes of an image that is not
\* sparse, is all of one download, the last that was begun: whatever broke off
\* in between, no such image is put together from parts of two.  A sparse image
\* is another matter: cmd_flash looks for one in the buffer before it looks at
\* download_size, so it may write the chunks of a download that broke off.
DownloadIsWhole ==
  ~dl.use.sparse => dl.use.whole

Listening == usb.req = "out" /\ ~usb.stale

\* Once the link is up the thread comes to read from it, however the last
\* connection ended and whatever it was doing meanwhile, unless the link goes
\* down or fails again, or the device is left.
ServesConnection ==
  usb.link = "up" ~> Listening \/ usb.link # "up" \/ usb.fault \/ fb.pc = "gone"
=============================================================================
