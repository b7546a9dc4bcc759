-------------------------------- MODULE Verify --------------------------------
(***************************************************************************)
(* The session with the security chip (app/aboot/penta): the commands of   *)
(* secure_boot, one after the other, each written over I2C and then polled *)
(* for at most three seconds.  The chip is not in the repository; it may   *)
(* answer, refuse, or stay mute.  The result of the session is not kept:   *)
(* boot_linux_none_secure does not look at it.                             *)
(*                                                                         *)
(* The sizes of the certificate and of the signature are taken from the    *)
(* image as they are.  One that does not fit the arrays of commands on the *)
(* stack is copied past their end; with that the model of the session ends *)
(* ("overrun"), and the device can only be switched off.                   *)
(***************************************************************************)
EXTENDS Naturals

CONSTANT MaxChunks   \* bound on the full chunks of 240 bytes in a certificate

ASSUME VerifyAssumption == MaxChunks \in Nat

VARIABLE g3   \* the session: pc, the command, the size of the certificate

\* Commands 0 to 5 are those of authentication_g3, 6 to 10 the parts of the
\* certificate, 11 the signature.
LastAuth == 5
FirstPart == 6
LastPart == 10
Signature == 11

NoSession == [pc |-> "idle", command |-> 0, full |-> 0, rest |-> FALSE]

VerifyInit == g3 = NoSession

\* Back to the caller, whatever the result.
SessionOver == [NoSession EXCEPT !.pc = "over"]

\* bootimg_secureboot and secure_boot up to the first command: the signature
\* and the image are read and hashed, the magic is compared, and the chip is
\* awake.
VerifyBegin ==
  /\ g3.pc = "idle"
  /\ g3' = SessionOver \/ g3' = [NoSession EXCEPT !.pc = "send"]

\* write_to_puf.
G3Send ==
  /\ g3.pc = "send"
  /\ \/ g3' = [g3 EXCEPT !.pc = "wait"]
     \/ g3' = SessionOver

\* verify_cert_g3 begins: load_cert_chunked fills all the parts before the first
\* is sent, one for each full chunk and one for what is behind, of the five that
\* there are.  cert_size is what the image says.
LoadCertificate ==
  \E full \in 0..MaxChunks, rest \in BOOLEAN :
    g3' = [pc |-> IF full > LastPart - FirstPart THEN "overrun" ELSE "send",
           command |-> FirstPart, full |-> full, rest |-> rest]

\* verify_sig_g3 begins: the signature has room in the command, up to 216 bytes,
\* or is too long.  signature_size is what the image says.
LoadSignature ==
  \E p \in {"send", "overrun"} : g3' = [NoSession EXCEPT !.pc = p, !.command = Signature]

\* load_cert_chunked ends the certificate with its rest.  With no rest, what
\* stands behind the last full chunk is not initialised, and may look like an
\* end of the certificate or not.
EndsCertificate(part) ==
  IF part < g3.full THEN {FALSE}
  ELSE IF part = g3.full /\ g3.rest THEN {TRUE} ELSE BOOLEAN

\* The loops of authentication_g3 and verify_cert_g3, and what follows them.
NextCommand == g3' = [g3 EXCEPT !.pc = "send", !.command = @ + 1]

GoOn ==
  \/ g3.command < LastAuth /\ NextCommand
  \/ g3.command = LastAuth /\ LoadCertificate
  \/ /\ g3.command \in FirstPart..LastPart
     /\ \E end \in EndsCertificate(g3.command - FirstPart) :
          IF end \/ g3.command = LastPart THEN LoadSignature ELSE NextCommand

\* The chip accepts the command, or refuses it; the session goes on after a
\* refusal of the first command, and is over after the signature either way.
G3Answer ==
  /\ g3.pc = "wait"
  /\ (g3.command # 0 /\ g3' = SessionOver) \/ GoOn

\* Mutant of G3TimeOut: the start time is read again for each poll.
G3NeverTimesOut == g3.pc = "wait" /\ UNCHANGED g3

\* WAIT_FOR_G3_RES: three seconds without an answer, or a read that fails.
G3TimeOut == g3.pc = "wait" /\ g3' = SessionOver

G3TypeOK ==
  g3 \in [pc : {"idle", "send", "wait", "over", "overrun"}, command : 0..Signature,
          full : 0..MaxChunks, rest : BOOLEAN]
=============================================================================
