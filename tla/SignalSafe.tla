----------------------------- MODULE SignalSafe -----------------------------
(***************************************************************************)
(* horust/src/horust/signal_safe.rs: how a child between fork and exec     *)
(* reports a failure.  Text is a sequence of parts; only the number is     *)
(* spelled out, in digits.                                                 *)
(***************************************************************************)
EXTENDS Integers, Sequences, SequencesExt

(* The digits of n > 0 with the last one first, as the loop produces them. *)
DigitsOf[n \in Nat] ==
  IF n = 0 THEN <<>> ELSE <<n % 10>> \o DigitsOf[(n - (n % 10)) \div 10]

(* Variation: there is no case for 0.                                      *)
NoZero(num) ==
  LET size == IF num < 0 THEN -num ELSE num
  IN (IF num < 0 THEN <<"-">> ELSE <<>>) \o Reverse(DigitsOf[size])

I32ToStrBytes(num) ==
  LET size == IF num < 0 THEN -num ELSE num
      digits == IF num = 0 THEN <<0>> ELSE DigitsOf[size]
  IN (IF num < 0 THEN <<"-">> ELSE <<>>) \o Reverse(digits)

(* The standard error of the child, and what has been written to it.       *)
Screen == [open |-> TRUE, text |-> <<>>]

(* write(stderr(), ..): the OwnedFd made of file descriptor 2 closes it    *)
(* when it is dropped, after this write.                                   *)
Eprint(screen, part) ==
  [open |-> FALSE,
   text |-> IF screen.open THEN Append(screen.text, part) ELSE screen.text]

EprintErrno(screen, errno) ==
  FoldLeft(Eprint, screen,
           <<"\n", "Errno: (", I32ToStrBytes(errno), ") ", "desc", "\n">>)

(* panic_ssafe: the name of the service, the message, the error.           *)
PanicText(name, message, errno) ==
  EprintErrno(FoldLeft(Eprint, Screen, <<name, ": ", message>>), errno).text

=============================================================================
