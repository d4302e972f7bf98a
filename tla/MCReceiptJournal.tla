------------------------- MODULE MCReceiptJournal -------------------------
(***************************************************************************)
(* Small journals for checking ReceiptJournal.                             *)
(***************************************************************************)
EXTENDS ReceiptJournal

CONSTANTS f, g

SomeCalls ==
  {[kind |-> "single", targets |-> <<f>>],
   [kind |-> "batch", targets |-> <<f, g>>],
   [kind |-> "refusal", targets |-> <<f, g>>],
   [kind |-> "deletions", targets |-> <<f, g>>]}
=============================================================================
