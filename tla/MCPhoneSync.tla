------------------------------ MODULE MCPhoneSync ------------------------------
(* An instance of PhoneSync for TLC, in which one payer makes all transfers, of
   one amount and so of one text. *)
EXTENDS PhoneSync

OnePayer == [t \in Transfers |-> "payer"]
OneText == [t \in Transfers |-> "te envio"]
=============================================================================
