-------------------------- MODULE MCLogSearchSerial -------------------------
(* An instance of LogSearchSerial for TLC. *)
EXTENDS LogSearchSerial

SixWorkloads == <<"api", "cart", "db", "orders", "queue", "web">>

=============================================================================
