---------------------------- MODULE MCWarehouseETL ----------------------------
(* An instance of WarehouseETL for TLC. *)
EXTENDS WarehouseETL

MediaThenOrders == <<"uuid", "joined">>
=============================================================================
