---------------------------- MODULE MCPciConfig -----------------------------
(* PciConfig for TLC: plain storage registers.                             *)
EXTENDS PciConfig

StoreAll(r, old, new) == new
=============================================================================
