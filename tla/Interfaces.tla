----------------------------- MODULE Interfaces -----------------------------
(***************************************************************************)
(* The table of interfaces of a node and the functions that look it up     *)
(* (base/info_manager.c).                                                  *)
(*                                                                         *)
(* An entry of the table is one end of a link: the test entry of the       *)
(* interface that sends, or the listen entry of the one that listens.  An  *)
(* interface used in both directions has an entry for each.  A name is     *)
(* <<node, label, id, mode>>.  Entries are numbered from 1 here and from 0 *)
(* in the code.                                                            *)
(***************************************************************************)
EXTENDS Integers, Sequences, FiniteSets

CONSTANT Null   \* a pointer that is NULL, a value that is not set

VARIABLES
    interface_info_array,
    phase    \* of the process of the node: "shell" before it is started, then
             \* "initialise", "create", "run", or "crashed" or "exited"

Entries == DOMAIN interface_info_array

SendFuncs    == {"send_packet_by_ip_addr", "send_packet_by_mac_addr",
                 "send_packet_xy", "send_packet_rs485",
                 "send_packet_can_fpu", "send_packet_can_gpu"}
ReceiveFuncs == {"receive_packet_by_ip_addr", "receive_packet_by_mac_addr",
                 "receive_packet_xy", "receive_packet_rs485",
                 "receive_packet_can_fpu", "receive_packet_can_gpu"}
Statuses     == {"sending", "receiving", "sending_and_receiving", "closed"}

Least(S) == CHOOSE x \in S : \A y \in S : x <= y

(* The fields of f, and those of g that f lacks. *)
Joined(f, g) == [x \in DOMAIN f \cup DOMAIN g |->
                    IF x \in DOMAIN f THEN f[x] ELSE g[x]]

(* The first entry with the name: entries that share a name are all taken   *)
(* for the first of them.  0 stands for the -1 of the code.                 *)
get_interface_index(name) ==
    LET found == {i \in Entries : interface_info_array[i].interface_name = name}
    IN  IF found = {} THEN 0 ELSE Least(found)

(* The entry a thread works on: it is passed the name, not the index. *)
Index(i) == get_interface_index(interface_info_array[i].interface_name)

isValidStatus(status) == status \in Statuses

set_interface_status(array, i, status) ==
    IF isValidStatus(status) THEN [array EXCEPT ![i].status = status] ELSE array

OfType(type) == {j \in Entries : interface_info_array[j].interface_type = type}

get_ip_name_by_index(i)        == interface_info_array[i].eth_info.ip_name
get_ip_addr_by_index(i)        == interface_info_array[i].eth_info.ip_addr
get_net_mask_by_index(i)       == interface_info_array[i].eth_info.net_mask
get_mac_addr_by_index(i)       == interface_info_array[i].eth_info.mac_addr
get_linked_ip_addr_by_index(i)  == interface_info_array[i].linked_eth_info.ip_addr
get_linked_mac_addr_by_index(i) ==
    interface_info_array[i].linked_eth_info.mac_addr
get_rs485_dev_path_by_index(i) ==
    interface_info_array[i].rs485_info.rs485_dev_path
get_channel_id_by_index(i)     == interface_info_array[i].can_info.can_id
=============================================================================
