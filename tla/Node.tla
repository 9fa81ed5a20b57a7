-------------------------------- MODULE Node --------------------------------
(***************************************************************************)
(* A node from its configuration to its calls: the commands that make its  *)
(* table, the start of its threads and their use of the drivers.  Once the *)
(* process of the node is started the files are not looked at again.       *)
(***************************************************************************)
EXTENDS Configuration, Firmware

vars == <<overall, split, origin, phase, interface_info_array,
          next, initialized_flags, fds, threads,
          srcmac, dstmac, can_array, call, calls, arrivals, leaked, packets, dealt>>

Init ==
    /\ ConfigInit
    /\ phase = "shell"
    /\ interface_info_array = << >>
    /\ StartInit
    /\ FirmwareInit

Configure ==
    /\ ConfigNext
    /\ call' = [i \in DOMAIN interface_info_array' |-> Idle]
    /\ UNCHANGED <<startVars, srcmac, dstmac, can_array, calls, arrivals, leaked,
                   packets, dealt>>

Start == StartNext /\ UNCHANGED <<configVars, firmwareVars>>

Work == FirmwareNext /\ UNCHANGED configVars

Die == (\E i \in threads : Dies(i)) /\ UNCHANGED configVars

Next == Configure \/ Start \/ Work \/ Die

Spec == Init /\ [][Next]_vars

(* What TypeOK asks of the documents: the loaders take any text for a       *)
(* status.                                                                  *)
StatusesKnown ==
    \A document \in Documents : Converts(document) =>
        \A k \in DOMAIN xmlToJson(document) :
            Has(xmlToJson(document)[k], "status") =>
                xmlToJson(document)[k].status \in Statuses

(* In every state, whatever fails: descriptors and threads belong to the    *)
(* table, a thread is at one place of a call and holds a descriptor only    *)
(* between socket and close, and a call ends where it began.                *)
TypeOK ==
    /\ phase \in {"shell", "initialise", "create", "run", "crashed", "exited"}
    /\ \A n \in Nodes : split[n].is = "array" => origin[n].is = "array"
    /\ next \in 1..Len(interface_info_array) + 1
    /\ Len(initialized_flags) <= Len(interface_info_array)
    /\ threads \subseteq {i \in DOMAIN initialized_flags : initialized_flags[i]}
    /\ \A fd \in Fds \ Free : fds[fd].kind \in {"packet", "udp", "can", "port"}
    /\ leaked \subseteq Fds
    /\ calls \in 0..MaxCalls
    /\ DOMAIN call = Entries
    /\ \A i \in Entries :
           /\ interface_info_array[i].status \in Statuses
           /\ interface_info_array[i].initialized_flag \in {-1, 1}
           /\ call[i].at \in {"idle", "socket", "bind", "send", "receive", "copy",
                              "clear"} \cup InPacket
           /\ call[i].fd # Null <=>
                  \/ call[i].at = "bind"
                  \/ call[i].at \in {"send", "receive"}
                     /\ Driver(i) \notin {"send_packet_xy", "receive_packet_xy"}
           /\ call[i].fd # Null => call[i].fd \in Fds \ Free
=============================================================================
