----------------------------- MODULE NodeProofs -----------------------------
(***************************************************************************)
(* Proofs about Node for any documents, nodes and bounds: who owns a       *)
(* descriptor, what a started thread finds, of what the process dies, which*)
(* addresses a packet carries and from which device a message comes.       *)
(*                                                                         *)
(* The invariants come first, each on top of those before it: what the     *)
(* files hold (FilesInv), how far the main thread is (PhaseInv), where     *)
(* each thread is in its call (CallInv), whose the descriptors are         *)
(* (DescriptorInv); then, beside each other, which entries are flagged     *)
(* (FlagInv), what the packets in the making hold (AddrInv) and what the   *)
(* frames waiting and the messages dealt are (FrameInv).                   *)
(* Apart from these, what a file of a node was made from (SplitInv), and   *)
(* the bounds that complete the types (BoundsInv).                         *)
(***************************************************************************)
EXTENDS Node, FiniteSetTheorems, TLAPS

-----------------------------------------------------------------------------
(* The fields of an entry that are read after it is loaded, and those that  *)
(* change.                                                                  *)
Fixed == {"interface_name", "mode", "interface_type", "initializer_name",
          "base_send_func", "base_receive_func", "eth_info", "can_info",
          "rs485_info", "linked_eth_info"}
Mutable == {"status", "initialized_flag", "fd"}

HasFields(table) == \A i \in DOMAIN table : Fixed \cup Mutable \subseteq DOMAIN table[i]

SameEntries(old, new) ==
    /\ DOMAIN new = DOMAIN old
    /\ \A i \in DOMAIN old : /\ DOMAIN new[i] = DOMAIN old[i]
                             /\ \A f \in Fixed : new[i][f] = old[i][f]

(* What the settings of an entry depend on: nothing but its name.           *)
OfTheName == Fixed \ {"linked_eth_info"}

(* A table: entries numbered from 1, each with the settings of its type and *)
(* of no other, and with its settings determined by its name.               *)
WellMade(table) ==
    /\ Len(table) \in Nat
    /\ DOMAIN table = 1..Len(table)
    /\ HasFields(table)
    /\ \A i \in DOMAIN table :
           /\ table[i].interface_type # "eth" => table[i].eth_info.ip_addr = Null
           /\ table[i].interface_type # "rs485" =>
                  table[i].rs485_info.rs485_dev_path = Null
    /\ \A i, j \in DOMAIN table :
           table[i].interface_name = table[j].interface_name =>
               \A f \in OfTheName : table[i][f] = table[j][f]

Fresh(table) == \A i \in DOMAIN table :
    table[i].initialized_flag = -1 /\ table[i].fd = Null

-----------------------------------------------------------------------------
FilesInv ==
    LET Written == {xmlToJson(document) : document \in {d \in Documents : Converts(d)}}
    IN  /\ overall.is = "array" => overall.array \in Written
        /\ \A n \in Nodes : split[n].is = "array" =>
               \/ split[n].array = write_interface_info_array_to_json(<< >>)
               \/ \E array \in Written :
                    /\ OverallLoads(n, array)
                    /\ split[n].array = write_interface_info_array_to_json(
                         read_interface_info_array_from_overall_json(n, array))

Untouched ==
    /\ interface_info_array = << >>
    /\ next = 1 /\ initialized_flags = << >> /\ threads = {}
    /\ fds = [fd \in Fds |-> Vacant]
    /\ can_array = [channel \in {0, 1} |-> Zeros]
    /\ leaked = {} /\ packets = {} /\ dealt = {}

PhaseInv ==
    /\ WellMade(interface_info_array)
    /\ DOMAIN call = Entries
    /\ initialized_flags \in Seq(BOOLEAN)
    /\ threads \subseteq Entries
    /\ phase \in {"shell", "initialise", "create", "run", "crashed", "exited"}
    /\ phase = "shell" => Untouched
    /\ phase = "initialise" =>
           /\ next = Len(initialized_flags) + 1
           /\ Len(initialized_flags) <= Len(interface_info_array)
           /\ threads = {}
    /\ phase \in {"create", "run"} =>
           Len(initialized_flags) = Len(interface_info_array)
    /\ phase = "create" =>
           /\ next \in 1..Len(interface_info_array) + 1
           /\ threads = {i \in 1..next - 1 : initialized_flags[i]}
    /\ phase = "run" => threads = {i \in Entries : initialized_flags[i]}

-----------------------------------------------------------------------------
SocketDriver(i) ==
    \/ Sends(i) /\ SendFunc(i) \in {"send_packet_by_mac_addr",
                                    "send_packet_by_ip_addr", "send_packet_can_gpu"}
    \/ Receives(i) /\ ReceiveFunc(i) \in {"receive_packet_by_mac_addr",
                                          "receive_packet_by_ip_addr",
                                          "receive_packet_can_gpu"}

CallFields == {"at", "fd", "src", "dst", "msg", "mixed"}

PlaceOf(i, at) ==
    \/ at = "idle"
    \/ at \in InPacket /\ Sends(i)
           /\ SendFunc(i) \in {"send_packet_by_mac_addr", "send_packet_xy"}
    \/ at = "socket" /\ SocketDriver(i)
    \/ at = "bind" /\ SocketDriver(i) /\ Binds(i)
    \/ at = "send" /\ Sends(i)
           /\ (SocketDriver(i) \/ SendFunc(i) = "send_packet_xy")
    \/ at = "receive" /\ Receives(i)
           /\ (SocketDriver(i) \/ ReceiveFunc(i) = "receive_packet_xy")
    \/ at \in {"copy", "clear"} /\ Receives(i)
           /\ ReceiveFunc(i) = "receive_packet_can_gpu"

Holds(i, at) ==
    at = "bind" \/ (at \in {"send", "receive"} /\ SocketDriver(i))

CallOf(i, c) ==
    /\ CallFields \subseteq DOMAIN c
    /\ c.at # "idle" => i \in threads
    /\ PlaceOf(i, c.at)
    /\ c.fd \in Fds \cup {Null}
    /\ c.fd # Null <=> Holds(i, c.at)

CallInv == \A i \in Entries : CallOf(i, call[i])

-----------------------------------------------------------------------------
DescriptorFields == {"kind", "device", "bound", "frames"}

FdTypeInv ==
    /\ DOMAIN fds = Fds
    /\ \A fd \in Fds \ Free :
           /\ DescriptorFields \subseteq DOMAIN fds[fd]
           /\ fds[fd].kind \in {"packet", "udp", "can", "port"}

(* A descriptor of the table is open, is that of its card or its path, and  *)
(* was opened for an entry that is initialised, as are the others of the    *)
(* card or the path.                                                        *)
InTable(i) ==
    LET e == interface_info_array[i]
    IN  /\ e.initialized_flag = 1
        /\ e.fd \in Fds \ Free
        /\ \/ /\ e.interface_type = "eth"
              /\ fds[e.fd].kind = "packet" /\ fds[e.fd].device = Card(i)
           \/ /\ e.interface_type = "rs485"
              /\ fds[e.fd].kind = "port" /\ fds[e.fd].device = Port(i)

SameDevice(i, j) == \/ i \in SameCard(j) /\ j \in SameCard(i)
                    \/ i \in SamePort(j) /\ j \in SamePort(i)

TableInv ==
    /\ \A i \in Entries :
           /\ interface_info_array[i].initialized_flag \in {-1, 1}
           /\ interface_info_array[i].fd # Null => InTable(i)
    /\ \A i, j \in Entries : SameDevice(i, j) =>
           interface_info_array[i].initialized_flag
               = interface_info_array[j].initialized_flag

(* Who owns the open descriptors. *)
OfCall(i)  == call[i].fd
OfTable(i) == interface_info_array[i].fd

OwnInv ==
    /\ leaked \subseteq Fds \ Free
    /\ \A i \in Entries : OfCall(i) # Null =>
           /\ OfCall(i) \in Fds \ Free
           /\ OfCall(i) \notin leaked
           /\ \A j \in Entries : /\ OfTable(j) # OfCall(i)
                                 /\ OfCall(j) = OfCall(i) => j = i
    /\ \A j \in Entries : OfTable(j) \notin leaked
    /\ \A fd \in Fds \ Free :
           \/ fd \in leaked
           \/ \E i \in Entries : OfCall(i) = fd \/ OfTable(i) = fd

DescriptorInv == FdTypeInv /\ TableInv /\ OwnInv

-----------------------------------------------------------------------------
(* Who flagged an entry that has no descriptor, and what the initialisers   *)
(* that open one left for the entries they succeeded for.                   *)
StartedBy(i, initializer, type) ==
    /\ interface_info_array[i].initializer_name = initializer
    /\ interface_info_array[i].interface_type = type

FlaggedBefore(i, n) == \E j \in SameCard(i) :
    j < n /\ interface_info_array[j].initializer_name = "eth_initializer_normal"

FlagInv ==
    /\ phase = "initialise" => \A i \in Entries :
           (interface_info_array[i].initialized_flag = 1 /\ OfTable(i) = Null) =>
               /\ interface_info_array[i].interface_type # "rs485"
               /\ interface_info_array[i].interface_type = "eth" =>
                      FlaggedBefore(i, next)
    /\ phase \in {"initialise", "create", "run"} =>
           \A i \in DOMAIN initialized_flags : initialized_flags[i] =>
               /\ StartedBy(i, "eth_initializer_xy", "eth") /\ ~FlaggedBefore(i, i) =>
                      OfTable(Index(i)) # Null
               /\ StartedBy(i, "rs485_initializer_normal", "rs485") =>
                      OfTable(Index(i)) # Null

-----------------------------------------------------------------------------
(* The addresses of the packet a thread makes, unless another makes one at  *)
(* the same time: in the shared arrays from when they are converted to when *)
(* they are copied, and in the packet from then on.                         *)
MakesPacket(i) == call[i].at \in InPacket

PacketSender(i) ==
    Sends(i) /\ SendFunc(i) \in {"send_packet_by_mac_addr", "send_packet_xy"}

Addressed(i, c) ==
    LET src == get_mac_addr_by_index(Index(i))
        dst == get_linked_mac_addr_by_index(Index(i))
    IN  (PacketSender(i) /\ ~c.mixed /\ src \in WellFormed /\ dst \in WellFormed) =>
            /\ c.at \in {"destination", "copy destination", "copy source"} => srcmac = src
            /\ c.at = "copy destination" => dstmac = dst
            /\ c.at \in {"copy source", "socket", "send"} => c.dst = dst
            /\ c.at \in {"socket", "send"} => c.src = src

AddrInv ==
    /\ \A i, j \in Entries : (MakesPacket(i) /\ MakesPacket(j) /\ i # j) => call[i].mixed
    /\ \A i \in Entries : call[i].mixed \in BOOLEAN /\ Addressed(i, call[i])
    /\ \A p \in packets : p.entry \in Entries
    /\ AddressesOfLink

-----------------------------------------------------------------------------
(* The frames that may wait in a descriptor: those of its device, and in a  *)
(* packet socket those that came before it was bound.                       *)
EarlySet == {[device |-> Card(i), early |-> TRUE] : i \in Entries}

FramesOf(kind, device) ==
    (IF kind = "packet" THEN EarlySet ELSE {})
    \cup (IF kind = "port" \/ device = NoDevice THEN {}
          ELSE {[device |-> device, early |-> FALSE]})

WaitInv ==
    \A fd \in Fds \ Free :
        /\ fds[fd].bound = (fds[fd].device # NoDevice)
        /\ fds[fd].frames \in Seq(FramesOf(fds[fd].kind, fds[fd].device))

(* The socket of a call: of its kind, and bound to its device to receive.   *)
SocketInv ==
    \A i \in Entries : OfCall(i) # Null =>
        /\ fds[OfCall(i)].kind = SocketKind(i)
        /\ call[i].at = "bind" => fds[OfCall(i)].device = NoDevice
        /\ call[i].at = "receive" => fds[OfCall(i)].device = Device(i)

(* The arrays of the CAN channels: zeros only where another entry listens   *)
(* to the channel too.                                                      *)
OtherListener(i) ==
    \E j \in Entries \ {i} :
        /\ Receives(j) /\ ReceiveFunc(j) = "receive_packet_can_gpu"
        /\ Channel(Index(j)) = Channel(Index(i))

ArrayInv ==
    /\ DOMAIN can_array = {0, 1}
    /\ \A c \in {0, 1} : can_array[c] = Zeros \/ can_array[c].device = <<"channel", c>>
    /\ \A i \in Entries :
           /\ (call[i].at = "copy" /\ can_array[Device(i)[2]] = Zeros) => OtherListener(i)
           /\ call[i].at = "clear" =>
                  \/ call[i].msg.device = Channel(Index(i))
                  \/ call[i].msg = Zeros /\ OtherListener(i)

(* What was dealt, and when.                                                *)
MsgOf(k, msg) ==
    LET e == interface_info_array[k]
    IN  \/ /\ e.base_receive_func = "receive_packet_by_mac_addr"
           /\ msg.early \/ msg.device = Card(k)
        \/ /\ e.base_receive_func = "receive_packet_xy"
           /\ e.fd = Null \/ msg.early \/ msg.device = Card(k)
        \/ /\ e.base_receive_func = "receive_packet_by_ip_addr"
           /\ msg.device = Address(k)
        \/ /\ e.base_receive_func = "receive_packet_can_gpu"
           /\ \/ msg.device = Channel(k)
              \/ /\ msg = Zeros
                 /\ \E i, j \in Entries :
                        /\ i # j
                        /\ \A m \in {i, j} :
                               /\ interface_info_array[m].mode = "listen"
                               /\ interface_info_array[m].base_receive_func
                                      = "receive_packet_can_gpu"
                               /\ Channel(m) = Channel(k)

DealtInv ==
    /\ phase = "initialise" => dealt = {}
    /\ \A d \in dealt : d.entry \in Entries /\ MsgOf(d.entry, d.msg)

FrameInv == WaitInv /\ SocketInv /\ ArrayInv /\ DealtInv

-----------------------------------------------------------------------------
(* Least elements, and the entry a thread works on.                         *)
Less == {p \in Nat \X Nat : p[1] < p[2]}

LEMMA LessWellFounded == IsWellFoundedOn(Less, Nat)
  BY NatLessThanWellFounded DEF OpToRel, Less

LEMMA LeastIn ==
  ASSUME NEW S, S \subseteq Nat, S # {}
  PROVE  /\ Least(S) \in S
         /\ \A y \in S : Least(S) <= y
<1>1. PICK x \in S : \A y \in S : <<y, x>> \notin Less
  BY LessWellFounded, WFMin
<1>2. ASSUME NEW y \in S PROVE x <= y
  <2>1. x \in Nat /\ y \in Nat
    BY <1>2
  <2>2. ~(y < x)
    BY <1>1, <2>1, <1>2 DEF Less
  <2> QED BY <2>1, <2>2
<1> QED BY <1>1, <1>2 DEF Least

LEMMA IndexIn ==
  ASSUME WellMade(interface_info_array), NEW i \in Entries
  PROVE  /\ Index(i) \in Entries
         /\ interface_info_array[Index(i)].interface_name
                = interface_info_array[i].interface_name
<1> DEFINE name == interface_info_array[i].interface_name
           found == {j \in Entries : interface_info_array[j].interface_name = name}
<1>1. found \subseteq Nat /\ found # {}
  BY DEF WellMade, Entries
<1>2. Least(found) \in found
  BY <1>1, LeastIn
<1>3. Index(i) = Least(found)
  BY <1>1 DEF Index, get_interface_index
<1> QED BY <1>2, <1>3

LEMMA SettingsOfIndex ==
  ASSUME WellMade(interface_info_array), NEW i \in Entries, NEW f \in OfTheName
  PROVE  interface_info_array[Index(i)][f] = interface_info_array[i][f]
  BY IndexIn DEF WellMade, Entries

(* What setting a status or flags leaves alone. *)
LEMMA StatusSet ==
  ASSUME NEW table, NEW k \in DOMAIN table, NEW status, HasFields(table)
  PROVE  LET set == set_interface_status(table, k, status)
         IN  /\ SameEntries(table, set)
             /\ \A j \in DOMAIN table :
                    /\ set[j].fd = table[j].fd
                    /\ set[j].initialized_flag = table[j].initialized_flag
  BY DEF set_interface_status, SameEntries, HasFields, Fixed, Mutable

LEMMA FlaggedSet ==
  ASSUME NEW table, NEW S, HasFields(table)
  PROVE  LET set == Flagged(table, S)
         IN  /\ SameEntries(table, set)
             /\ \A j \in DOMAIN table :
                    /\ set[j].fd = table[j].fd
                    /\ set[j].initialized_flag =
                           IF j \in S THEN 1 ELSE table[j].initialized_flag
  BY DEF Flagged, SameEntries, HasFields, Fixed, Mutable

LEMMA FlaggedWithSet ==
  ASSUME NEW table, NEW S, NEW fd, HasFields(table)
  PROVE  LET set == FlaggedWith(table, S, fd)
         IN  /\ SameEntries(table, set)
             /\ \A j \in DOMAIN table :
                    /\ set[j].fd = IF j \in S THEN fd ELSE table[j].fd
                    /\ set[j].initialized_flag =
                           IF j \in S THEN 1 ELSE table[j].initialized_flag
  BY DEF FlaggedWith, SameEntries, HasFields, Fixed, Mutable

LEMMA SameTransitive ==
  ASSUME NEW a, NEW b, NEW c, SameEntries(a, b), SameEntries(b, c)
  PROVE  SameEntries(a, c)
  BY DEF SameEntries

LEMMA SameFields ==
  ASSUME NEW a, NEW b, SameEntries(a, b), HasFields(a)
  PROVE  HasFields(b)
  BY DEF SameEntries, HasFields

LEMMA SameWellMade ==
  ASSUME NEW a, NEW b, SameEntries(a, b), WellMade(a)
  PROVE  WellMade(b)
<1>1. HasFields(b)
  BY SameFields DEF WellMade
<1>2. DOMAIN b = 1..Len(a) /\ Len(a) \in Nat
  BY DEF SameEntries, WellMade
<1>3. Len(b) = Len(a)
  BY <1>2
<1>4. DOMAIN b = DOMAIN a /\ \A i \in DOMAIN b : \A f \in Fixed : b[i][f] = a[i][f]
  BY DEF SameEntries
<1>5. \A i \in DOMAIN b :
          /\ b[i].interface_type = a[i].interface_type
          /\ b[i].interface_name = a[i].interface_name
          /\ b[i].eth_info = a[i].eth_info
          /\ b[i].rs485_info = a[i].rs485_info
  BY <1>4 DEF Fixed
<1>6. \A i, j \in DOMAIN b :
          b[i].interface_name = b[j].interface_name =>
               \A f \in OfTheName : b[i][f] = b[j][f]
  BY <1>4, <1>5 DEF WellMade, OfTheName
<1>7. \A i \in DOMAIN b :
           /\ b[i].interface_type # "eth" => b[i].eth_info.ip_addr = Null
           /\ b[i].interface_type # "rs485" => b[i].rs485_info.rs485_dev_path = Null
  <2>1. \A i \in DOMAIN a :
           /\ a[i].interface_type # "eth" => a[i].eth_info.ip_addr = Null
           /\ a[i].interface_type # "rs485" => a[i].rs485_info.rs485_dev_path = Null
    BY DEF WellMade
  <2>2. DOMAIN b = DOMAIN a
    BY <1>4
  <2> QED BY <1>5, <2>1, <2>2
<1> QED BY <1>1, <1>2, <1>3, <1>6, <1>7 DEF WellMade

(* What is read of an entry stays as it was when the table keeps its        *)
(* entries.                                                                 *)
LEMMA EntriesKept ==
  ASSUME SameEntries(interface_info_array, interface_info_array'),
         WellMade(interface_info_array)
  PROVE  /\ Entries' = Entries
         /\ \A i \in Entries : Index(i)' = Index(i)
<1>1. Entries' = Entries
  BY DEF SameEntries, Entries
<1>2. \A j \in Entries : interface_info_array'[j].interface_name
                             = interface_info_array[j].interface_name
  BY DEF SameEntries, Fixed, Entries
<1>3. ASSUME NEW i \in Entries PROVE Index(i)' = Index(i)
  <2>1. {j \in Entries : interface_info_array[j].interface_name
                             = interface_info_array[i].interface_name}'
        = {j \in Entries : interface_info_array[j].interface_name
                             = interface_info_array[i].interface_name}
    BY <1>1, <1>2
  <2> QED BY <2>1 DEF Index, get_interface_index
<1> QED BY <1>1, <1>3

LEMMA FixedKept ==
  ASSUME SameEntries(interface_info_array, interface_info_array'),
         NEW i \in Entries
  PROVE  LET old == interface_info_array[i]
             new == interface_info_array'[i]
         IN  /\ new.interface_name = old.interface_name
             /\ new.mode = old.mode
             /\ new.interface_type = old.interface_type
             /\ new.initializer_name = old.initializer_name
             /\ new.base_send_func = old.base_send_func
             /\ new.base_receive_func = old.base_receive_func
             /\ new.eth_info = old.eth_info
             /\ new.can_info = old.can_info
             /\ new.rs485_info = old.rs485_info
             /\ new.linked_eth_info = old.linked_eth_info
  BY DEF SameEntries, Fixed, Entries

LEMMA ReadingsKept ==
  ASSUME SameEntries(interface_info_array, interface_info_array'),
         WellMade(interface_info_array)
  PROVE  \A i \in Entries :
            /\ Card(i)' = Card(i) /\ Port(i)' = Port(i)
            /\ Address(i)' = Address(i) /\ Channel(i)' = Channel(i)
            /\ SameCard(i)' = SameCard(i) /\ SamePort(i)' = SamePort(i)
            /\ Sends(i)' = Sends(i) /\ Receives(i)' = Receives(i)
            /\ SendFunc(i)' = SendFunc(i) /\ ReceiveFunc(i)' = ReceiveFunc(i)
<1> TAKE i \in Entries
<1>1. Entries' = Entries /\ Index(i)' = Index(i) /\ Index(i) \in Entries
  BY EntriesKept, IndexIn
<1>2. Card(i)' = Card(i) /\ Port(i)' = Port(i) /\ Address(i)' = Address(i)
      /\ Channel(i)' = Channel(i)
  BY FixedKept DEF Card, Port, Address, Channel, get_ip_name_by_index,
       get_rs485_dev_path_by_index, get_ip_addr_by_index, get_channel_id_by_index
<1>3. SameCard(i)' = SameCard(i) /\ SamePort(i)' = SamePort(i)
  <2>1. \A j \in Entries :
           /\ interface_info_array'[j].interface_type = interface_info_array[j].interface_type
           /\ interface_info_array'[j].eth_info = interface_info_array[j].eth_info
           /\ interface_info_array'[j].rs485_info = interface_info_array[j].rs485_info
    BY FixedKept
  <2> QED BY <2>1, <1>1 DEF SameCard, SamePort, OfType, get_ip_name_by_index,
                get_rs485_dev_path_by_index
<1>4. /\ Sends(i)' = Sends(i) /\ Receives(i)' = Receives(i)
      /\ SendFunc(i)' = SendFunc(i) /\ ReceiveFunc(i)' = ReceiveFunc(i)
  <2>1. /\ interface_info_array'[Index(i)].mode = interface_info_array[Index(i)].mode
        /\ interface_info_array'[Index(i)].base_send_func
               = interface_info_array[Index(i)].base_send_func
        /\ interface_info_array'[Index(i)].base_receive_func
               = interface_info_array[Index(i)].base_receive_func
    BY <1>1, FixedKept
  <2> QED BY <2>1, <1>1 DEF Sends, Receives, SendFunc, ReceiveFunc, Entry
<1> QED BY <1>2, <1>3, <1>4

-----------------------------------------------------------------------------
(* What a step does to the table of a node that was started.                *)
SameDevices(old, new) ==
    /\ SameEntries(old, new)
    /\ \A j \in DOMAIN old : /\ new[j].fd = old[j].fd
                             /\ new[j].initialized_flag = old[j].initialized_flag

LEMMA SameItself ==
  ASSUME NEW table PROVE SameDevices(table, table)
  BY DEF SameDevices, SameEntries

LEMMA StatusOfIndex ==
  ASSUME WellMade(interface_info_array), NEW i \in Entries, NEW status
  PROVE  /\ SameDevices(interface_info_array,
                        set_interface_status(interface_info_array, Index(i), status))
         /\ SameDevices(interface_info_array, set_status(i, status))
<1>1. Index(i) \in DOMAIN interface_info_array
  BY IndexIn DEF Entries
<1>2. SameDevices(interface_info_array,
                  set_interface_status(interface_info_array, Index(i), status))
  BY <1>1, StatusSet DEF SameDevices, WellMade
<1> QED BY <1>2, SameItself DEF set_status

LEMMA InitialiserStep ==
  ASSUME WellMade(interface_info_array), initializer_transfer
  PROVE  /\ phase = "initialise" /\ next \in Entries
         /\ SameEntries(interface_info_array, interface_info_array')
         /\ \/ \E success \in BOOLEAN : Initialised(success)
            \/ Crash
<1> USE DEF Initialising
<1>0. SameEntries(interface_info_array, interface_info_array)
  BY DEF SameEntries
<1>1. HasFields(interface_info_array)
  BY DEF WellMade
<1>2. ASSUME NEW i \in Entries, AlreadyInitialised(i) \/ Refuse \/ Crash
      PROVE  /\ SameEntries(interface_info_array, interface_info_array')
             /\ \/ \E success \in BOOLEAN : Initialised(success)
                \/ Crash
  BY <1>0, <1>2 DEF AlreadyInitialised, Refuse, Crash
<1>3. ASSUME NEW i \in Entries, NEW status, NEW S
      PROVE  LET set == set_interface_status(interface_info_array, i, status)
             IN  /\ SameEntries(interface_info_array, set)
                 /\ SameEntries(interface_info_array, Flagged(set, S))
                 /\ \A fd : SameEntries(interface_info_array, FlaggedWith(set, S, fd))
  <2> DEFINE set == set_interface_status(interface_info_array, i, status)
  <2>1. SameEntries(interface_info_array, set)
    BY <1>1, StatusSet DEF Entries
  <2>2. HasFields(set)
    BY <1>1, <2>1, SameFields
  <2> HIDE DEF set
  <2>3. SameEntries(set, Flagged(set, S))
        /\ \A fd : SameEntries(set, FlaggedWith(set, S, fd))
    BY <2>2, FlaggedSet, FlaggedWithSet
  <2> QED BY <2>1, <2>3, SameTransitive DEF set
<1>4. CASE eth_initializer_normal
  <2>1. PICK i \in Entries :
          /\ phase = "initialise" /\ next \in Entries
          /\ \/ AlreadyInitialised(i)
             \/ Refuse
             \/ Crash
             \/ /\ interface_info_array' =
                     Flagged(set_interface_status(interface_info_array, i,
                                       "sending_and_receiving"), SameCard(i))
                /\ Initialised(TRUE)
    BY <1>4 DEF eth_initializer_normal
  <2> QED BY <2>1, <1>2, <1>3
<1>5. CASE eth_initializer_xy
  <2>1. PICK i \in Entries :
          /\ phase = "initialise" /\ next \in Entries
          /\ \/ AlreadyInitialised(i)
             \/ Refuse
             \/ Crash
             \/ /\ interface_info_array' =
                     FlaggedWith(set_interface_status(interface_info_array, i,
                                       "sending_and_receiving"), SameCard(i), NewFd)
                /\ Initialised(TRUE)
             \/ /\ interface_info_array' =
                     set_interface_status(interface_info_array, i,
                                       "sending_and_receiving")
                /\ Initialised(FALSE)
    BY <1>5 DEF eth_initializer_xy
  <2> QED BY <2>1, <1>2, <1>3
<1>6. CASE rs485_initializer_normal
  <2>1. PICK i \in Entries :
          /\ phase = "initialise" /\ next \in Entries
          /\ \/ AlreadyInitialised(i)
             \/ Refuse
             \/ Crash
             \/ /\ interface_info_array' =
                     FlaggedWith(interface_info_array, SamePort(i), NewFd)
                /\ Initialised(TRUE)
    BY <1>6 DEF rs485_initializer_normal, OpenPort
  <2>2. SameEntries(interface_info_array,
                    FlaggedWith(interface_info_array, SamePort(i), NewFd))
    BY <1>1, FlaggedWithSet
  <2> QED BY <2>1, <2>2, <1>2
<1>7. CASE can_fpu_initializer_normal
  <2>1. PICK i \in Entries :
          /\ phase = "initialise" /\ next \in Entries
          /\ \/ AlreadyInitialised(i)
             \/ /\ interface_info_array' =
                     Flagged(set_interface_status(interface_info_array, i,
                                       "receiving"), SameChannel(i))
                /\ Initialised(TRUE)
             \/ /\ interface_info_array' =
                     set_interface_status(interface_info_array, i, "closed")
                /\ Initialised(FALSE)
    BY <1>7 DEF can_fpu_initializer_normal
  <2> QED BY <2>1, <1>2, <1>3
<1>8. CASE can_gpu_initializer_normal
  BY <1>8, <1>0 DEF can_gpu_initializer_normal
<1>9. CASE /\ phase = "initialise" /\ next \in Entries
           /\ interface_info_array[next].initializer_name \notin Initializers
           /\ Refuse
  BY <1>9, <1>2
<1> QED BY <1>4, <1>5, <1>6, <1>7, <1>8, <1>9 DEF initializer_transfer

LEMMA FirmwareStep ==
  ASSUME WellMade(interface_info_array), threads \subseteq Entries, FirmwareNext
  PROVE  /\ Running
         /\ SameDevices(interface_info_array, interface_info_array')
         /\ UNCHANGED <<phase, next, initialized_flags, threads>>
<1>1. SameDevices(interface_info_array, interface_info_array)
  BY SameItself
<1>2. CASE \E device \in Devices : Arrive(device)
  BY <1>1, <1>2 DEF Arrive
<1>3. ASSUME NEW i \in threads, Steps(i)
      PROVE  /\ Running
             /\ SameDevices(interface_info_array, interface_info_array')
             /\ UNCHANGED <<phase, next, initialized_flags, threads>>
  <2>1. CASE send_message(i) \/ receive_message(i)
    <3>1. /\ Running
          /\ UNCHANGED <<phase, next, initialized_flags, threads>>
          /\ \E odd \in BOOLEAN :
                interface_info_array' = set_status(i, status_chooser_transfer(i, odd))
      BY <2>1 DEF send_message, receive_message, Starts, At,
           update_status_in_current_round
    <3> QED BY <3>1, StatusOfIndex
  <2>2. CASE ~(send_message(i) \/ receive_message(i))
    <3>1. Running /\ Quiet
      BY <1>3, <2>2 DEF Steps, Source, Destination, CopyDestination, CopySource,
           socket, Fail, bind, Send, ReceiveNothing, Receive, CopyArray,
           ClearArray, At
    <3> QED BY <3>1, <1>1 DEF Quiet
  <2> QED BY <2>1, <2>2
<1> QED BY <1>2, <1>3 DEF FirmwareNext

-----------------------------------------------------------------------------
(* The tables the loaders make.                                             *)
LEMMA JoinedAt ==
  ASSUME NEW f, NEW g
  PROVE  /\ DOMAIN Joined(f, g) = DOMAIN f \cup DOMAIN g
         /\ \A x \in DOMAIN f : Joined(f, g)[x] = f[x]
         /\ \A x \in DOMAIN g \ DOMAIN f : Joined(f, g)[x] = g[x]
  BY DEF Joined

(* The entries of a node are taken in their order: there is a first, a      *)
(* second and so on.                                                        *)
LEMMA RankExists ==
  ASSUME NEW N \in Nat, NEW S \in SUBSET (1..N), NEW c \in 1..Cardinality(S)
  PROVE  \E j \in S : Cardinality({h \in S : h <= j}) = c
<1> DEFINE Upto(j) == {h \in S : h <= j}
           Below(j) == {h \in S : h < j}
           Enough == {j \in S : Cardinality(Upto(j)) >= c}
<1>0. \A h \in S : h \in Nat /\ h \in Int /\ h <= N
  OBVIOUS
<1>1. IsFiniteSet(S) /\ Cardinality(S) \in Nat
  <2>1. IsFiniteSet(1..N)
    BY FS_Interval
  <2>2. IsFiniteSet(S)
    BY <2>1, FS_Subset
  <2> QED BY <2>2, FS_CardinalityType
<1>2. \A j : /\ IsFiniteSet(Upto(j)) /\ Cardinality(Upto(j)) \in Nat
             /\ IsFiniteSet(Below(j)) /\ Cardinality(Below(j)) \in Nat
  <2> TAKE j
  <2>1. Upto(j) \in SUBSET S /\ Below(j) \in SUBSET S
    OBVIOUS
  <2> QED BY <1>1, <2>1, FS_Subset, FS_CardinalityType
<1>3. S # {}
  BY FS_EmptySet
<1>4. ASSUME NEW P \in SUBSET S, P # {}
      PROVE  \E m \in P : \A h \in P : h <= m
  <2> DEFINE Mirrored == {N - h : h \in P}
  <2>1. Mirrored \subseteq Nat /\ Mirrored # {}
    <3>1. \A h \in P : N - h \in Nat
      BY <1>0
    <3> QED BY <3>1, <1>4
  <2>2. Least(Mirrored) \in Mirrored /\ \A y \in Mirrored : Least(Mirrored) <= y
    BY <2>1, LeastIn
  <2>3. PICK m \in P : Least(Mirrored) = N - m
    BY <2>2
  <2>4. ASSUME NEW h \in P PROVE h <= m
    <3>1. h \in Int /\ m \in Int
      BY <1>0
    <3>2. N - m <= N - h
      BY <2>2, <2>3
    <3> QED BY <3>1, <3>2
  <2> QED BY <2>4
<1>5. Enough # {}
  <2>1. PICK m \in S : \A h \in S : h <= m
    BY <1>3, <1>4
  <2>2. Upto(m) = S
    BY <2>1
  <2>3. Cardinality(Upto(m)) >= c
    BY <2>2, <1>1
  <2> QED BY <2>3
<1>6. Enough \subseteq Nat
  BY <1>0
<1>7. PICK j \in Enough : \A k \in Enough : j <= k
  BY <1>5, <1>6, LeastIn
<1>8. j \in S /\ j \in Int /\ Cardinality(Upto(j)) >= c
  BY <1>0, <1>7
<1>9. Cardinality(Upto(j)) = Cardinality(Below(j)) + 1
  <2>1. \A h \in S : h <= j <=> (h < j \/ h = j)
    BY <1>0, <1>8
  <2>2. Upto(j) = Below(j) \cup {j} /\ j \notin Below(j)
    <3>1. ~(j < j) /\ j \in S
      BY <1>8
    <3>2. \A h : h \in Upto(j) <=> h \in Below(j) \cup {j}
      BY <2>1, <3>1
    <3> QED BY <3>1, <3>2
  <2>3. IsFiniteSet(Below(j))
    BY <1>2
  <2> HIDE DEF Upto, Below, Enough
  <2> QED BY <2>2, <2>3, FS_AddElement
<1>10. Cardinality(Below(j)) < c
  <2>1. CASE Below(j) = {}
    <3>1. Cardinality(Below(j)) = 0
      BY <2>1, FS_EmptySet
    <3> QED BY <3>1, <1>1
  <2>2. CASE Below(j) # {}
    <3>1. PICK m \in Below(j) : \A h \in Below(j) : h <= m
      BY <2>2, <1>4
    <3>2. m \in S /\ m < j /\ m \in Int
      BY <3>1, <1>0
    <3>3. Upto(m) = Below(j)
      <4>1. \A h \in S : h <= m <=> h < j
        BY <3>1, <3>2, <1>0, <1>8
      <4> QED BY <4>1
    <3>4. m \notin Enough
      BY <3>2, <1>7, <1>8
    <3>5. ~(Cardinality(Below(j)) >= c)
      BY <3>2, <3>3, <3>4
    <3> QED BY <3>5, <1>1, <1>2
  <2> QED BY <2>1, <2>2
<1>11. Cardinality(Upto(j)) = c
  BY <1>1, <1>2, <1>8, <1>9, <1>10
<1> QED BY <1>8, <1>11

-----------------------------------------------------------------------------
(* An object of the overall file: its heading, and the settings of its      *)
(* interface.                                                               *)
Heading == {"mode", "located_node", "interface_name", "center_interface_name",
            "linked_interface_name"}
Infos == {"eth_info", "can_info", "rs485_info"}

LEMMA ObjectOf ==
  ASSUME NEW document, NEW k \in DOMAIN xmlToJson(document)
  PROVE  \E heading, id :
            /\ xmlToJson(document)[k] = Joined(heading, Settings(document.nodes, id))
            /\ DOMAIN heading = Heading
            /\ heading.interface_name[3] = id
            /\ heading.interface_name[4] = heading.mode
<1> DEFINE link == document.links[(k + 1) \div 2]
<1>1. xmlToJson(document)[k] = IF k % 2 = 1 THEN TestEntry(document.nodes, link)
                               ELSE ListenEntry(document.nodes, link)
  BY DEF xmlToJson
<1>2. ASSUME NEW a, NEW b, NEW c, NEW d, NEW id, NEW mode
      PROVE  LET heading == [mode |-> mode, located_node |-> a,
                     interface_name |-> concatenateStringsWithDelimiter(b, id, mode),
                     center_interface_name |-> c, linked_interface_name |-> d]
             IN  /\ DOMAIN heading = Heading
                 /\ heading.interface_name[3] = id
                 /\ heading.interface_name[4] = heading.mode
  BY DEF Heading, concatenateStringsWithDelimiter
<1>3. CASE k % 2 = 1
  <2> DEFINE id == link.send_if_id
             heading ==
               [mode |-> "test",
                located_node |->
                    get_node_name_contain_target_if_from_node_tree(document.nodes, id),
                interface_name |->
                    concatenateStringsWithDelimiter(document.nodes, id, "test"),
                center_interface_name |-> concatenateStringsWithDelimiter(
                    document.nodes, link.center_if_id, "listen"),
                linked_interface_name |-> concatenateStringsWithDelimiter(
                    document.nodes, link.listened_if_id, "listen")]
  <2>1. xmlToJson(document)[k] = Joined(heading, Settings(document.nodes, id))
    BY <1>1, <1>3 DEF TestEntry
  <2>2. /\ DOMAIN heading = Heading
        /\ heading.interface_name[3] = id
        /\ heading.interface_name[4] = heading.mode
    BY <1>2
  <2> QED BY <2>1, <2>2
<1>4. CASE k % 2 # 1
  <2> DEFINE id == link.listened_if_id
             heading ==
               [mode |-> "listen",
                located_node |->
                    get_node_name_contain_target_if_from_node_tree(document.nodes, id),
                interface_name |->
                    concatenateStringsWithDelimiter(document.nodes, id, "listen"),
                center_interface_name |-> concatenateStringsWithDelimiter(
                    document.nodes, link.center_if_id, "listen"),
                linked_interface_name |-> concatenateStringsWithDelimiter(
                    document.nodes, link.send_if_id, "test")]
  <2>1. xmlToJson(document)[k] = Joined(heading, Settings(document.nodes, id))
    BY <1>1, <1>4 DEF ListenEntry
  <2>2. /\ DOMAIN heading = Heading
        /\ heading.interface_name[3] = id
        /\ heading.interface_name[4] = heading.mode
    BY <1>2
  <2> QED BY <2>1, <2>2
<1> QED BY <1>3, <1>4

LEMMA InfoOfType ==
  ASSUME NEW nodes, NEW id
  PROVE  LET type == get_target_if_value_from_node_tree(nodes, id, "interface_type")
         IN  /\ type # "eth" => "eth_info" \notin DOMAIN InfoObject(nodes, id)
             /\ type # "rs485" => "rs485_info" \notin DOMAIN InfoObject(nodes, id)
             /\ DOMAIN InfoObject(nodes, id) \subseteq Infos
<1> DEFINE type == get_target_if_value_from_node_tree(nodes, id, "interface_type")
           object == InfoObject(nodes, id)
<1>1. CASE type = "eth"
  <2>1. DOMAIN object = {"eth_info"}
    BY <1>1 DEF InfoObject
  <2> QED BY <1>1, <2>1 DEF Infos
<1>2. CASE type = "can"
  <2>1. DOMAIN object = {"can_info"}
    BY <1>2 DEF InfoObject
  <2> QED BY <1>2, <2>1 DEF Infos
<1>3. CASE type = "rs485"
  <2>1. DOMAIN object = {"rs485_info"}
    BY <1>3 DEF InfoObject
  <2> QED BY <1>3, <2>1 DEF Infos
<1>4. CASE type \notin {"eth", "can", "rs485"}
  <2>1. object = << >>
    BY <1>4 DEF InfoObject
  <2>2. DOMAIN object = {}
    BY <2>1
  <2> QED BY <2>2 DEF Infos
<1> QED BY <1>1, <1>2, <1>3, <1>4

(* An object has the info of its own type only. *)
LEMMA ObjectOfType ==
  ASSUME NEW document, NEW k \in DOMAIN xmlToJson(document),
         "interface_type" \in DOMAIN xmlToJson(document)[k]
  PROVE  LET object == xmlToJson(document)[k]
         IN  /\ object.interface_type # "eth" => "eth_info" \notin DOMAIN object
             /\ object.interface_type # "rs485" => "rs485_info" \notin DOMAIN object
<1> DEFINE object == xmlToJson(document)[k]
           nodes == document.nodes
<1>1. PICK heading, id :
         /\ object = Joined(heading, Settings(nodes, id))
         /\ DOMAIN heading = Heading
  BY ObjectOf
<1> DEFINE present == Present(Values(nodes, id, Strings))
           type == get_target_if_value_from_node_tree(nodes, id, "interface_type")
<1>2. DOMAIN present \subseteq Strings
      /\ \A p \in DOMAIN present :
             present[p] = get_target_if_value_from_node_tree(nodes, id, p)
  BY DEF Present, Values
<1>3. /\ DOMAIN object = Heading \cup DOMAIN present \cup DOMAIN InfoObject(nodes, id)
      /\ \A p \in DOMAIN present \ Heading : object[p] = present[p]
  <2>1. Settings(nodes, id) = Joined(present, InfoObject(nodes, id))
    BY DEF Settings
  <2> DEFINE info == InfoObject(nodes, id)
             settings == Joined(present, info)
  <2> HIDE DEF present, object, info
  <2>2. /\ DOMAIN settings = DOMAIN present \cup DOMAIN info
        /\ \A p \in DOMAIN present : settings[p] = present[p]
    BY JoinedAt
  <2>3. object = Joined(heading, settings)
    BY <1>1, <2>1 DEF info
  <2> HIDE DEF settings
  <2>4. /\ DOMAIN object = Heading \cup DOMAIN settings
        /\ \A p \in DOMAIN settings \ Heading : object[p] = settings[p]
    <3>1. /\ DOMAIN Joined(heading, settings) = DOMAIN heading \cup DOMAIN settings
          /\ \A p \in DOMAIN settings \ DOMAIN heading :
                 Joined(heading, settings)[p] = settings[p]
      BY JoinedAt
    <3> QED BY <1>1, <2>3, <3>1
  <2>5. DOMAIN object = Heading \cup DOMAIN present \cup DOMAIN info
        /\ \A p \in DOMAIN present \ Heading : object[p] = present[p]
    BY <2>2, <2>4
  <2> QED BY <2>5 DEF info
<1>4. "interface_type" \in DOMAIN present \ Heading
  <2>1. "interface_type" \notin Heading \cup Infos
    BY DEF Heading, Infos
  <2> HIDE DEF present, object
  <2> QED BY <2>1, <1>3, InfoOfType DEF object
<1>5. object.interface_type = type
  BY <1>2, <1>3, <1>4
<1>6. "eth_info" \notin Heading \cup Strings /\ "rs485_info" \notin Heading \cup Strings
  BY DEF Heading, Strings
<1> HIDE DEF present, object, type
<1>7. /\ type # "eth" => "eth_info" \notin DOMAIN object
      /\ type # "rs485" => "rs485_info" \notin DOMAIN object
  BY <1>2, <1>3, <1>6, InfoOfType DEF type
<1> QED BY <1>5, <1>7 DEF object

(* Objects of the same name have the same settings. *)
LEMMA SameNameSameSettings ==
  ASSUME NEW document, NEW k \in DOMAIN xmlToJson(document),
         NEW l \in DOMAIN xmlToJson(document),
         xmlToJson(document)[k].interface_name = xmlToJson(document)[l].interface_name
  PROVE  LET a == xmlToJson(document)[k]
             b == xmlToJson(document)[l]
         IN  /\ a.mode = b.mode
             /\ \A f \in Strings \cup Infos :
                    /\ f \in DOMAIN a <=> f \in DOMAIN b
                    /\ f \in DOMAIN a => a[f] = b[f]
<1> DEFINE a == xmlToJson(document)[k]
           b == xmlToJson(document)[l]
<1>1. PICK headingA, idA : /\ a = Joined(headingA, Settings(document.nodes, idA))
                           /\ DOMAIN headingA = Heading
                           /\ headingA.interface_name[3] = idA
                           /\ headingA.interface_name[4] = headingA.mode
  BY ObjectOf
<1>2. PICK headingB, idB : /\ b = Joined(headingB, Settings(document.nodes, idB))
                           /\ DOMAIN headingB = Heading
                           /\ headingB.interface_name[3] = idB
                           /\ headingB.interface_name[4] = headingB.mode
  BY ObjectOf
<1> HIDE DEF a, b
<1>3. "interface_name" \in Heading /\ "mode" \in Heading
  BY DEF Heading
<1>4. /\ a.interface_name = headingA.interface_name /\ a.mode = headingA.mode
      /\ b.interface_name = headingB.interface_name /\ b.mode = headingB.mode
  <2>1. \A settings : /\ Joined(headingA, settings).interface_name = headingA.interface_name
                      /\ Joined(headingA, settings).mode = headingA.mode
    BY <1>1, <1>3, JoinedAt
  <2>2. \A settings : /\ Joined(headingB, settings).interface_name = headingB.interface_name
                      /\ Joined(headingB, settings).mode = headingB.mode
    BY <1>2, <1>3, JoinedAt
  <2>3. a.interface_name = headingA.interface_name /\ a.mode = headingA.mode
    BY <1>1, <2>1
  <2>4. b.interface_name = headingB.interface_name /\ b.mode = headingB.mode
    BY <1>2, <2>2
  <2> QED BY <2>3, <2>4
<1>5. a.interface_name = b.interface_name
  BY DEF a, b
<1>6. idA = idB /\ a.mode = b.mode
  BY <1>1, <1>2, <1>4, <1>5
<1>7. \A f \in Strings \cup Infos : f \notin Heading
  BY DEF Strings, Infos, Heading
<1> DEFINE settings == Settings(document.nodes, idA)
<1> HIDE DEF settings
<1>8. a = Joined(headingA, settings) /\ b = Joined(headingB, settings)
  BY <1>1, <1>2, <1>6 DEF settings
<1>9. ASSUME NEW f \in Strings \cup Infos
      PROVE  /\ f \in DOMAIN a <=> f \in DOMAIN b
             /\ f \in DOMAIN a => a[f] = b[f]
  <2>0. f \notin DOMAIN headingA /\ f \notin DOMAIN headingB
    BY <1>1, <1>2, <1>7
  <2>1. /\ f \in DOMAIN a <=> f \in DOMAIN settings
        /\ f \in DOMAIN settings => a[f] = settings[f]
    <3>1. /\ DOMAIN Joined(headingA, settings) = DOMAIN headingA \cup DOMAIN settings
          /\ \A x \in DOMAIN settings \ DOMAIN headingA :
                 Joined(headingA, settings)[x] = settings[x]
      BY JoinedAt
    <3> QED BY <2>0, <3>1, <1>8
  <2>2. /\ f \in DOMAIN b <=> f \in DOMAIN settings
        /\ f \in DOMAIN settings => b[f] = settings[f]
    <3>1. /\ DOMAIN Joined(headingB, settings) = DOMAIN headingB \cup DOMAIN settings
          /\ \A x \in DOMAIN settings \ DOMAIN headingB :
                 Joined(headingB, settings)[x] = settings[x]
      BY JoinedAt
    <3> QED BY <2>0, <3>1, <1>8
  <2> QED BY <2>1, <2>2
<1> QED BY <1>6, <1>9 DEF a, b

-----------------------------------------------------------------------------
(* The loader of the overall file. *)
LEMMA LoadedFromOverall ==
  ASSUME NEW document \in Documents, NEW n,
         OverallLoads(n, xmlToJson(document))
  PROVE  LET table == read_interface_info_array_from_overall_json(n, xmlToJson(document))
         IN  /\ WellMade(table)
             /\ Fresh(table)
             /\ \A c \in DOMAIN table : SplitStrings \subseteq DOMAIN table[c]
<1> DEFINE array == xmlToJson(document)
           own == OfNode(n, array)
           table == read_interface_info_array_from_overall_json(n, array)
           K(c) == CHOOSE j \in own : Cardinality({h \in own : h <= j}) = c
           Loaded(object, linked) ==
              [initialized_flag      |-> -1, fd |-> Null,
               linked_interface_name |-> linked.interface_name,
               linked_node           |-> linked.located_node,
               linked_interface_type |-> linked.interface_type,
               eth_info   |-> OverallEth(object),
               can_info   |-> OverallCan(object),
               rs485_info |-> OverallRs485(object),
               linked_eth_info   |-> OverallEth(linked),
               linked_can_info   |-> OverallCan(linked),
               linked_rs485_info |-> OverallRs485(linked)]
           Copied(object) == [f \in OverallStrings |-> object[f]]
           Made(c) == Joined(Loaded(array[K(c)], LinkedObject(array, array[K(c)])),
                             Copied(array[K(c)]))
<1>1. PICK N \in Nat : own \in SUBSET (1..N) /\ own \subseteq DOMAIN array
  <2>1. DOMAIN array = 1..2 * Len(document.links) /\ 2 * Len(document.links) \in Nat
    BY ConfigurationAssumption DEF xmlToJson
  <2> QED BY <2>1 DEF OfNode
<1>2. IsFiniteSet(own) /\ Cardinality(own) \in Nat
  <2>1. IsFiniteSet(1..N)
    BY FS_Interval
  <2>2. IsFiniteSet(own)
    BY <1>1, <2>1, FS_Subset
  <2> QED BY <2>2, FS_CardinalityType
<1>3. table = [c \in 1..Cardinality(own) |-> Made(c)]
  BY DEF read_interface_info_array_from_overall_json,
         update_interface_cnt_from_overall_json
<1>4. DOMAIN table = 1..Cardinality(own) /\ Len(table) = Cardinality(own)
  <2> HIDE DEF Made, own, table
  <2>1. DOMAIN table = 1..Cardinality(own)
    BY <1>3
  <2> QED BY <2>1, <1>2
<1>5. ASSUME NEW c \in DOMAIN table PROVE K(c) \in own /\ K(c) \in DOMAIN array
  <2>1. \E j \in own : Cardinality({h \in own : h <= j}) = c
    <3> HIDE DEF own, table
    <3> QED BY <1>1, <1>4, RankExists
  <2> HIDE DEF own, array, table
  <2> QED BY <2>1, <1>1
<1>6. ASSUME NEW c \in DOMAIN table
      PROVE  /\ table[c] = Made(c)
             /\ OverallStrings \subseteq DOMAIN array[K(c)]
  <2>1. table[c] = Made(c)
    <3> HIDE DEF Made, table, own
    <3> QED BY <1>3, <1>4
  <2>2. OverallStrings \subseteq DOMAIN array[K(c)]
    <3>1. K(c) \in own
      BY <1>5
    <3> HIDE DEF K
    <3> QED BY <3>1 DEF OverallLoads
  <2> QED BY <2>1, <2>2
<1>7. ASSUME NEW object, NEW linked
      PROVE  LET entry == Joined(Loaded(object, linked), Copied(object))
             IN  /\ Fixed \cup Mutable \cup SplitStrings \subseteq DOMAIN entry
                 /\ entry.initialized_flag = -1 /\ entry.fd = Null
                 /\ entry.eth_info = OverallEth(object)
                 /\ entry.can_info = OverallCan(object)
                 /\ entry.rs485_info = OverallRs485(object)
                 /\ \A f \in OverallStrings \ {"linked_interface_name"} :
                        entry[f] = object[f]
  <2> DEFINE loaded == Loaded(object, linked)
             copied == Copied(object)
  <2>1. /\ DOMAIN loaded = {"initialized_flag", "fd", "linked_interface_name",
               "linked_node", "linked_interface_type", "eth_info", "can_info",
               "rs485_info", "linked_eth_info", "linked_can_info",
               "linked_rs485_info"}
        /\ loaded.initialized_flag = -1 /\ loaded.fd = Null
        /\ loaded.eth_info = OverallEth(object)
        /\ loaded.can_info = OverallCan(object)
        /\ loaded.rs485_info = OverallRs485(object)
    OBVIOUS
  <2>2. /\ DOMAIN copied = OverallStrings
        /\ \A f \in OverallStrings : copied[f] = object[f]
    OBVIOUS
  <2> HIDE DEF loaded, copied
  <2>3. /\ DOMAIN Joined(loaded, copied) = DOMAIN loaded \cup DOMAIN copied
        /\ \A x \in DOMAIN loaded : Joined(loaded, copied)[x] = loaded[x]
        /\ \A x \in DOMAIN copied \ DOMAIN loaded : Joined(loaded, copied)[x] = copied[x]
    BY JoinedAt
  <2>4. Fixed \cup Mutable \cup SplitStrings \subseteq DOMAIN loaded \cup OverallStrings
    BY <2>1 DEF Fixed, Mutable, SplitStrings, OverallStrings, Strings
  <2>5. \A f \in OverallStrings \ {"linked_interface_name"} : f \notin DOMAIN loaded
    BY <2>1 DEF OverallStrings, Strings
  <2>6. /\ Joined(loaded, copied).initialized_flag = -1
        /\ Joined(loaded, copied).fd = Null
        /\ Joined(loaded, copied).eth_info = OverallEth(object)
        /\ Joined(loaded, copied).can_info = OverallCan(object)
        /\ Joined(loaded, copied).rs485_info = OverallRs485(object)
    BY <2>1, <2>3
  <2>7. \A f \in OverallStrings \ {"linked_interface_name"} :
           Joined(loaded, copied)[f] = object[f]
    BY <2>2, <2>3, <2>5
  <2>8. Fixed \cup Mutable \cup SplitStrings \subseteq DOMAIN Joined(loaded, copied)
    BY <2>2, <2>3, <2>4
  <2> QED BY <2>6, <2>7, <2>8 DEF loaded, copied
<1>8. ASSUME NEW c \in DOMAIN table
      PROVE  LET object == array[K(c)]
             IN  /\ Fixed \cup Mutable \cup SplitStrings \subseteq DOMAIN table[c]
                 /\ table[c].initialized_flag = -1 /\ table[c].fd = Null
                 /\ table[c].eth_info = OverallEth(object)
                 /\ table[c].can_info = OverallCan(object)
                 /\ table[c].rs485_info = OverallRs485(object)
                 /\ \A f \in OverallStrings \ {"linked_interface_name"} :
                        table[c][f] = object[f]
  <2>1. table[c] = Made(c)
    BY <1>6
  <2> HIDE DEF Loaded, Copied, K, table, array
  <2> QED BY <2>1, <1>7
<1> HIDE DEF K, table, own
<1>9. ASSUME NEW c \in DOMAIN table
      PROVE  /\ table[c].interface_type # "eth" => table[c].eth_info.ip_addr = Null
             /\ table[c].interface_type # "rs485" =>
                    table[c].rs485_info.rs485_dev_path = Null
  <2> DEFINE object == array[K(c)]
  <2>1. K(c) \in DOMAIN array /\ "interface_type" \in DOMAIN object
    <3>1. "interface_type" \in OverallStrings
      BY DEF OverallStrings, Strings
    <3> QED BY <3>1, <1>5, <1>6
  <2>2. table[c].interface_type = object.interface_type
    <3>1. "interface_type" \in OverallStrings \ {"linked_interface_name"}
      BY DEF OverallStrings, Strings
    <3> QED BY <3>1, <1>8
  <2>3. /\ object.interface_type # "eth" => "eth_info" \notin DOMAIN object
        /\ object.interface_type # "rs485" => "rs485_info" \notin DOMAIN object
    BY <2>1, ObjectOfType
  <2> HIDE DEF object, array
  <2>4. "eth_info" \notin DOMAIN object => OverallEth(object).ip_addr = Null
    BY DEF OverallEth, Field, Has, Absent, EthFields
  <2>5. "rs485_info" \notin DOMAIN object => OverallRs485(object).rs485_dev_path = Null
    BY DEF OverallRs485, Field, Has, Absent, Rs485Fields
  <2>6. table[c].eth_info = OverallEth(object)
        /\ table[c].rs485_info = OverallRs485(object)
    BY <1>8 DEF object
  <2> QED BY <2>2, <2>3, <2>4, <2>5, <2>6
<1>10. ASSUME NEW c \in DOMAIN table, NEW d \in DOMAIN table,
              table[c].interface_name = table[d].interface_name,
              NEW f \in OfTheName
       PROVE  table[c][f] = table[d][f]
  <2> DEFINE a == array[K(c)]
             b == array[K(d)]
  <2>1. K(c) \in DOMAIN array /\ K(d) \in DOMAIN array
    BY <1>5
  <2>2. a.interface_name = b.interface_name
    <3>1. "interface_name" \in OverallStrings \ {"linked_interface_name"}
      BY DEF OverallStrings
    <3> QED BY <3>1, <1>8, <1>10
  <2>3. /\ a.mode = b.mode
        /\ \A g \in Strings \cup Infos :
               /\ g \in DOMAIN a <=> g \in DOMAIN b
               /\ g \in DOMAIN a => a[g] = b[g]
    BY <2>1, <2>2, SameNameSameSettings
  <2>4. OverallStrings \subseteq DOMAIN a /\ OverallStrings \subseteq DOMAIN b
    BY <1>6
  <2> HIDE DEF a, b, array
  <2>5. CASE f \in {"interface_name", "mode"}
    <3>1. {"interface_name", "mode"} \subseteq OverallStrings \ {"linked_interface_name"}
      BY DEF OverallStrings
    <3>2. table[c][f] = a[f] /\ table[d][f] = b[f]
      BY <3>1, <2>5, <1>8 DEF a, b
    <3> QED BY <3>2, <2>2, <2>3, <2>5
  <2>6. CASE f \in Strings
    <3>1. f \in OverallStrings \ {"linked_interface_name"}
      BY <2>6 DEF OverallStrings, Strings
    <3>2. table[c][f] = a[f] /\ table[d][f] = b[f]
      BY <3>1, <1>8 DEF a, b
    <3> QED BY <3>1, <3>2, <2>3, <2>4, <2>6
  <2>7. CASE f \in Infos
    <3>1. /\ table[c].eth_info = OverallEth(a) /\ table[d].eth_info = OverallEth(b)
          /\ table[c].can_info = OverallCan(a) /\ table[d].can_info = OverallCan(b)
          /\ table[c].rs485_info = OverallRs485(a)
          /\ table[d].rs485_info = OverallRs485(b)
      BY <1>8 DEF a, b
    <3>2. \A g \in Infos : Field(a, g, << >>) = Field(b, g, << >>)
      BY <2>3 DEF Field, Has
    <3>3. /\ OverallEth(a) = OverallEth(b)
          /\ OverallCan(a) = OverallCan(b)
          /\ OverallRs485(a) = OverallRs485(b)
      <4>1. /\ Field(a, "eth_info", << >>) = Field(b, "eth_info", << >>)
            /\ Field(a, "can_info", << >>) = Field(b, "can_info", << >>)
            /\ Field(a, "rs485_info", << >>) = Field(b, "rs485_info", << >>)
        BY <3>2 DEF Infos
      <4> QED BY <4>1 DEF OverallEth, OverallCan, OverallRs485
    <3> QED BY <2>7, <3>1, <3>3 DEF Infos
  <2>8. f \in {"interface_name", "mode"} \cup Strings \cup Infos
    BY DEF OfTheName, Fixed, Strings, Infos
  <2> QED BY <2>5, <2>6, <2>7, <2>8
<1>11. HasFields(table)
  BY <1>8 DEF HasFields
<1>12. WellMade(table)
  BY <1>2, <1>4, <1>9, <1>10, <1>11 DEF WellMade
<1>13. Fresh(table) /\ \A c \in DOMAIN table : SplitStrings \subseteq DOMAIN table[c]
  BY <1>8 DEF Fresh
<1> QED BY <1>12, <1>13 DEF table

(* The loader of a node's own file, on what the writer makes of a table. *)
LEMMA LoadedFromSplit ==
  ASSUME NEW written, WellMade(written),
         \A c \in DOMAIN written : SplitStrings \subseteq DOMAIN written[c],
         SplitLoads(write_interface_info_array_to_json(written))
  PROVE  LET table == read_interface_info_array_from_split_json(
                          write_interface_info_array_to_json(written))
         IN  /\ WellMade(table) /\ Fresh(table)
             /\ DOMAIN table = DOMAIN written
             /\ \A c \in DOMAIN table : table[c].status = written[c].status
<1> DEFINE array == write_interface_info_array_to_json(written)
           table == read_interface_info_array_from_split_json(array)
           Eth(info)   == SplitEth(WrittenEth(info))
           Can(info)   == SplitCan(WrittenCan(info))
           Rs485(info) == SplitRs485(WrittenRs485(info))
           InfosOf(e) ==
             [eth_info   |-> WrittenEth(e.eth_info),
              can_info   |-> WrittenCan(e.can_info),
              rs485_info |-> WrittenRs485(e.rs485_info),
              linked_eth_info   |-> WrittenEth(e.linked_eth_info),
              linked_can_info   |-> WrittenCan(e.linked_can_info),
              linked_rs485_info |-> WrittenRs485(e.linked_rs485_info)]
           StringsOf(e) == Present([f \in SplitStrings |-> e[f]])
           Loaded(o) ==
             [initialized_flag |-> -1, fd |-> Null,
              eth_info   |-> SplitEth(o.eth_info),
              can_info   |-> SplitCan(o.can_info),
              rs485_info |-> SplitRs485(o.rs485_info),
              linked_eth_info   |-> SplitEth(o.linked_eth_info),
              linked_can_info   |-> SplitCan(o.linked_can_info),
              linked_rs485_info |-> SplitRs485(o.linked_rs485_info)]
           Copied(o) == [f \in SplitStrings |-> o[f]]
<1>1. /\ DOMAIN array = DOMAIN written
      /\ \A c \in DOMAIN written :
             array[c] = Joined(InfosOf(written[c]), StringsOf(written[c]))
  BY DEF write_interface_info_array_to_json
<1>2. /\ DOMAIN table = DOMAIN array
      /\ \A c \in DOMAIN array : table[c] = Joined(Loaded(array[c]), Copied(array[c]))
  BY DEF read_interface_info_array_from_split_json
<1>3. \A f \in SplitStrings :
         f \notin {"initialized_flag", "fd", "eth_info", "can_info", "rs485_info",
                   "linked_eth_info", "linked_can_info", "linked_rs485_info"}
  BY DEF SplitStrings, OverallStrings, Strings
<1>4. ASSUME NEW e
      PROVE  LET o == Joined(InfosOf(e), StringsOf(e))
             IN  /\ o.eth_info = WrittenEth(e.eth_info)
                 /\ o.can_info = WrittenCan(e.can_info)
                 /\ o.rs485_info = WrittenRs485(e.rs485_info)
                 /\ \A f \in SplitStrings : f \in DOMAIN o => o[f] = e[f]
  <2> DEFINE infos == InfosOf(e)
             strings == StringsOf(e)
  <2>1. /\ DOMAIN infos = {"eth_info", "can_info", "rs485_info",
               "linked_eth_info", "linked_can_info", "linked_rs485_info"}
        /\ infos.eth_info = WrittenEth(e.eth_info)
        /\ infos.can_info = WrittenCan(e.can_info)
        /\ infos.rs485_info = WrittenRs485(e.rs485_info)
    OBVIOUS
  <2>2. \A f \in DOMAIN strings : f \in SplitStrings /\ strings[f] = e[f]
    BY DEF Present
  <2> HIDE DEF infos, strings
  <2>3. /\ DOMAIN Joined(infos, strings) = DOMAIN infos \cup DOMAIN strings
        /\ \A x \in DOMAIN infos : Joined(infos, strings)[x] = infos[x]
        /\ \A x \in DOMAIN strings \ DOMAIN infos :
               Joined(infos, strings)[x] = strings[x]
    BY JoinedAt
  <2>4. /\ Joined(infos, strings).eth_info = WrittenEth(e.eth_info)
        /\ Joined(infos, strings).can_info = WrittenCan(e.can_info)
        /\ Joined(infos, strings).rs485_info = WrittenRs485(e.rs485_info)
    BY <2>1, <2>3
  <2>5. \A f \in SplitStrings : f \notin DOMAIN infos
    BY <2>1, <1>3
  <2>6. \A f \in SplitStrings : f \in DOMAIN Joined(infos, strings) =>
            Joined(infos, strings)[f] = e[f]
    BY <2>2, <2>3, <2>5
  <2> QED BY <2>4, <2>6 DEF infos, strings
<1>5. ASSUME NEW o
      PROVE  LET entry == Joined(Loaded(o), Copied(o))
             IN  /\ Fixed \cup Mutable \subseteq DOMAIN entry
                 /\ entry.initialized_flag = -1 /\ entry.fd = Null
                 /\ entry.eth_info = SplitEth(o.eth_info)
                 /\ entry.can_info = SplitCan(o.can_info)
                 /\ entry.rs485_info = SplitRs485(o.rs485_info)
                 /\ \A f \in SplitStrings : entry[f] = o[f]
  <2> DEFINE loaded == Loaded(o)
             copied == Copied(o)
  <2>1. /\ DOMAIN loaded = {"initialized_flag", "fd", "eth_info", "can_info",
               "rs485_info", "linked_eth_info", "linked_can_info",
               "linked_rs485_info"}
        /\ loaded.initialized_flag = -1 /\ loaded.fd = Null
        /\ loaded.eth_info = SplitEth(o.eth_info)
        /\ loaded.can_info = SplitCan(o.can_info)
        /\ loaded.rs485_info = SplitRs485(o.rs485_info)
    OBVIOUS
  <2>2. DOMAIN copied = SplitStrings /\ \A f \in SplitStrings : copied[f] = o[f]
    OBVIOUS
  <2> HIDE DEF loaded, copied
  <2>3. /\ DOMAIN Joined(loaded, copied) = DOMAIN loaded \cup DOMAIN copied
        /\ \A x \in DOMAIN loaded : Joined(loaded, copied)[x] = loaded[x]
        /\ \A x \in DOMAIN copied \ DOMAIN loaded :
               Joined(loaded, copied)[x] = copied[x]
    BY JoinedAt
  <2>4. Fixed \cup Mutable \subseteq DOMAIN loaded \cup SplitStrings
    BY <2>1 DEF Fixed, Mutable, SplitStrings, OverallStrings, Strings
  <2>5. \A f \in SplitStrings : f \notin DOMAIN loaded
    BY <2>1, <1>3
  <2>6. /\ Joined(loaded, copied).initialized_flag = -1
        /\ Joined(loaded, copied).fd = Null
        /\ Joined(loaded, copied).eth_info = SplitEth(o.eth_info)
        /\ Joined(loaded, copied).can_info = SplitCan(o.can_info)
        /\ Joined(loaded, copied).rs485_info = SplitRs485(o.rs485_info)
    BY <2>1, <2>3
  <2>7. \A f \in SplitStrings : Joined(loaded, copied)[f] = o[f]
    BY <2>2, <2>3, <2>5
  <2>8. Fixed \cup Mutable \subseteq DOMAIN Joined(loaded, copied)
    BY <2>2, <2>3, <2>4
  <2> QED BY <2>6, <2>7, <2>8 DEF loaded, copied
<1>6. \A c \in DOMAIN array : SplitStrings \subseteq DOMAIN array[c]
  BY DEF SplitLoads
<1>7. ASSUME NEW c \in DOMAIN table
      PROVE  LET e == written[c]
             IN  /\ Fixed \cup Mutable \subseteq DOMAIN table[c]
                 /\ table[c].initialized_flag = -1 /\ table[c].fd = Null
                 /\ table[c].eth_info = Eth(e.eth_info)
                 /\ table[c].can_info = Can(e.can_info)
                 /\ table[c].rs485_info = Rs485(e.rs485_info)
                 /\ \A f \in SplitStrings : table[c][f] = e[f]
  <2> DEFINE o == array[c]
             e == written[c]
  <2>1. c \in DOMAIN array /\ c \in DOMAIN written
    BY <1>1, <1>2
  <2>2. o = Joined(InfosOf(e), StringsOf(e))
    BY <1>1, <2>1
  <2>3. table[c] = Joined(Loaded(o), Copied(o))
    BY <1>2, <2>1
  <2>4. SplitStrings \subseteq DOMAIN o
    BY <1>6, <2>1
  <2> HIDE DEF InfosOf, StringsOf, Loaded, Copied, o, e, table, array
  <2>5. /\ o.eth_info = WrittenEth(e.eth_info)
        /\ o.can_info = WrittenCan(e.can_info)
        /\ o.rs485_info = WrittenRs485(e.rs485_info)
        /\ \A f \in SplitStrings : o[f] = e[f]
    BY <2>2, <2>4, <1>4
  <2>6. /\ Fixed \cup Mutable \subseteq DOMAIN table[c]
        /\ table[c].initialized_flag = -1 /\ table[c].fd = Null
        /\ table[c].eth_info = SplitEth(o.eth_info)
        /\ table[c].can_info = SplitCan(o.can_info)
        /\ table[c].rs485_info = SplitRs485(o.rs485_info)
        /\ \A f \in SplitStrings : table[c][f] = o[f]
    BY <2>3, <1>5
  <2> QED BY <2>5, <2>6 DEF e
<1>8. DOMAIN table = DOMAIN written
  BY <1>1, <1>2
<1> HIDE DEF table, array
<1>9. {"interface_type", "interface_name", "mode", "initializer_name",
       "base_send_func", "base_receive_func"} \subseteq SplitStrings
  BY DEF SplitStrings, OverallStrings, Strings
<1>10. ASSUME NEW c \in DOMAIN table
       PROVE  /\ table[c].interface_type # "eth" => table[c].eth_info.ip_addr = Null
              /\ table[c].interface_type # "rs485" =>
                     table[c].rs485_info.rs485_dev_path = Null
  <2> DEFINE e == written[c]
  <2>1. /\ e.interface_type # "eth" => e.eth_info.ip_addr = Null
        /\ e.interface_type # "rs485" => e.rs485_info.rs485_dev_path = Null
    BY <1>8 DEF WellMade
  <2>2. table[c].interface_type = e.interface_type
    BY <1>7, <1>9
  <2>3. table[c].eth_info = Eth(e.eth_info) /\ table[c].rs485_info = Rs485(e.rs485_info)
    BY <1>7
  <2> HIDE DEF e
  <2>4. ASSUME NEW info, info.ip_addr = Null PROVE Eth(info).ip_addr = Null
    <3>1. "ip_addr" \notin DOMAIN WrittenEth(info)
      BY <2>4 DEF WrittenEth, Present
    <3> QED BY <3>1 DEF SplitEth, Field, Has, Absent, EthFields
  <2>5. ASSUME NEW info, info.rs485_dev_path = Null
        PROVE  Rs485(info).rs485_dev_path = Null
    <3>1. "rs485_dev_path" \notin DOMAIN WrittenRs485(info)
      BY <2>5 DEF WrittenRs485, Present
    <3> QED BY <3>1 DEF SplitRs485, Field, Has, Absent, Rs485Fields
  <2> HIDE DEF Eth, Rs485
  <2> QED BY <2>1, <2>2, <2>3, <2>4, <2>5
<1>11. ASSUME NEW c \in DOMAIN table, NEW d \in DOMAIN table,
              table[c].interface_name = table[d].interface_name,
              NEW f \in OfTheName
       PROVE  table[c][f] = table[d][f]
  <2>1. written[c].interface_name = written[d].interface_name
    BY <1>7, <1>9, <1>11
  <2>2. written[c][f] = written[d][f]
    BY <1>8, <2>1 DEF WellMade
  <2>3. CASE f \in SplitStrings
    BY <2>2, <2>3, <1>7
  <2>4. CASE f \in Infos
    <3> HIDE DEF Eth, Can, Rs485
    <3>1. /\ table[c].eth_info = Eth(written[c].eth_info)
          /\ table[c].can_info = Can(written[c].can_info)
          /\ table[c].rs485_info = Rs485(written[c].rs485_info)
          /\ table[d].eth_info = Eth(written[d].eth_info)
          /\ table[d].can_info = Can(written[d].can_info)
          /\ table[d].rs485_info = Rs485(written[d].rs485_info)
      BY <1>7
    <3> QED BY <2>2, <2>4, <3>1 DEF Infos
  <2>5. f \in SplitStrings \cup Infos
    BY DEF OfTheName, Fixed, SplitStrings, OverallStrings, Strings, Infos
  <2> QED BY <2>3, <2>4, <2>5
<1>12. HasFields(table)
  BY <1>7 DEF HasFields
<1>13. Len(table) = Len(written) /\ DOMAIN table = 1..Len(table) /\ Len(table) \in Nat
  <2>1. Len(written) \in Nat /\ DOMAIN table = 1..Len(written)
    BY <1>8 DEF WellMade
  <2> QED BY <2>1
<1>14. WellMade(table)
  BY <1>10, <1>11, <1>12, <1>13 DEF WellMade
<1>15. Fresh(table)
  BY <1>7 DEF Fresh
<1>16. \A c \in DOMAIN table : table[c].status = written[c].status
  <2>1. "status" \in SplitStrings
    BY DEF SplitStrings, OverallStrings, Strings
  <2> QED BY <1>7, <2>1
<1> QED BY <1>8, <1>14, <1>15, <1>16 DEF table, array

LEMMA EmptyTable == WellMade(<< >>) /\ Fresh(<< >>)
                    /\ \A c \in DOMAIN << >> : SplitStrings \subseteq DOMAIN << >>[c]
<1>1. DOMAIN << >> = {} /\ Len(<< >>) = 0 /\ 1..0 = {}
  OBVIOUS
<1> QED BY <1>1 DEF WellMade, Fresh, HasFields

-----------------------------------------------------------------------------
(* The files hold what the commands made, so that every table that is       *)
(* loaded is well made.                                                     *)
LEMMA FilesInit == Init => FilesInv
<1>1. NoFile.is # "array"
  BY DEF NoFile
<1> QED BY <1>1 DEF Init, ConfigInit, FilesInv

LEMMA FilesStep == FilesInv /\ [Next]_vars => FilesInv'
<1> SUFFICES ASSUME FilesInv, [Next]_vars PROVE FilesInv'
  OBVIOUS
<1> USE DEF FilesInv
<1>1. CASE UNCHANGED configVars
  BY <1>1 DEF configVars
<1>2. CASE Touch
  <2>1. Empty.is # "array"
    BY DEF Empty
  <2>2. CASE overall' = Empty /\ UNCHANGED split
    BY <2>1, <2>2
  <2>3. ASSUME NEW m \in Nodes, split' = [split EXCEPT ![m] = Empty], UNCHANGED overall
        PROVE  FilesInv'
    <3>1. \A n \in Nodes : split'[n].is = "array" => split'[n] = split[n]
      <4>1. \A n \in Nodes : split'[n] = Empty \/ split'[n] = split[n]
        BY <2>3
      <4> QED BY <4>1, <2>1
    <3> QED BY <2>3, <3>1
  <2> QED BY <1>2, <2>2, <2>3 DEF Touch
<1>3. ASSUME NEW document \in Documents, XmlToJson(document) PROVE FilesInv'
  <2>1. UNCHANGED split
    BY <1>3 DEF XmlToJson
  <2>2. overall' = overall \/ (Converts(document) /\ overall' = Json(xmlToJson(document)))
    BY <1>3 DEF XmlToJson, convert_xml_config_to_overall_json_config, Converts
  <2>3. Json(xmlToJson(document)).array = xmlToJson(document)
    BY DEF Json
  <2> QED BY <2>1, <2>2, <2>3
<1>4. ASSUME NEW m \in Nodes, split_into_target(m) PROVE FilesInv'
  <2> DEFINE table == start_info_manager_from_overall_json(m)
             file == Json(write_interface_info_array_to_json(table))
  <2>1. UNCHANGED overall /\ \/ UNCHANGED split
                             \/ table # Null /\ split' = [split EXCEPT ![m] = file]
    BY <1>4 DEF split_into_target
  <2>2. CASE UNCHANGED split
    BY <2>1, <2>2
  <2>3. CASE table # Null /\ split' = [split EXCEPT ![m] = file]
    <3>1. \/ table = << >>
          \/ /\ OverallLoads(m, overall.array) /\ overall.is = "array"
             /\ table = read_interface_info_array_from_overall_json(m, overall.array)
      BY <2>3 DEF start_info_manager_from_overall_json, Parses
    <3>2. file.array = write_interface_info_array_to_json(table)
      BY DEF Json
    <3>3. \A n \in Nodes : split'[n] = split[n] \/ (n = m /\ split'[n] = file)
      BY <2>3
    <3> HIDE DEF file, table
    <3> QED BY <2>1, <3>1, <3>2, <3>3
  <2> QED BY <2>1, <2>2, <2>3
<1>5. CASE Configure
  <2>1. ASSUME NEW n \in Nodes,
               TLAtOneNodeFromSplitJsonFile(n) \/ TLAtOneNodeFromOverallJsonFile(n)
        PROVE  UNCHANGED configVars
    BY <2>1 DEF TLAtOneNodeFromSplitJsonFile, TLAtOneNodeFromOverallJsonFile, Run
  <2> QED BY <1>1, <1>2, <1>3, <1>4, <1>5, <2>1 DEF Configure, ConfigNext
<1>6. CASE Start \/ Work \/ Die \/ UNCHANGED vars
  BY <1>1, <1>6 DEF Start, Work, Die, vars, configVars
<1> QED BY <1>5, <1>6 DEF Next

LEMMA FilesCorrect == Spec => []FilesInv
<1> QED BY FilesInit, FilesStep, PTL DEF Spec

LEMMA TablesLoaded ==
  ASSUME FilesInv, NEW n \in Nodes, NEW table, table # Null,
         \/ table = start_info_manager_from_overall_json(n)
         \/ table = start_info_manager_from_split_json(n)
  PROVE  WellMade(table) /\ Fresh(table)
<1>1. ASSUME NEW m \in Nodes,
             NEW array \in {xmlToJson(document) :
                                document \in {d \in Documents : Converts(d)}},
             OverallLoads(m, array)
      PROVE  LET loaded == read_interface_info_array_from_overall_json(m, array)
             IN  /\ WellMade(loaded) /\ Fresh(loaded)
                 /\ \A c \in DOMAIN loaded : SplitStrings \subseteq DOMAIN loaded[c]
  <2>1. PICK document \in Documents : array = xmlToJson(document)
    OBVIOUS
  <2> QED BY <1>1, <2>1, LoadedFromOverall
<1>2. CASE table = start_info_manager_from_overall_json(n)
  <2>1. \/ table = << >>
        \/ /\ overall.is = "array" /\ OverallLoads(n, overall.array)
           /\ table = read_interface_info_array_from_overall_json(n, overall.array)
    BY <1>2 DEF start_info_manager_from_overall_json, Parses
  <2> QED BY <2>1, <1>1, EmptyTable DEF FilesInv
<1>3. CASE table = start_info_manager_from_split_json(n)
  <2>1. \/ table = << >>
        \/ /\ split[n].is = "array" /\ SplitLoads(split[n].array)
           /\ table = read_interface_info_array_from_split_json(split[n].array)
    BY <1>3 DEF start_info_manager_from_split_json, Parses
  <2>2. CASE table = << >>
    BY <2>2, EmptyTable
  <2>3. CASE /\ split[n].is = "array" /\ SplitLoads(split[n].array)
             /\ table = read_interface_info_array_from_split_json(split[n].array)
    <3>1. PICK written :
             /\ split[n].array = write_interface_info_array_to_json(written)
             /\ WellMade(written)
             /\ \A c \in DOMAIN written : SplitStrings \subseteq DOMAIN written[c]
      BY <2>3, <1>1, EmptyTable DEF FilesInv
    <3> QED BY <2>3, <3>1, LoadedFromSplit
  <2> QED BY <2>1, <2>2, <2>3
<1> QED BY <1>2, <1>3

LEMMA ConfigureStep ==
  ASSUME FilesInv, Configure
  PROVE  /\ phase = "shell"
         /\ UNCHANGED <<startVars, srcmac, dstmac, can_array, calls, arrivals, leaked,
                        packets, dealt>>
         /\ call' = [i \in DOMAIN interface_info_array' |-> Idle]
         /\ \/ phase' \in {"shell", "crashed"} /\ UNCHANGED interface_info_array
            \/ /\ phase' = "initialise"
               /\ WellMade(interface_info_array')
               /\ Fresh(interface_info_array')
<1>1. ASSUME NEW n \in Nodes,
             TLAtOneNodeFromSplitJsonFile(n) \/ TLAtOneNodeFromOverallJsonFile(n)
      PROVE  /\ phase = "shell"
             /\ \/ phase' \in {"shell", "crashed"} /\ UNCHANGED interface_info_array
                \/ /\ phase' = "initialise"
                   /\ WellMade(interface_info_array')
                   /\ Fresh(interface_info_array')
  BY <1>1, TablesLoaded DEF TLAtOneNodeFromSplitJsonFile,
       TLAtOneNodeFromOverallJsonFile, Run
<1>2. ASSUME Touch \/ (\E document \in Documents : XmlToJson(document))
                   \/ \E n \in Nodes : split_into_target(n)
      PROVE  phase = "shell" /\ UNCHANGED <<phase, interface_info_array>>
  BY <1>2 DEF Touch, XmlToJson, split_into_target
<1> QED BY <1>1, <1>2 DEF Configure, ConfigNext

(* A call that kills the process changes nothing else.                      *)
LEMMA DieStep ==
  ASSUME Die
  PROVE  /\ phase \in {"create", "run"} /\ phase' = "crashed"
         /\ UNCHANGED <<interface_info_array, startVars, configVars, firmwareVars>>
  BY DEF Die, Dies, At, Running, Crash

-----------------------------------------------------------------------------
(* Where the process is, and how far its main thread has come.              *)
LEMMA SameLength ==
  ASSUME NEW a, NEW b, SameEntries(a, b), WellMade(a)
  PROVE  Len(b) = Len(a) /\ DOMAIN b = DOMAIN a
<1>1. DOMAIN b = 1..Len(a) /\ Len(a) \in Nat
  BY DEF SameEntries, WellMade
<1> QED BY <1>1 DEF SameEntries

LEMMA FirmwareCalls ==
  ASSUME FirmwareNext PROVE DOMAIN call' = DOMAIN call
<1>1. CASE \E device \in Devices : Arrive(device)
  BY <1>1 DEF Arrive
<1>2. ASSUME NEW i \in threads, Steps(i) PROVE DOMAIN call' = DOMAIN call
  <2>1. CASE send_message(i) \/ receive_message(i)
    BY <2>1 DEF send_message, receive_message, Starts,
         update_status_in_current_round, Begin
  <2>2. CASE Source(i) \/ Destination(i) \/ CopyDestination(i) \/ CopySource(i)
    BY <2>2 DEF Source, Destination, CopyDestination, CopySource, Goto
  <2>3. CASE socket(i) \/ Fail(i) \/ bind(i) \/ Send(i)
    BY <2>3 DEF socket, Fail, bind, Send, Goto, Return
  <2>4. CASE ReceiveNothing(i) \/ CopyArray(i) \/ ClearArray(i)
    BY <2>4 DEF ReceiveNothing, CopyArray, ClearArray, Return
  <2>5. CASE Receive(i)
    <3>1. \/ call' = [call EXCEPT ![i].fd = Null, ![i].at = "copy"]
          \/ Return(i)
      BY <2>5 DEF Receive
    <3> QED BY <3>1 DEF Return
  <2> QED BY <1>2, <2>1, <2>2, <2>3, <2>4, <2>5 DEF Steps
<1> QED BY <1>1, <1>2 DEF FirmwareNext

LEMMA PhaseInit == Init => PhaseInv
<1> SUFFICES ASSUME Init PROVE PhaseInv
  OBVIOUS
<1> USE DEF Init, StartInit, FirmwareInit
<1>1. WellMade(interface_info_array)
  BY EmptyTable
<1>2. Entries = {} /\ DOMAIN call = {} /\ << >> \in Seq(BOOLEAN)
  BY DEF Entries
<1> QED BY <1>1, <1>2 DEF PhaseInv, Untouched

LEMMA PhaseStep == PhaseInv /\ FilesInv /\ [Next]_vars => PhaseInv'
<1> SUFFICES ASSUME PhaseInv, FilesInv, [Next]_vars PROVE PhaseInv'
  OBVIOUS
<1>0. /\ WellMade(interface_info_array)
      /\ Len(interface_info_array) \in Nat
      /\ Entries = 1..Len(interface_info_array)
      /\ DOMAIN call = Entries
      /\ initialized_flags \in Seq(BOOLEAN)
      /\ threads \subseteq Entries
  BY DEF PhaseInv, WellMade, Entries
<1>1. CASE Configure
  <2>1. /\ phase = "shell" /\ Untouched
        /\ UNCHANGED <<startVars, can_array, leaked, packets, dealt>>
        /\ DOMAIN call' = Entries'
    BY <1>1, ConfigureStep DEF PhaseInv, Entries
  <2>2. /\ next' = 1 /\ initialized_flags' = << >> /\ threads' = {}
        /\ fds' = fds
    BY <2>1 DEF Untouched, startVars
  <2>3. CASE phase' \in {"shell", "crashed"} /\ UNCHANGED interface_info_array
    <3>1. Untouched'
      BY <2>1, <2>2, <2>3 DEF Untouched, startVars, Fds
    <3>2. Entries' = Entries
      BY <2>3 DEF Entries
    <3> QED BY <1>0, <2>1, <2>2, <2>3, <3>1, <3>2 DEF PhaseInv
  <2>4. CASE phase' = "initialise" /\ WellMade(interface_info_array')
    <3>1. Len(interface_info_array') \in Nat
      BY <2>4 DEF WellMade
    <3>2. << >> \in Seq(BOOLEAN) /\ Len(<< >>) = 0
      OBVIOUS
    <3> QED BY <2>1, <2>2, <2>4, <3>1, <3>2 DEF PhaseInv
  <2> QED BY <1>1, <2>3, <2>4, ConfigureStep
<1>2. CASE Start
  <2>0. UNCHANGED <<call, leaked, packets, dealt>>
    BY <1>2 DEF Start, firmwareVars
  <2>1. CASE initializer_transfer
    <3>1. /\ phase = "initialise" /\ next \in Entries
          /\ SameEntries(interface_info_array, interface_info_array')
      BY <1>0, <2>1, InitialiserStep
    <3>2. /\ WellMade(interface_info_array')
          /\ Len(interface_info_array') = Len(interface_info_array)
          /\ Entries' = Entries
      BY <1>0, <3>1, SameWellMade, SameLength DEF Entries
    <3>3. /\ next = Len(initialized_flags) + 1 /\ threads = {}
          /\ Len(initialized_flags) <= Len(interface_info_array)
      BY <3>1 DEF PhaseInv
    <3>4. ASSUME NEW success \in BOOLEAN, Initialised(success) PROVE PhaseInv'
      <4>1. /\ initialized_flags' = Append(initialized_flags, success)
            /\ next' = next + 1 /\ phase' = phase /\ threads' = threads
        BY <3>4 DEF Initialised
      <4>2. /\ initialized_flags' \in Seq(BOOLEAN)
            /\ Len(initialized_flags') = Len(initialized_flags) + 1
        BY <1>0, <4>1
      <4>3. Len(initialized_flags') <= Len(interface_info_array')
        BY <1>0, <3>1, <3>2, <3>3, <4>2
      <4>4. next' = Len(initialized_flags') + 1
        BY <4>1, <4>2, <3>3
      <4> QED BY <1>0, <2>0, <3>1, <3>2, <3>3, <4>1, <4>2, <4>3, <4>4 DEF PhaseInv
    <3>5. CASE Crash
      BY <1>0, <2>0, <3>2, <3>5 DEF Crash, startVars, PhaseInv
    <3> QED BY <1>0, <2>1, <3>4, <3>5, InitialiserStep
  <2>2. CASE InitialiseDone
    <3>1. /\ phase = "initialise" /\ phase' = "create" /\ next' = 1
          /\ next = Len(interface_info_array) + 1
          /\ UNCHANGED <<interface_info_array, initialized_flags, threads>>
      BY <2>2 DEF InitialiseDone
    <3>2. /\ next = Len(initialized_flags) + 1 /\ threads = {}
          /\ Len(initialized_flags) \in Nat
      BY <1>0, <3>1 DEF PhaseInv
    <3>3. Len(initialized_flags) = Len(interface_info_array)
      BY <1>0, <3>1, <3>2
    <3>4. {i \in 1..next' - 1 : initialized_flags'[i]} = {}
          /\ next' \in 1..Len(interface_info_array') + 1
      BY <1>0, <3>1
    <3> QED BY <1>0, <2>0, <3>1, <3>2, <3>3, <3>4 DEF PhaseInv, Entries
  <2>3. CASE CreateThread
    <3>1. /\ phase = "create" /\ next \in Entries
          /\ UNCHANGED <<interface_info_array, initialized_flags>>
      BY <2>3 DEF CreateThread
    <3>2. /\ Len(initialized_flags) = Len(interface_info_array)
          /\ threads = {i \in 1..next - 1 : initialized_flags[i]}
      BY <3>1 DEF PhaseInv
    <3>3. CASE phase' \in {"exited", "crashed"} /\ threads' = threads
      BY <1>0, <2>0, <3>1, <3>3 DEF PhaseInv, Entries
    <3>4. CASE /\ phase' = phase /\ next' = next + 1
               /\ threads' = IF initialized_flags[next] THEN threads \cup {next}
                             ELSE threads
      <4>1. next' \in 1..Len(interface_info_array') + 1 /\ next' - 1 = next
        BY <1>0, <3>1, <3>4
      <4>2. \A i : i \in 1..next <=> i \in 1..next - 1 \/ i = next
        BY <1>0, <3>1
      <4>3. threads' = {i \in 1..next : initialized_flags[i]}
        BY <3>2, <3>4, <4>2
      <4>4. threads' \subseteq Entries
        BY <1>0, <3>1, <3>4
      <4> QED BY <1>0, <2>0, <3>1, <3>2, <3>4, <4>1, <4>3, <4>4 DEF PhaseInv, Entries
    <3> QED BY <2>3, <3>3, <3>4 DEF CreateThread
  <2>4. CASE JoinThreads
    <3>1. /\ phase = "create" /\ next = Len(interface_info_array) + 1
          /\ phase' \in {"crashed", "exited", "run"}
          /\ UNCHANGED <<interface_info_array, initialized_flags, threads>>
      BY <2>4 DEF JoinThreads, startVars
    <3>2. /\ Len(initialized_flags) = Len(interface_info_array)
          /\ threads = {i \in 1..next - 1 : initialized_flags[i]}
      BY <3>1 DEF PhaseInv
    <3>3. threads = {i \in Entries : initialized_flags[i]}
      BY <1>0, <3>1, <3>2
    <3> QED BY <1>0, <2>0, <3>1, <3>2, <3>3 DEF PhaseInv, Entries
  <2> QED BY <1>2, <2>1, <2>2, <2>3, <2>4 DEF Start, StartNext
<1>3. CASE Work
  <2>1. /\ Running
        /\ SameEntries(interface_info_array, interface_info_array')
        /\ UNCHANGED <<phase, next, initialized_flags, threads>>
        /\ DOMAIN call' = DOMAIN call
    BY <1>0, <1>3, FirmwareStep, FirmwareCalls DEF Work, SameDevices
  <2>2. /\ WellMade(interface_info_array')
        /\ Len(interface_info_array') = Len(interface_info_array)
        /\ Entries' = Entries
    BY <1>0, <2>1, SameWellMade, SameLength DEF Entries
  <2> QED BY <1>0, <2>1, <2>2 DEF PhaseInv, Running
<1>4. CASE UNCHANGED vars
  BY <1>4 DEF vars, PhaseInv, Untouched, Entries, Fds
<1>5. CASE Die
  BY <1>0, <1>5, DieStep DEF PhaseInv, startVars, firmwareVars, Entries
<1> QED BY <1>1, <1>2, <1>3, <1>4, <1>5 DEF Next

LEMMA PhaseCorrect == Spec => []PhaseInv
<1> QED BY PhaseInit, PhaseStep, FilesCorrect, PTL DEF Spec

-----------------------------------------------------------------------------
(* Where a thread is in its call.                                           *)
LEMMA NewFdFree ==
  ASSUME Free # {}
  PROVE  NewFd \in Free /\ NewFd \in Fds /\ NewFd # Null
<1>1. Free \subseteq Nat /\ Free \subseteq Fds
  BY StartupAssumption DEF Free, Fds
<1>2. NewFd \in Free
  BY <1>1, LeastIn DEF NewFd
<1> QED BY <1>1, <1>2, StartupAssumption DEF Fds

LEMMA DriversKept ==
  ASSUME SameEntries(interface_info_array, interface_info_array'),
         WellMade(interface_info_array), NEW i \in Entries
  PROVE  /\ SocketDriver(i)' = SocketDriver(i) /\ Binds(i)' = Binds(i)
         /\ Driver(i)' = Driver(i) /\ SocketKind(i)' = SocketKind(i)
         /\ Device(i)' = Device(i)
<1>1. /\ Sends(i)' = Sends(i) /\ Receives(i)' = Receives(i)
      /\ SendFunc(i)' = SendFunc(i) /\ ReceiveFunc(i)' = ReceiveFunc(i)
  BY ReadingsKept
<1>2. Driver(i)' = Driver(i)
  BY <1>1 DEF Driver
<1>3. SocketKind(i)' = SocketKind(i)
  BY <1>2 DEF SocketKind
<1>4. Index(i)' = Index(i) /\ Index(i) \in Entries
  BY EntriesKept, IndexIn
<1>5. /\ Card(Index(i))' = Card(Index(i)) /\ Address(Index(i))' = Address(Index(i))
      /\ Channel(Index(i))' = Channel(Index(i))
  <2> DEFINE k == Index(i)
  <2>1. Card(k)' = Card(k) /\ Address(k)' = Address(k) /\ Channel(k)' = Channel(k)
    <3>1. interface_info_array'[k].eth_info = interface_info_array[k].eth_info
          /\ interface_info_array'[k].can_info = interface_info_array[k].can_info
      BY <1>4, FixedKept
    <3> QED BY <3>1, <1>4 DEF Card, Address, Channel, get_ip_name_by_index,
              get_ip_addr_by_index, get_channel_id_by_index
  <2> QED BY <2>1, <1>4
<1>6. Device(i)' = Device(i)
  BY <1>3, <1>5 DEF Device
<1>7. SocketDriver(i)' = SocketDriver(i) /\ Binds(i)' = Binds(i)
  BY <1>1, <1>2 DEF SocketDriver, Binds
<1> QED BY <1>2, <1>3, <1>6, <1>7

(* Beginning a call marks other calls as mixed and changes nothing else of  *)
(* them; no other step touches the call of another thread.                  *)
LEMMA OthersCalls ==
  ASSUME DOMAIN call = Entries, NEW i \in threads, threads \subseteq Entries,
         Steps(i), NEW j \in Entries, j # i
  PROVE  /\ call'[j].at = call[j].at /\ call'[j].fd = call[j].fd
         /\ call'[j].src = call[j].src /\ call'[j].dst = call[j].dst
         /\ call'[j].msg = call[j].msg
         /\ DOMAIN call'[j] = DOMAIN call[j]
         /\ ~(send_message(i) \/ receive_message(i)) => call'[j] = call[j]
<1>1. CASE send_message(i) \/ receive_message(i)
  <2>1. call' = call \/ \E where : Begin(i, where)
    BY <1>1 DEF send_message, receive_message, Starts,
         update_status_in_current_round
  <2>2. ASSUME NEW where, Begin(i, where)
        PROVE  call'[j] = call[j] \/ call'[j] = [call[j] EXCEPT !.mixed = TRUE]
    BY <2>2 DEF Begin
  <2>3. call'[j] = call[j] \/ call'[j] = [call[j] EXCEPT !.mixed = TRUE]
    BY <2>1, <2>2
  <2>4. CASE call'[j] = [call[j] EXCEPT !.mixed = TRUE]
    <3>1. /\ call'[j].at = call[j].at /\ call'[j].fd = call[j].fd
          /\ call'[j].src = call[j].src /\ call'[j].dst = call[j].dst
          /\ call'[j].msg = call[j].msg /\ DOMAIN call'[j] = DOMAIN call[j]
      BY <2>4
    <3> QED BY <1>1, <3>1
  <2> QED BY <1>1, <2>3, <2>4
<1>2. CASE ~(send_message(i) \/ receive_message(i))
  <2>1. CASE Source(i) \/ Destination(i) \/ CopyDestination(i) \/ CopySource(i)
    BY <2>1, <1>2 DEF Source, Destination, CopyDestination, CopySource, Goto
  <2>2. CASE socket(i) \/ Fail(i) \/ bind(i) \/ Send(i)
    BY <2>2, <1>2 DEF socket, Fail, bind, Send, Goto, Return
  <2>3. CASE ReceiveNothing(i) \/ CopyArray(i) \/ ClearArray(i)
    BY <2>3, <1>2 DEF ReceiveNothing, CopyArray, ClearArray, Return
  <2>4. CASE Receive(i)
    <3>1. \/ call' = [call EXCEPT ![i].fd = Null, ![i].at = "copy"]
          \/ Return(i)
      BY <2>4 DEF Receive
    <3> QED BY <3>1, <1>2 DEF Return
  <2> QED BY <1>2, <2>1, <2>2, <2>3, <2>4 DEF Steps
<1> QED BY <1>1, <1>2

LEMMA CallInit == Init => CallInv
  BY DEF Init, CallInv, Entries

LEMMA IdleCall ==
  ASSUME NEW i PROVE CallOf(i, Idle)
  BY StartupAssumption DEF CallOf, Idle, CallFields, PlaceOf, Holds, Fds

LEMMA CallKept ==
  ASSUME NEW i \in Entries, NEW c, NEW d, CallOf(i, c), DOMAIN d = DOMAIN c,
         d.at = c.at, d.fd = c.fd, i \in threads => i \in threads',
         SameEntries(interface_info_array, interface_info_array'),
         WellMade(interface_info_array)
  PROVE  CallOf(i, d)'
<1>1. PlaceOf(i, d.at)' /\ (Holds(i, d.at)' <=> Holds(i, c.at))
  BY DriversKept, ReadingsKept DEF PlaceOf, Holds, CallOf
<1> QED BY <1>1 DEF CallOf, Fds

LEMMA OwnCall ==
  ASSUME CallInv, DOMAIN call = Entries, NEW i \in threads, threads \subseteq Entries,
         Steps(i)
  PROVE  CallOf(i, call'[i])
<1> DEFINE c == call[i]
           d == call'[i]
<1>0. CallOf(i, c) /\ i \in DOMAIN call
  BY DEF CallInv
<1>1. CASE send_message(i)
  <2>1. CASE call' = call
    BY <2>1, <1>0
  <2>2. CASE Sends(i) /\ SendFunc(i) \in {"send_packet_by_mac_addr", "send_packet_xy"}
             /\ Begin(i, "source")
    <3>1. d.at = "source" /\ d.fd = Null /\ CallFields \subseteq DOMAIN d
      BY <2>2, <1>0 DEF Begin, Idle, CallFields
    <3> QED BY <3>1, <2>2 DEF CallOf, PlaceOf, InPacket, Holds
  <2>3. CASE Sends(i) /\ SendFunc(i) \in {"send_packet_by_ip_addr", "send_packet_can_gpu"}
             /\ Begin(i, "socket")
    <3>1. d.at = "socket" /\ d.fd = Null /\ CallFields \subseteq DOMAIN d
      BY <2>3, <1>0 DEF Begin, Idle, CallFields
    <3> QED BY <3>1, <2>3 DEF CallOf, PlaceOf, InPacket, Holds, SocketDriver
  <2> QED BY <1>1, <2>1, <2>2, <2>3 DEF send_message, Starts,
           update_status_in_current_round
<1>2. CASE receive_message(i)
  <2>1. CASE call' = call
    BY <2>1, <1>0
  <2>2. CASE /\ Receives(i)
             /\ ReceiveFunc(i) \in {"receive_packet_by_mac_addr",
                      "receive_packet_by_ip_addr", "receive_packet_can_gpu"}
             /\ Begin(i, "socket")
    <3>1. d.at = "socket" /\ d.fd = Null /\ CallFields \subseteq DOMAIN d
      BY <2>2, <1>0 DEF Begin, Idle, CallFields
    <3> QED BY <3>1, <2>2 DEF CallOf, PlaceOf, InPacket, Holds, SocketDriver
  <2>3. CASE Receives(i) /\ ReceiveFunc(i) = "receive_packet_xy" /\ Begin(i, "receive")
    <3>1. d.at = "receive" /\ d.fd = Null /\ CallFields \subseteq DOMAIN d
      BY <2>3, <1>0 DEF Begin, Idle, CallFields
    <3>2. ~SocketDriver(i)
      BY <2>3 DEF SocketDriver, Sends, Receives
    <3> QED BY <3>1, <3>2, <2>3 DEF CallOf, PlaceOf, InPacket, Holds
  <2> QED BY <1>2, <2>1, <2>2, <2>3 DEF receive_message, Starts,
           update_status_in_current_round
<1>3. CASE Source(i) \/ Destination(i) \/ CopyDestination(i)
  <2>1. /\ c.at \in InPacket
        /\ d.at \in InPacket /\ d.fd = c.fd /\ DOMAIN d = DOMAIN c
    BY <1>3, <1>0 DEF Source, Destination, CopyDestination, At, Goto, InPacket,
         CallOf, CallFields
  <2> QED BY <2>1, <1>0 DEF CallOf, PlaceOf, InPacket, Holds
<1>4. CASE CopySource(i)
  <2>1. /\ c.at = "copy source"
        /\ d.at = IF SendFunc(i) = "send_packet_xy" THEN "send" ELSE "socket"
        /\ d.fd = c.fd /\ DOMAIN d = DOMAIN c
    BY <1>4, <1>0 DEF CopySource, At, CallOf, CallFields
  <2>2. SendFunc(i) = "send_packet_xy" => ~SocketDriver(i)
    BY <1>0, <2>1 DEF CallOf, PlaceOf, InPacket, SocketDriver, Sends, Receives
  <2> QED BY <2>1, <2>2, <1>0 DEF CallOf, PlaceOf, InPacket, Holds, SocketDriver
<1>5. CASE socket(i)
  <2>1. c.at = "socket"
    BY <1>5 DEF socket, At
  <2>2. CASE Return(i)
    BY <2>2, <1>0, IdleCall DEF Return
  <2>3. CASE /\ Free # {}
             /\ call' = [call EXCEPT ![i].fd = NewFd,
                              ![i].at = IF Binds(i) THEN "bind" ELSE "send"]
    <3>1. /\ d.at = IF Binds(i) THEN "bind" ELSE "send"
          /\ d.fd = NewFd /\ DOMAIN d = DOMAIN c
      BY <2>3, <1>0 DEF CallOf, CallFields
    <3>2. SocketDriver(i) /\ (~Binds(i) => Sends(i))
      BY <1>0, <2>1 DEF CallOf, PlaceOf, InPacket, Binds, Driver, SocketDriver,
           Sends, Receives
    <3> QED BY <3>1, <3>2, <2>3, <1>0, NewFdFree DEF CallOf, PlaceOf, InPacket, Holds
  <2> QED BY <1>5, <2>2, <2>3 DEF socket
<1>6. CASE Fail(i) \/ Send(i) \/ ReceiveNothing(i) \/ ClearArray(i)
  BY <1>6, <1>0, IdleCall DEF Fail, Send, ReceiveNothing, ClearArray, Return
<1>7. CASE bind(i)
  <2>1. /\ c.at = "bind" /\ d.at = IF Sends(i) THEN "send" ELSE "receive"
        /\ d.fd = c.fd /\ DOMAIN d = DOMAIN c
    BY <1>7, <1>0 DEF bind, At, Goto, CallOf, CallFields
  <2>2. SocketDriver(i) /\ (~Sends(i) => Receives(i))
    BY <1>0, <2>1 DEF CallOf, PlaceOf, InPacket, SocketDriver
  <2> QED BY <2>1, <2>2, <1>0 DEF CallOf, PlaceOf, InPacket, Holds
<1>8. CASE Receive(i)
  <2>1. CASE Return(i)
    BY <2>1, <1>0, IdleCall DEF Return
  <2>2. CASE /\ ReceiveFunc(i) = "receive_packet_can_gpu"
             /\ call' = [call EXCEPT ![i].fd = Null, ![i].at = "copy"]
    <3>1. /\ c.at = "receive" /\ d.at = "copy" /\ d.fd = Null
          /\ DOMAIN d = DOMAIN c
      BY <1>8, <2>2, <1>0 DEF Receive, At, CallOf, CallFields
    <3> QED BY <3>1, <2>2, <1>0 DEF CallOf, PlaceOf, InPacket, Holds
  <2> QED BY <1>8, <2>1, <2>2 DEF Receive
<1>9. CASE CopyArray(i)
  <2>1. /\ c.at = "copy" /\ d.at = "clear" /\ d.fd = c.fd
        /\ DOMAIN d = DOMAIN c
    BY <1>9, <1>0 DEF CopyArray, At, CallOf, CallFields
  <2> QED BY <2>1, <1>0 DEF CallOf, PlaceOf, InPacket, Holds
<1> QED BY <1>1, <1>2, <1>3, <1>4, <1>5, <1>6, <1>7, <1>8, <1>9 DEF Steps

LEMMA CallStep == PhaseInv /\ FilesInv /\ CallInv /\ [Next]_vars => CallInv'
<1> SUFFICES ASSUME PhaseInv, FilesInv, CallInv, [Next]_vars PROVE CallInv'
  OBVIOUS
<1>0. /\ WellMade(interface_info_array) /\ DOMAIN call = Entries
      /\ threads \subseteq Entries
  BY DEF PhaseInv
<1>1. CASE Configure
  <2>1. /\ call' = [i \in Entries' |-> Idle]
    BY <1>1 DEF Configure, Entries
  <2> QED BY <2>1, StartupAssumption DEF CallInv, CallOf, Idle, CallFields, PlaceOf,
           Holds, Fds
<1>2. CASE Start
  <2>1. /\ call' = call
        /\ SameEntries(interface_info_array, interface_info_array')
        /\ threads \subseteq threads'
    <3>1. SameEntries(interface_info_array, interface_info_array)
      BY DEF SameEntries
    <3>2. CASE initializer_transfer
      BY <1>0, <1>2, <3>2, InitialiserStep DEF Start, firmwareVars, Initialised, Crash,
           startVars
    <3> QED BY <1>2, <3>1, <3>2 DEF Start, firmwareVars, StartNext, InitialiseDone,
             CreateThread, JoinThreads, startVars
  <2> QED BY <1>0, <2>1, CallKept, EntriesKept DEF CallInv
<1>3. CASE Work
  <2>1. /\ SameEntries(interface_info_array, interface_info_array')
        /\ threads' = threads
    BY <1>0, <1>3, FirmwareStep DEF Work, SameDevices
  <2>2. CASE call' = call
    BY <1>0, <2>1, <2>2, CallKept, EntriesKept DEF CallInv
  <2>3. ASSUME NEW i \in threads, Steps(i) PROVE CallInv'
    <3>1. CallOf(i, call'[i])
      BY <1>0, <2>3, OwnCall
    <3>2. CallOf(i, call[i])'
      BY <1>0, <2>1, <3>1, CallKept
    <3>3. ASSUME NEW j \in Entries, j # i PROVE CallOf(j, call[j])'
      <4>1. /\ call'[j].at = call[j].at /\ call'[j].fd = call[j].fd
            /\ DOMAIN call'[j] = DOMAIN call[j]
        BY <1>0, <2>3, <3>3, OthersCalls
      <4>2. CallOf(j, call[j])
        BY DEF CallInv
      <4> QED BY <1>0, <2>1, <4>1, <4>2, CallKept
    <3> QED BY <1>0, <2>1, <3>2, <3>3, EntriesKept DEF CallInv
  <2> QED BY <1>3, <2>2, <2>3 DEF Work, FirmwareNext, Arrive
<1>4. CASE Die \/ UNCHANGED vars
  <2>1. /\ SameEntries(interface_info_array, interface_info_array')
        /\ threads' = threads /\ call' = call
    BY <1>4, DieStep DEF vars, SameEntries, startVars, firmwareVars
  <2> QED BY <1>0, <2>1, CallKept, EntriesKept DEF CallInv
<1> QED BY <1>1, <1>2, <1>3, <1>4 DEF Next

LEMMA CallCorrect == Spec => []CallInv
<1> QED BY CallInit, CallStep, PhaseCorrect, FilesCorrect, PTL DEF Spec

-----------------------------------------------------------------------------
(* What a step does to the descriptors.                                     *)
SameDescriptor(old, new) ==
    /\ new.kind = old.kind /\ new.device = old.device /\ new.bound = old.bound
    /\ DOMAIN new = DOMAIN old
    /\ new = Vacant <=> old = Vacant

LEMMA FramesChanged ==
  ASSUME NEW d, DescriptorFields \subseteq DOMAIN d, d.kind # "none", NEW frames
  PROVE  SameDescriptor(d, [d EXCEPT !.frames = frames])
<1> DEFINE e == [d EXCEPT !.frames = frames]
<1>1. e.kind = d.kind /\ e.device = d.device /\ e.bound = d.bound /\ DOMAIN e = DOMAIN d
  BY DEF DescriptorFields
<1>2. Vacant.kind = "none"
  BY DEF Vacant
<1> QED BY <1>1, <1>2 DEF SameDescriptor

LEMMA SameDelivered ==
  ASSUME NEW table, DOMAIN table = Fds, NEW device,
         \A fd \in Fds : table[fd] = Vacant \/
             /\ DescriptorFields \subseteq DOMAIN table[fd]
             /\ table[fd].kind # "none",
         Kind(device) # "none"
  PROVE  /\ DOMAIN Delivered(table, device) = Fds
         /\ \A fd \in Fds : SameDescriptor(table[fd], Delivered(table, device)[fd])
<1>1. ASSUME NEW fd \in Fds
      PROVE  SameDescriptor(table[fd], Delivered(table, device)[fd])
  <2>1. CASE ~Takes(table[fd], device)
    BY <2>1 DEF Delivered, SameDescriptor
  <2>2. CASE Takes(table[fd], device)
    <3>1. table[fd] # Vacant
      BY <2>2 DEF Takes, Vacant
    <3>2. \E frames : Delivered(table, device)[fd] = [table[fd] EXCEPT !.frames = frames]
      BY <2>2 DEF Delivered
    <3> QED BY <3>1, <3>2, FramesChanged
  <2> QED BY <2>1, <2>2
<1> QED BY <1>1 DEF Delivered

LEMMA KindOfDevice ==
  /\ \A device \in Devices : Kind(device) # "none"
  /\ \A i : Kind(Device(i)) # "none"
<1>1. \A i : /\ Kind(Card(i)) = "packet" /\ Kind(Address(i)) = "udp"
             /\ Kind(Channel(i)) = "can"
  BY DEF Kind, Card, Address, Channel
<1>2. \A i : \E j : Device(i) \in {Card(j), Address(j), Channel(j)}
  BY DEF Device
<1>3. \A device \in Devices : \E j : device \in {Card(j), Address(j), Channel(j)}
  BY DEF Devices
<1> QED BY <1>1, <1>2, <1>3

KeepsAll ==
    /\ \A fd \in Fds : SameDescriptor(fds[fd], fds'[fd])
    /\ \A j \in Entries : call'[j].fd = call[j].fd
    /\ leaked' = leaked

Opens(i) ==
    /\ call[i].fd = Null
    /\ \E fd \in Free :
           /\ fds' = [fds EXCEPT ![fd] = Descriptor(SocketKind(i), NoDevice, << >>)]
           /\ call'[i].fd = fd
    /\ leaked' = leaked

Closes(i) ==
    /\ call[i].fd # Null /\ call'[i].fd = Null
    /\ \A fd \in Fds : IF fd = call[i].fd THEN fds'[fd] = Vacant
                       ELSE SameDescriptor(fds[fd], fds'[fd])
    /\ leaked' = leaked

Leaks(i) ==
    /\ call[i].fd # Null /\ call'[i].fd = Null
    /\ fds' = fds
    /\ leaked' = leaked \cup {call[i].fd}

Rebinds(i) ==
    /\ call[i].fd # Null /\ call'[i].fd = call[i].fd
    /\ \A fd \in Fds : IF fd = call[i].fd
                       THEN /\ fds'[fd].kind = fds[fd].kind
                            /\ DOMAIN fds'[fd] = DOMAIN fds[fd]
                            /\ fds'[fd].device = Device(i)
                            /\ fds'[fd].bound
                            /\ fds'[fd].frames = fds[fd].frames
                       ELSE fds'[fd] = fds[fd]
    /\ leaked' = leaked

(* The effect on the descriptors of a step of the thread of entry i.        *)
Effect(i) ==
    \/ KeepsAll
    \/ /\ \A j \in Entries \ {i} : call'[j].fd = call[j].fd
       /\ Opens(i) \/ Closes(i) \/ Leaks(i) \/ Rebinds(i)

LEMMA EffectOfSteps ==
  ASSUME PhaseInv, CallInv, DescriptorInv, NEW i \in threads, Steps(i)
  PROVE  DOMAIN fds' = Fds /\ Effect(i)
<1> DEFINE c == call[i]
           f == call[i].fd
<1>0. /\ i \in Entries /\ DOMAIN call = Entries /\ threads \subseteq Entries
      /\ DOMAIN fds = Fds /\ CallOf(i, c) /\ i \in DOMAIN call
      /\ \A fd \in Fds : fds[fd] = Vacant \/
             /\ DescriptorFields \subseteq DOMAIN fds[fd]
             /\ fds[fd].kind # "none"
      /\ f # Null => f \in Fds /\ fds[f] # Vacant
  <2>1. f # Null => f \in Fds \ Free
    BY DEF DescriptorInv, OwnInv, OfCall, PhaseInv
  <2> QED BY <2>1 DEF PhaseInv, CallInv, DescriptorInv, FdTypeInv, Free
<1>1. \A fd \in Fds : SameDescriptor(fds[fd], fds[fd])
  BY DEF SameDescriptor
<1>2. \A j \in Entries \ {i} : call'[j].fd = call[j].fd
  BY <1>0, OthersCalls
<1>3. ASSUME fds' = fds, leaked' = leaked, call'[i].fd = call[i].fd
      PROVE  DOMAIN fds' = Fds /\ Effect(i)
  BY <1>0, <1>1, <1>2, <1>3 DEF Effect, KeepsAll
<1>4. ASSUME fds' = Closed(i), leaked' = leaked, Return(i), f # Null
      PROVE  DOMAIN fds' = Fds /\ Effect(i)
  <2>1. call'[i].fd = Null
    BY <1>0, <1>4 DEF Return, Idle
  <2>2. DOMAIN fds' = Fds
    BY <1>0, <1>4 DEF Closed
  <2>3. ASSUME NEW fd \in Fds
        PROVE  IF fd = call[i].fd THEN fds'[fd] = Vacant
               ELSE SameDescriptor(fds[fd], fds'[fd])
    BY <1>0, <1>1, <1>4 DEF Closed
  <2> QED BY <1>2, <1>4, <2>1, <2>2, <2>3 DEF Effect, Closes
<1>5. CASE send_message(i) \/ receive_message(i)
  <2>1. /\ fds' = fds /\ leaked' = leaked /\ c.at = "idle"
        /\ call' = call \/ \E where : Begin(i, where)
    BY <1>5 DEF send_message, receive_message, Starts, At,
         update_status_in_current_round
  <2>2. f = Null
    BY <1>0, <2>1 DEF CallOf, Holds
  <2>3. ASSUME NEW where, Begin(i, where) PROVE call'[i].fd = Null
    BY <1>0, <2>3 DEF Begin, Idle
  <2>4. call'[i].fd = f
    BY <2>1, <2>2, <2>3
  <2> QED BY <1>3, <2>1, <2>4
<1>6. CASE Source(i) \/ Destination(i) \/ CopyDestination(i) \/ CopySource(i)
           \/ CopyArray(i)
  <2>1. fds' = fds /\ leaked' = leaked /\ call'[i].fd = f
    BY <1>0, <1>6 DEF Source, Destination, CopyDestination, CopySource, CopyArray, Goto,
         CallOf, CallFields
  <2> QED BY <1>3, <2>1
<1>7. CASE socket(i)
  <2>1. c.at = "socket" /\ leaked' = leaked /\ f = Null
    BY <1>0, <1>7 DEF socket, At, CallOf, Holds
  <2>2. CASE Return(i) /\ fds' = fds
    <3>1. call'[i].fd = Null
      BY <1>0, <2>2 DEF Return, Idle
    <3> QED BY <1>3, <2>1, <2>2, <3>1
  <2>3. CASE /\ Free # {}
             /\ fds' = [fds EXCEPT ![NewFd] = Descriptor(SocketKind(i), NoDevice, << >>)]
             /\ call' = [call EXCEPT ![i].fd = NewFd,
                              ![i].at = IF Binds(i) THEN "bind" ELSE "send"]
    <3>1. call'[i].fd = NewFd
      BY <1>0, <2>3 DEF CallOf, CallFields
    <3>2. DOMAIN fds' = Fds
      BY <1>0, <2>3
    <3> QED BY <1>2, <2>1, <2>3, <3>1, <3>2, NewFdFree DEF Effect, Opens
  <2> QED BY <1>7, <2>2, <2>3 DEF socket
<1>8. CASE Fail(i)
  <2>1. /\ c.at = "bind" /\ fds' = Closed(i) /\ Return(i) /\ leaked' = leaked
    BY <1>8 DEF Fail, At
  <2> QED BY <1>0, <1>4, <2>1 DEF CallOf, Holds
<1>9. CASE bind(i)
  <2>1. /\ c.at = "bind" /\ leaked' = leaked
        /\ fds' = [fds EXCEPT ![f].device = Device(i), ![f].bound = TRUE]
    BY <1>9 DEF bind, At
  <2>2. f # Null /\ f \in Fds /\ call'[i].fd = f
    BY <1>0, <1>9, <2>1 DEF CallOf, Holds, bind, Goto, CallFields
  <2>3. DescriptorFields \subseteq DOMAIN fds[f]
    BY <1>0, <2>2
  <2>4. /\ DOMAIN fds' = Fds
        /\ fds'[f].kind = fds[f].kind /\ DOMAIN fds'[f] = DOMAIN fds[f]
        /\ fds'[f].device = Device(i) /\ fds'[f].bound
        /\ fds'[f].frames = fds[f].frames
        /\ \A fd \in Fds \ {f} : fds'[fd] = fds[fd]
    BY <1>0, <2>1, <2>2, <2>3 DEF DescriptorFields
  <2> QED BY <1>2, <2>1, <2>2, <2>4 DEF Effect, Rebinds
<1>10. CASE Send(i)
  <2>1. c.at = "send" /\ Return(i) /\ call'[i].fd = Null
    BY <1>0, <1>10 DEF Send, At, Return, Idle
  <2>2. Sends(i) /\ Driver(i) = SendFunc(i)
    BY <1>0, <2>1 DEF CallOf, PlaceOf, InPacket, Driver
  <2>3. CASE Driver(i) = "send_packet_xy"
    <3>1. ~SocketDriver(i)
      BY <2>2, <2>3 DEF SocketDriver, Sends, Receives
    <3>2. f = Null
      BY <1>0, <2>1, <3>1 DEF CallOf, Holds
    <3>3. fds' = fds /\ leaked' = leaked
      BY <1>10, <2>3 DEF Send, send_packet_xy
    <3> QED BY <1>3, <2>1, <3>2, <3>3
  <2>4. CASE Driver(i) # "send_packet_xy"
    <3>1. f # Null
      BY <1>0, <2>1, <2>2, <2>4 DEF CallOf, PlaceOf, Holds, InPacket
    <3>2. CASE fds' = Closed(i) /\ leaked' = leaked
      BY <1>4, <2>1, <3>1, <3>2
    <3>3. CASE fds' = fds /\ leaked' = leaked \cup {f}
      BY <1>0, <1>2, <2>1, <3>1, <3>3 DEF Effect, Leaks
    <3>4. CASE fds' = Delivered(Closed(i), Device(i)) /\ leaked' = leaked
      <4>1. /\ DOMAIN Closed(i) = Fds
            /\ \A fd \in Fds : Closed(i)[fd] = IF fd = f THEN Vacant ELSE fds[fd]
        BY <1>0, <3>1 DEF Closed
      <4>2. \A fd \in Fds : Closed(i)[fd] = Vacant \/
                 /\ DescriptorFields \subseteq DOMAIN Closed(i)[fd]
                 /\ Closed(i)[fd].kind # "none"
        BY <1>0, <4>1
      <4>3. /\ DOMAIN fds' = Fds
            /\ \A fd \in Fds : SameDescriptor(Closed(i)[fd], fds'[fd])
        BY <3>4, <4>1, <4>2, KindOfDevice, SameDelivered
      <4>4. ASSUME NEW fd \in Fds
            PROVE  IF fd = call[i].fd THEN fds'[fd] = Vacant
                   ELSE SameDescriptor(fds[fd], fds'[fd])
        BY <4>1, <4>3 DEF SameDescriptor
      <4> QED BY <1>2, <2>1, <3>1, <3>4, <4>3, <4>4 DEF Effect, Closes
    <3>5. CASE Driver(i) = "send_packet_can_gpu"
      BY <1>10, <3>3, <3>4, <3>5 DEF Send, send_packet_can_gpu
    <3>6. CASE Driver(i) # "send_packet_can_gpu"
      BY <1>10, <2>4, <3>2, <3>6 DEF Send, SendByAddress
    <3> QED BY <3>5, <3>6
  <2> QED BY <2>3, <2>4
<1>11. CASE ReceiveNothing(i) \/ Receive(i)
  <2>1. c.at = "receive" /\ leaked' = leaked
    BY <1>11 DEF ReceiveNothing, Receive, At
  <2>2. Receives(i)
    BY <1>0, <2>1 DEF CallOf, PlaceOf, InPacket
  <2>3. CASE ReceiveFunc(i) = "receive_packet_xy"
    <3>1. ~SocketDriver(i)
      BY <2>2, <2>3 DEF SocketDriver, Sends, Receives
    <3>2. f = Null
      BY <1>0, <2>1, <3>1 DEF CallOf, Holds
    <3>3. Return(i)
      BY <1>11, <2>3 DEF ReceiveNothing, Receive
    <3>4. call'[i].fd = Null
      BY <1>0, <3>3 DEF Return, Idle
    <3>5. CASE fds' = fds
      BY <1>3, <2>1, <3>2, <3>4, <3>5
    <3>6. ASSUME NEW fd, fds[fd] # Vacant, fds' = [fds EXCEPT ![fd].frames = Tail(@)]
          PROVE  DOMAIN fds' = Fds /\ Effect(i)
      <4>1. DOMAIN fds' = Fds
        BY <1>0, <3>6
      <4>2. ASSUME NEW g \in Fds PROVE SameDescriptor(fds[g], fds'[g])
        <5>1. CASE g = fd
          <6>1. fds'[g] = [fds[g] EXCEPT !.frames = Tail(fds[g].frames)]
            BY <1>0, <3>6, <5>1
          <6> QED BY <1>0, <3>6, <5>1, <6>1, FramesChanged
        <5>2. CASE g # fd
          BY <1>0, <1>1, <3>6, <5>2
        <5> QED BY <5>1, <5>2
      <4>3. \A j \in Entries : call'[j].fd = call[j].fd
        BY <1>2, <3>2, <3>4
      <4> QED BY <2>1, <4>1, <4>2, <4>3 DEF Effect, KeepsAll
    <3>7. fds' = fds \/ \E fd : /\ fds[fd] # Vacant
                                /\ fds' = [fds EXCEPT ![fd].frames = Tail(@)]
      BY <1>11, <2>3 DEF ReceiveNothing, Receive
    <3> QED BY <3>5, <3>6, <3>7
  <2>4. CASE ReceiveFunc(i) # "receive_packet_xy"
    <3>1. f # Null
      BY <1>0, <2>1, <2>2, <2>4 DEF CallOf, PlaceOf, Holds, InPacket
    <3>2. fds' = Closed(i)
      BY <1>11, <2>4 DEF ReceiveNothing, Receive
    <3>3. CASE Return(i)
      BY <1>4, <2>1, <3>1, <3>2, <3>3
    <3>4. CASE call' = [call EXCEPT ![i].fd = Null, ![i].at = "copy"]
      <4>1. call'[i].fd = Null
        BY <1>0, <3>4 DEF CallOf, CallFields
      <4>2. DOMAIN fds' = Fds
        BY <1>0, <3>2 DEF Closed
      <4>3. ASSUME NEW fd \in Fds
            PROVE  IF fd = call[i].fd THEN fds'[fd] = Vacant
                   ELSE SameDescriptor(fds[fd], fds'[fd])
        BY <1>0, <1>1, <3>2 DEF Closed
      <4> QED BY <1>2, <2>1, <3>1, <4>1, <4>2, <4>3 DEF Effect, Closes
    <3> QED BY <1>11, <2>4, <3>3, <3>4 DEF ReceiveNothing, Receive
  <2> QED BY <2>3, <2>4
<1>12. CASE ClearArray(i)
  <2>1. fds' = fds /\ leaked' = leaked /\ c.at = "clear" /\ Return(i)
    BY <1>12 DEF ClearArray, At
  <2>2. f = Null /\ call'[i].fd = Null
    BY <1>0, <2>1 DEF CallOf, Holds, Return, Idle
  <2> QED BY <1>3, <2>1, <2>2
<1> QED BY <1>5, <1>6, <1>7, <1>8, <1>9, <1>10, <1>11, <1>12 DEF Steps

-----------------------------------------------------------------------------
(* What an initialiser does to the table and the descriptors.  It touches   *)
(* all entries of a device or none.                                         *)
Saturated(S) == \A j, k \in Entries : SameDevice(j, k) => (j \in S <=> k \in S)

NormalNext(j) ==
    /\ interface_info_array[j].interface_type = "eth"
    /\ next \in SameCard(j)
    /\ interface_info_array[next].initializer_name = "eth_initializer_normal"

Marks(S) ==
    /\ fds' = fds
    /\ \A j \in Entries :
           /\ interface_info_array'[j].fd = interface_info_array[j].fd
           /\ interface_info_array'[j].initialized_flag =
                  IF j \in S THEN 1 ELSE interface_info_array[j].initialized_flag
    /\ \A j \in S : \/ interface_info_array[j].interface_type = "can"
                    \/ NormalNext(j)

OwnDevice(j, kind, device) ==
    \/ /\ interface_info_array[j].interface_type = "eth"
       /\ kind = "packet" /\ device = Card(j)
    \/ /\ interface_info_array[j].interface_type = "rs485"
       /\ kind = "port" /\ device = Port(j)

Installs(S) ==
    \E kind \in {"packet", "port"}, fd \in Free : \E device, frames :
        /\ fds' = [fds EXCEPT ![fd] = Descriptor(kind, device, frames)]
        /\ kind = "packet" => frames \in EarlyFrames
        /\ kind = "port" => frames = << >>
        /\ device # NoDevice
        /\ \A j \in S : OwnDevice(j, kind, device)
                        /\ interface_info_array[j].initialized_flag = -1
        /\ \A j \in Entries :
               /\ interface_info_array'[j].fd =
                      IF j \in S THEN fd ELSE interface_info_array[j].fd
               /\ interface_info_array'[j].initialized_flag =
                      IF j \in S THEN 1 ELSE interface_info_array[j].initialized_flag

Succeeds(S) ==
    /\ S \subseteq Entries /\ Saturated(S)
    /\ \E success \in BOOLEAN :
           /\ Initialised(success)
           /\ \/ /\ Marks(S)
                 /\ (success /\ interface_info_array[next].initializer_name \in
                                  {"eth_initializer_xy", "rs485_initializer_normal"}) =>
                        interface_info_array[Index(next)].initialized_flag = 1
              \/ Installs(S) /\ Index(next) \in S

LEMMA MarksNone ==
  ASSUME WellMade(interface_info_array), next \in Entries, fds' = fds,
         SameDevices(interface_info_array, interface_info_array'),
         NEW success \in BOOLEAN, Initialised(success),
         (success /\ interface_info_array[next].initializer_name \in
                                  {"eth_initializer_xy", "rs485_initializer_normal"}) =>
                        interface_info_array[Index(next)].initialized_flag = 1
  PROVE  Succeeds({})
  BY DEF Succeeds, Marks, Saturated, SameDevices, Entries

LEMMA SaturatedDevices ==
  ASSUME NEW i \in Entries
  PROVE  /\ interface_info_array[i].interface_type = "eth" =>
                /\ Saturated(SameCard(i)) /\ i \in SameCard(i)
                /\ SameCard(i) \subseteq Entries
                /\ \A j \in SameCard(i) : /\ Card(j) = Card(i) /\ SameDevice(i, j)
                                          /\ interface_info_array[j].interface_type = "eth"
         /\ interface_info_array[i].interface_type = "rs485" =>
                /\ Saturated(SamePort(i)) /\ i \in SamePort(i)
                /\ SamePort(i) \subseteq Entries
                /\ \A j \in SamePort(i) : /\ Port(j) = Port(i) /\ SameDevice(i, j)
                                          /\ interface_info_array[j].interface_type = "rs485"
         /\ Saturated(SameChannel(i)) /\ SameChannel(i) \subseteq Entries
         /\ \A j \in SameChannel(i) : interface_info_array[j].interface_type = "can"
<1> USE DEF SameDevice, SameCard, SamePort, SameChannel, OfType
<1>1. SameChannel(i) \subseteq Entries
      /\ \A j \in SameChannel(i) : interface_info_array[j].interface_type = "can"
  OBVIOUS
<1>2. Saturated(SameChannel(i))
  <2>1. \A j, k \in Entries : SameDevice(j, k) => j \notin SameChannel(i)
                                                  /\ k \notin SameChannel(i)
    BY <1>1
  <2> QED BY <2>1 DEF Saturated
<1>3. ASSUME interface_info_array[i].interface_type = "eth"
      PROVE  /\ Saturated(SameCard(i)) /\ i \in SameCard(i)
             /\ SameCard(i) \subseteq Entries
             /\ \A j \in SameCard(i) : /\ Card(j) = Card(i) /\ SameDevice(i, j)
                                       /\ interface_info_array[j].interface_type = "eth"
  <2>1. \A j, k \in Entries : SameDevice(j, k) => (j \in SameCard(i) <=> k \in SameCard(i))
    OBVIOUS
  <2>2. Saturated(SameCard(i))
    BY <2>1 DEF Saturated
  <2> QED BY <1>3, <2>2 DEF Card
<1>4. ASSUME interface_info_array[i].interface_type = "rs485"
      PROVE  /\ Saturated(SamePort(i)) /\ i \in SamePort(i)
             /\ SamePort(i) \subseteq Entries
             /\ \A j \in SamePort(i) : /\ Port(j) = Port(i) /\ SameDevice(i, j)
                                       /\ interface_info_array[j].interface_type = "rs485"
  <2>1. \A j, k \in Entries : SameDevice(j, k) => (j \in SamePort(i) <=> k \in SamePort(i))
    OBVIOUS
  <2>2. Saturated(SamePort(i))
    BY <2>1 DEF Saturated
  <2> QED BY <1>4, <2>2 DEF Port
<1> QED BY <1>1, <1>2, <1>3, <1>4

LEMMA InitialiserEffect ==
  ASSUME WellMade(interface_info_array), TableInv, initializer_transfer
  PROVE  \/ \E S : Succeeds(S)
         \/ Crash
<1> DEFINE k == Index(next)
<1>0. /\ next \in Entries /\ k \in Entries /\ HasFields(interface_info_array)
      /\ interface_info_array[k].interface_name = interface_info_array[next].interface_name
      /\ interface_info_array[k].interface_type = interface_info_array[next].interface_type
      /\ interface_info_array[k].eth_info = interface_info_array[next].eth_info
  <2>1. next \in Entries
    BY InitialiserStep
  <2>2. "interface_type" \in OfTheName /\ "eth_info" \in OfTheName
    BY DEF OfTheName, Fixed
  <2>3. \A f \in OfTheName : interface_info_array[Index(next)][f] = interface_info_array[next][f]
    BY <2>1, SettingsOfIndex
  <2> QED BY <2>1, <2>2, <2>3, IndexIn DEF WellMade
<1>1. /\ interface_info_array[k].initialized_flag \in {-1, 1}
      /\ \A j \in Entries : SameDevice(k, j) =>
             interface_info_array[k].initialized_flag
               = interface_info_array[j].initialized_flag
  BY <1>0 DEF TableInv
<1>2. CASE AlreadyInitialised(k)
  <2>1. /\ fds' = fds /\ interface_info_array' = interface_info_array
        /\ interface_info_array[k].initialized_flag = 1 /\ Initialised(TRUE)
    <3>1. interface_info_array[k].initialized_flag > 0
      BY <1>2 DEF AlreadyInitialised
    <3>2. interface_info_array[k].initialized_flag = 1
      BY <1>1, <3>1
    <3> QED BY <1>2, <3>2 DEF AlreadyInitialised
  <2> QED BY <1>0, <2>1, MarksNone, SameItself
<1>3. CASE Refuse
  <2>1. fds' = fds /\ interface_info_array' = interface_info_array /\ Initialised(FALSE)
    BY <1>3 DEF Refuse
  <2> QED BY <1>0, <2>1, MarksNone, SameItself
<1>4. ASSUME NEW status, NEW S
      PROVE  LET set == set_interface_status(interface_info_array, k, status)
             IN  /\ SameDevices(interface_info_array, set)
                 /\ \A j \in Entries :
                      /\ Flagged(set, S)[j].fd = interface_info_array[j].fd
                      /\ Flagged(set, S)[j].initialized_flag =
                           IF j \in S THEN 1 ELSE interface_info_array[j].initialized_flag
  <2> DEFINE set == set_interface_status(interface_info_array, k, status)
  <2>1. SameDevices(interface_info_array, set)
    BY <1>0, StatusSet DEF SameDevices, Entries
  <2>2. HasFields(set) /\ DOMAIN set = Entries
    BY <1>0, <2>1, SameFields DEF SameDevices, SameEntries, Entries
  <2> HIDE DEF set
  <2>3. \A j \in Entries : set[j].fd = interface_info_array[j].fd
           /\ set[j].initialized_flag = interface_info_array[j].initialized_flag
    BY <2>1 DEF SameDevices, Entries
  <2>4. \A j \in Entries :
            /\ Flagged(set, S)[j].fd = set[j].fd
            /\ Flagged(set, S)[j].initialized_flag =
                   IF j \in S THEN 1 ELSE set[j].initialized_flag
    BY <2>2, FlaggedSet
  <2>5. /\ SameDevices(interface_info_array, set)
        /\ \A j \in Entries :
              /\ Flagged(set, S)[j].fd = interface_info_array[j].fd
              /\ Flagged(set, S)[j].initialized_flag =
                   IF j \in S THEN 1 ELSE interface_info_array[j].initialized_flag
    BY <2>1, <2>3, <2>4
  <2> QED BY <2>5 DEF set
<1>12. ASSUME NEW status, NEW S, NEW fd
       PROVE  LET set == set_interface_status(interface_info_array, k, status)
              IN  \A j \in Entries :
                      /\ FlaggedWith(set, S, fd)[j].fd =
                           IF j \in S THEN fd ELSE interface_info_array[j].fd
                      /\ FlaggedWith(set, S, fd)[j].initialized_flag =
                           IF j \in S THEN 1 ELSE interface_info_array[j].initialized_flag
  <2> DEFINE set == set_interface_status(interface_info_array, k, status)
  <2>1. SameDevices(interface_info_array, set)
    BY <1>0, StatusSet DEF SameDevices, Entries
  <2>2. HasFields(set) /\ DOMAIN set = Entries
    BY <1>0, <2>1, SameFields DEF SameDevices, SameEntries, Entries
  <2> HIDE DEF set
  <2>3. \A j \in Entries : set[j].fd = interface_info_array[j].fd
           /\ set[j].initialized_flag = interface_info_array[j].initialized_flag
    BY <2>1 DEF SameDevices, Entries
  <2>4. \A j \in Entries :
            /\ FlaggedWith(set, S, fd)[j].fd = IF j \in S THEN fd ELSE set[j].fd
            /\ FlaggedWith(set, S, fd)[j].initialized_flag =
                   IF j \in S THEN 1 ELSE set[j].initialized_flag
    BY <2>2, FlaggedWithSet
  <2>5. \A j \in Entries :
              /\ FlaggedWith(set, S, fd)[j].fd =
                   IF j \in S THEN fd ELSE interface_info_array[j].fd
              /\ FlaggedWith(set, S, fd)[j].initialized_flag =
                   IF j \in S THEN 1 ELSE interface_info_array[j].initialized_flag
    BY <2>3, <2>4
  <2> QED BY <2>5 DEF set
<1>5. ~NoAddress(k) => interface_info_array[k].interface_type = "eth"
  BY <1>0 DEF WellMade, NoAddress, get_ip_addr_by_index, Entries
<1>6. get_rs485_dev_path_by_index(k) # Null =>
          interface_info_array[k].interface_type = "rs485"
  BY <1>0 DEF WellMade, get_rs485_dev_path_by_index, Entries
<1>7. CASE eth_initializer_normal
  <2>1. /\ interface_info_array[next].initializer_name = "eth_initializer_normal"
        /\ \/ AlreadyInitialised(k)
           \/ Refuse
           \/ Crash
           \/ /\ ~NoAddress(k)
              /\ interface_info_array' =
                     Flagged(set_interface_status(interface_info_array, k,
                                       "sending_and_receiving"), SameCard(k))
              /\ fds' = fds /\ Initialised(TRUE)
    BY <1>7 DEF eth_initializer_normal, Initialising
  <2>2. CASE Crash
    BY <2>2
  <2>3. CASE /\ ~NoAddress(k)
             /\ interface_info_array' =
                     Flagged(set_interface_status(interface_info_array, k,
                                       "sending_and_receiving"), SameCard(k))
             /\ fds' = fds /\ Initialised(TRUE)
    <3>1. /\ Saturated(SameCard(k)) /\ SameCard(k) \subseteq Entries
      BY <1>0, <1>5, <2>3, SaturatedDevices
    <3>2. \A j \in SameCard(k) : next \in SameCard(j)
               /\ interface_info_array[j].interface_type = "eth"
      BY <1>0, <1>5, <2>3 DEF SameCard, OfType, get_ip_name_by_index
    <3>3. Marks(SameCard(k))
      BY <1>4, <2>1, <2>3, <3>2 DEF Marks, NormalNext
    <3> QED BY <2>1, <2>3, <3>1, <3>3 DEF Succeeds
  <2> QED BY <1>2, <1>3, <2>1, <2>2, <2>3
<1>8. CASE eth_initializer_xy
  <2>1. \/ AlreadyInitialised(k)
        \/ Refuse
        \/ Crash
        \/ /\ interface_info_array' =
                  set_interface_status(interface_info_array, k, "sending_and_receiving")
           /\ fds' = fds /\ Initialised(FALSE)
        \/ /\ ~NoAddress(k) /\ interface_info_array[k].initialized_flag <= 0
           /\ Free # {}
           /\ \E frames \in EarlyFrames :
                  fds' = [fds EXCEPT ![NewFd] = Descriptor("packet", Card(k), frames)]
           /\ interface_info_array' =
                  FlaggedWith(set_interface_status(interface_info_array, k,
                                    "sending_and_receiving"), SameCard(k), NewFd)
           /\ Initialised(TRUE)
    BY <1>8 DEF eth_initializer_xy, Initialising
  <2>2. CASE Crash
    BY <2>2
  <2>3. CASE /\ interface_info_array' =
                  set_interface_status(interface_info_array, k, "sending_and_receiving")
             /\ fds' = fds /\ Initialised(FALSE)
    <3>1. SameDevices(interface_info_array, interface_info_array')
      BY <1>4, <2>3
    <3> QED BY <1>0, <2>3, <3>1, MarksNone
  <2>4. CASE /\ ~NoAddress(k) /\ interface_info_array[k].initialized_flag <= 0
             /\ Free # {}
             /\ \E frames \in EarlyFrames :
                    fds' = [fds EXCEPT ![NewFd] = Descriptor("packet", Card(k), frames)]
             /\ interface_info_array' =
                    FlaggedWith(set_interface_status(interface_info_array, k,
                                      "sending_and_receiving"), SameCard(k), NewFd)
             /\ Initialised(TRUE)
    <3>1. /\ Saturated(SameCard(k)) /\ SameCard(k) \subseteq Entries /\ k \in SameCard(k)
          /\ \A j \in SameCard(k) : /\ Card(j) = Card(k) /\ SameDevice(k, j)
                                    /\ interface_info_array[j].interface_type = "eth"
      BY <1>0, <1>5, <2>4, SaturatedDevices
    <3>2. interface_info_array[k].initialized_flag = -1
      BY <1>1, <2>4
    <3>3. \A j \in SameCard(k) : /\ OwnDevice(j, "packet", Card(k))
                                 /\ interface_info_array[j].initialized_flag = -1
      BY <1>1, <3>1, <3>2 DEF OwnDevice
    <3>4. Card(k) # NoDevice
      BY DEF Card, NoDevice
    <3>5. \A j \in Entries :
               /\ interface_info_array'[j].fd =
                      IF j \in SameCard(k) THEN NewFd ELSE interface_info_array[j].fd
               /\ interface_info_array'[j].initialized_flag =
                      IF j \in SameCard(k) THEN 1 ELSE interface_info_array[j].initialized_flag
      BY <1>12, <2>4
    <3>6. PICK frames \in EarlyFrames :
              fds' = [fds EXCEPT ![NewFd] = Descriptor("packet", Card(k), frames)]
      BY <2>4
    <3>7. NewFd \in Free
      BY <2>4, NewFdFree
    <3>8. Installs(SameCard(k))
      BY <3>3, <3>4, <3>5, <3>6, <3>7 DEF Installs
    <3> QED BY <2>4, <3>1, <3>8 DEF Succeeds
  <2> QED BY <1>2, <1>3, <2>1, <2>2, <2>3, <2>4
<1>9. CASE rs485_initializer_normal
  <2>1. \/ AlreadyInitialised(k)
        \/ Refuse
        \/ Crash
        \/ /\ interface_info_array[k].initialized_flag <= 0
           /\ OpenPort(k) /\ Initialised(TRUE)
    BY <1>9 DEF rs485_initializer_normal, Initialising
  <2>2. CASE Crash
    BY <2>2
  <2>3. CASE /\ interface_info_array[k].initialized_flag <= 0
             /\ OpenPort(k) /\ Initialised(TRUE)
    <3>0. /\ Free # {} /\ interface_info_array[k].interface_type = "rs485"
          /\ fds' = [fds EXCEPT ![NewFd] = Descriptor("port", Port(k), << >>)]
          /\ interface_info_array' = FlaggedWith(interface_info_array, SamePort(k), NewFd)
      BY <1>6, <2>3 DEF OpenPort
    <3>1. /\ Saturated(SamePort(k)) /\ SamePort(k) \subseteq Entries /\ k \in SamePort(k)
          /\ \A j \in SamePort(k) : /\ Port(j) = Port(k) /\ SameDevice(k, j)
                                    /\ interface_info_array[j].interface_type = "rs485"
      BY <1>0, <3>0, SaturatedDevices
    <3>2. interface_info_array[k].initialized_flag = -1
      BY <1>1, <2>3
    <3>3. \A j \in SamePort(k) : /\ OwnDevice(j, "port", Port(k))
                                 /\ interface_info_array[j].initialized_flag = -1
      BY <1>1, <3>1, <3>2 DEF OwnDevice
    <3>4. Port(k) # NoDevice
      BY DEF Port, NoDevice
    <3>5. \A j \in Entries :
               /\ interface_info_array'[j].fd =
                      IF j \in SamePort(k) THEN NewFd ELSE interface_info_array[j].fd
               /\ interface_info_array'[j].initialized_flag =
                      IF j \in SamePort(k) THEN 1 ELSE interface_info_array[j].initialized_flag
      BY <1>0, <3>0, FlaggedWithSet DEF Entries
    <3>6. NewFd \in Free
      BY <3>0, NewFdFree
    <3>7. Installs(SamePort(k))
      BY <3>0, <3>3, <3>4, <3>5, <3>6 DEF Installs
    <3> QED BY <2>3, <3>1, <3>7 DEF Succeeds
  <2> QED BY <1>2, <1>3, <2>1, <2>2, <2>3
<1>10. CASE can_fpu_initializer_normal
  <2>1. /\ interface_info_array[next].initializer_name = "can_fpu_initializer_normal"
        /\ \/ AlreadyInitialised(k)
           \/ /\ interface_info_array' =
                     Flagged(set_interface_status(interface_info_array, k,
                                       "receiving"), SameChannel(k))
              /\ fds' = fds /\ Initialised(TRUE)
           \/ /\ interface_info_array' =
                     set_interface_status(interface_info_array, k, "closed")
              /\ fds' = fds /\ Initialised(FALSE)
    BY <1>10 DEF can_fpu_initializer_normal, Initialising
  <2>2. CASE /\ interface_info_array' =
                     Flagged(set_interface_status(interface_info_array, k,
                                       "receiving"), SameChannel(k))
             /\ fds' = fds /\ Initialised(TRUE)
    <3>1. /\ Saturated(SameChannel(k)) /\ SameChannel(k) \subseteq Entries
          /\ \A j \in SameChannel(k) : interface_info_array[j].interface_type = "can"
      BY <1>0, SaturatedDevices
    <3>2. Marks(SameChannel(k))
      BY <1>4, <2>2, <3>1 DEF Marks
    <3> QED BY <2>1, <2>2, <3>1, <3>2 DEF Succeeds
  <2>3. CASE /\ interface_info_array' =
                     set_interface_status(interface_info_array, k, "closed")
             /\ fds' = fds /\ Initialised(FALSE)
    <3>1. SameDevices(interface_info_array, interface_info_array')
      BY <1>4, <2>3
    <3> QED BY <1>0, <2>3, <3>1, MarksNone
  <2> QED BY <1>2, <2>1, <2>2, <2>3
<1>11. CASE can_gpu_initializer_normal
  <2>1. /\ interface_info_array[next].initializer_name = "can_gpu_initializer_normal"
        /\ Initialised(TRUE) /\ fds' = fds
        /\ interface_info_array' = interface_info_array
    BY <1>11 DEF can_gpu_initializer_normal, Initialising
  <2> QED BY <1>0, <2>1, MarksNone, SameItself
<1> QED BY <1>3, <1>7, <1>8, <1>9, <1>10, <1>11 DEF initializer_transfer

-----------------------------------------------------------------------------
(* The descriptors and their owners.                                        *)
LEMMA DescriptorKinds ==
  ASSUME NEW kind \in {"packet", "udp", "can", "port"}, NEW device, NEW frames
  PROVE  LET d == Descriptor(kind, device, frames)
         IN  /\ d # Vacant /\ DescriptorFields \subseteq DOMAIN d
             /\ d.kind = kind /\ d.device = device
<1> DEFINE d == Descriptor(kind, device, frames)
<1>1. d.kind = kind /\ d.device = device /\ DescriptorFields \subseteq DOMAIN d
  BY DEF Descriptor, DescriptorFields
<1>2. Vacant.kind = "none"
  BY DEF Vacant
<1> QED BY <1>1, <1>2

LEMMA SocketKinds == \A i : SocketKind(i) \in {"packet", "udp", "can"}
  BY DEF SocketKind

LEMMA SucceedsKeeps ==
  ASSUME WellMade(interface_info_array), DescriptorInv, NEW S, Succeeds(S),
         SameEntries(interface_info_array, interface_info_array'),
         call' = call, leaked' = leaked
  PROVE  DescriptorInv'
<1>0. /\ Entries' = Entries /\ Fds' = Fds
      /\ \A i \in Entries : /\ Card(i)' = Card(i) /\ Port(i)' = Port(i)
                            /\ SameCard(i)' = SameCard(i) /\ SamePort(i)' = SamePort(i)
                            /\ interface_info_array'[i].interface_type
                                   = interface_info_array[i].interface_type
  BY EntriesKept, ReadingsKept, FixedKept DEF Fds
<1>1. \A i, j \in Entries : SameDevice(i, j)' <=> SameDevice(i, j)
  BY <1>0 DEF SameDevice
<1>2. /\ DOMAIN fds = Fds /\ S \subseteq Entries
      /\ \A i, j \in Entries : SameDevice(i, j) => (i \in S <=> j \in S)
  BY DEF DescriptorInv, FdTypeInv, Succeeds, Saturated
<1>3. \A j \in Entries : interface_info_array'[j].initialized_flag =
                  IF j \in S THEN 1 ELSE interface_info_array[j].initialized_flag
  BY DEF Succeeds, Marks, Installs
<1>4. /\ \A j \in Entries : interface_info_array'[j].initialized_flag \in {-1, 1}
      /\ \A i, j \in Entries : SameDevice(i, j)' =>
             interface_info_array'[i].initialized_flag
                 = interface_info_array'[j].initialized_flag
  BY <1>1, <1>2, <1>3 DEF DescriptorInv, TableInv
<1>5. CASE Marks(S)
  <2>1. fds' = fds /\ \A j \in Entries : OfTable(j)' = OfTable(j)
    BY <1>5 DEF Marks, OfTable
  <2>2. FdTypeInv'
    BY <2>1, <1>0 DEF DescriptorInv, FdTypeInv, Free
  <2>3. ASSUME NEW i \in Entries, OfTable(i) # Null PROVE InTable(i)'
    <3>1. InTable(i)
      BY <2>3 DEF DescriptorInv, TableInv, OfTable
    <3> QED BY <1>0, <1>3, <2>1, <3>1 DEF InTable, OfTable, Free
  <2>4. TableInv'
    BY <1>0, <1>4, <2>1, <2>3 DEF TableInv, OfTable
  <2>5. OwnInv'
    BY <1>0, <2>1 DEF DescriptorInv, OwnInv, OfCall, OfTable, Free
  <2> QED BY <2>2, <2>4, <2>5 DEF DescriptorInv
<1>6. CASE Installs(S) /\ Index(next) \in S
  <2>0. PICK kind \in {"packet", "port"}, fd \in Free : \E device, frames :
        /\ fds' = [fds EXCEPT ![fd] = Descriptor(kind, device, frames)]
        /\ kind = "packet" => frames \in EarlyFrames
        /\ kind = "port" => frames = << >>
        /\ device # NoDevice
        /\ \A j \in S : OwnDevice(j, kind, device)
                        /\ interface_info_array[j].initialized_flag = -1
        /\ \A j \in Entries :
               /\ interface_info_array'[j].fd =
                      IF j \in S THEN fd ELSE interface_info_array[j].fd
               /\ interface_info_array'[j].initialized_flag =
                      IF j \in S THEN 1 ELSE interface_info_array[j].initialized_flag
    BY <1>6, Zenon DEF Installs
  <2>1. PICK device, frames :
        /\ fds' = [fds EXCEPT ![fd] = Descriptor(kind, device, frames)]
        /\ \A j \in S : OwnDevice(j, kind, device)
                        /\ interface_info_array[j].initialized_flag = -1
        /\ \A j \in Entries :
               interface_info_array'[j].fd =
                      IF j \in S THEN fd ELSE interface_info_array[j].fd
    BY <2>0, Zenon
  <2>2. /\ fd \in Fds /\ fd # Null /\ fds[fd] = Vacant
        /\ DOMAIN fds' = Fds
        /\ fds'[fd] # Vacant /\ DescriptorFields \subseteq DOMAIN fds'[fd]
        /\ fds'[fd].kind = kind /\ fds'[fd].device = device
        /\ \A g \in Fds \ {fd} : fds'[g] = fds[g]
    BY <1>2, <2>1, DescriptorKinds, StartupAssumption DEF Free, Fds
  <2>3. Fds \ Free' = (Fds \ Free) \cup {fd}
    BY <1>0, <2>2 DEF Free
  <2>4. FdTypeInv'
    BY <1>0, <2>1, <2>2, <2>3 DEF DescriptorInv, FdTypeInv
  <2>5. \A j \in S : OfTable(j) = Null
    BY <1>2, <2>1 DEF DescriptorInv, TableInv, InTable, OfTable
  <2>6. ASSUME NEW i \in Entries, OfTable(i)' # Null PROVE InTable(i)'
    <3>1. CASE i \in S
      BY <1>0, <1>3, <2>1, <2>2, <2>3, <3>1 DEF InTable, OwnDevice
    <3>2. CASE i \notin S
      <4>1. /\ OfTable(i)' = OfTable(i) /\ InTable(i)
        BY <2>1, <2>6, <3>2 DEF DescriptorInv, TableInv, OfTable
      <4>2. OfTable(i) # fd
        BY <4>1, <2>2 DEF InTable, OfTable, Free
      <4> QED BY <1>0, <1>3, <2>2, <2>3, <3>2, <4>1, <4>2 DEF InTable, OfTable
    <3> QED BY <3>1, <3>2
  <2>7. TableInv'
    BY <1>0, <1>4, <2>6 DEF TableInv, OfTable
  <2>8. OwnInv'
    <3>1. /\ \A i \in Entries : OfTable(i)' = IF i \in S THEN fd ELSE OfTable(i)
          /\ \A i \in Entries : OfCall(i)' = OfCall(i)
      BY <2>1 DEF OfTable, OfCall
    <3>2. fd \notin Fds \ Free
      BY <2>1
    <3>3. \A i \in Entries : OfCall(i) # fd
      BY <3>2, <2>2 DEF DescriptorInv, OwnInv
    <3>4. fd \notin leaked /\ leaked \subseteq Fds \ Free'
      BY <2>3, <3>2 DEF DescriptorInv, OwnInv
    <3>5. \A i \in Entries : OfCall(i)' # Null =>
           /\ OfCall(i)' \in Fds \ Free'
           /\ OfCall(i)' \notin leaked
           /\ \A j \in Entries : /\ OfTable(j)' # OfCall(i)'
                                 /\ OfCall(j)' = OfCall(i)' => j = i
      BY <2>3, <3>1, <3>3 DEF DescriptorInv, OwnInv
    <3>6. \A j \in Entries : OfTable(j)' \notin leaked
      BY <3>1, <3>4 DEF DescriptorInv, OwnInv
    <3>7. ASSUME NEW g \in Fds \ Free', g \notin leaked
          PROVE  \E i \in Entries : OfCall(i)' = g \/ OfTable(i)' = g
      <4>1. CASE g = fd
        BY <1>2, <1>6, <3>1, <4>1
      <4>2. CASE g # fd
        <5>1. PICK i \in Entries : OfCall(i) = g \/ OfTable(i) = g
          BY <2>3, <3>7, <4>2 DEF DescriptorInv, OwnInv
        <5>2. g # Null
          BY <3>7, StartupAssumption DEF Fds
        <5> QED BY <2>5, <3>1, <5>1, <5>2
      <4> QED BY <4>1, <4>2
    <3> QED BY <1>0, <3>4, <3>5, <3>6, <3>7 DEF OwnInv
  <2> QED BY <2>4, <2>7, <2>8 DEF DescriptorInv
<1> QED BY <1>5, <1>6 DEF Succeeds

TableApart(i) ==
    \A fd \in Fds : \/ fd = OfCall(i)
                    \/ OfCall(i) = Null /\ fd \in Free
                    \/ SameDescriptor(fds[fd], fds'[fd])

LEMMA EffectKeeps ==
  ASSUME WellMade(interface_info_array), DescriptorInv, NEW i \in Entries, Effect(i),
         DOMAIN fds' = Fds,
         SameDevices(interface_info_array, interface_info_array')
  PROVE  DescriptorInv'
<1>0. /\ Entries' = Entries /\ Fds' = Fds
      /\ \A j \in Entries : /\ Card(j)' = Card(j) /\ Port(j)' = Port(j)
                            /\ SameCard(j)' = SameCard(j) /\ SamePort(j)' = SamePort(j)
                            /\ interface_info_array'[j].interface_type
                                   = interface_info_array[j].interface_type
                            /\ OfTable(j)' = OfTable(j)
                            /\ interface_info_array'[j].initialized_flag
                                   = interface_info_array[j].initialized_flag
  BY EntriesKept, ReadingsKept, FixedKept DEF Fds, SameDevices, Entries, OfTable
<1>1. \A j, k \in Entries : SameDevice(j, k)' <=> SameDevice(j, k)
  BY <1>0 DEF SameDevice
<1>2. Null \notin Fds
  BY StartupAssumption DEF Fds
<1> DEFINE f == call[i].fd
(* The table keeps its descriptors: they are those of no call.              *)
<1>3. ASSUME TableApart(i) PROVE TableInv'
  <2>1. ASSUME NEW j \in Entries, OfTable(j) # Null PROVE InTable(j)'
    <3>1. InTable(j)
      BY <2>1 DEF DescriptorInv, TableInv, OfTable
    <3>2. OfTable(j) \in Fds \ Free
      BY <3>1 DEF InTable, OfTable
    <3>3. OfTable(j) # OfCall(i)
      BY <2>1 DEF DescriptorInv, OwnInv
    <3>4. SameDescriptor(fds[OfTable(j)], fds'[OfTable(j)])
      BY <1>3, <3>2, <3>3 DEF TableApart
    <3>5. OfTable(j) \in Fds \ Free'
      BY <3>2, <3>4 DEF Free, SameDescriptor, Fds
    <3> QED BY <1>0, <3>1, <3>4, <3>5 DEF InTable, OfTable, SameDescriptor
  <2> QED BY <1>0, <1>1, <2>1 DEF TableInv, DescriptorInv, OfTable
<1>4. CASE KeepsAll
  <2>1. \A fd \in Fds : SameDescriptor(fds[fd], fds'[fd])
    BY <1>4 DEF KeepsAll
  <2>2. Fds \ Free' = Fds \ Free
    BY <1>0, <2>1 DEF Free, SameDescriptor
  <2>3. FdTypeInv'
    BY <1>0, <2>1, <2>2 DEF DescriptorInv, FdTypeInv, SameDescriptor
  <2>4. leaked' = leaked /\ \A j \in Entries : OfCall(j)' = OfCall(j)
    BY <1>4 DEF KeepsAll, OfCall
  <2>5. OwnInv'
    BY <1>0, <2>2, <2>4 DEF DescriptorInv, OwnInv
  <2>6. TableApart(i)
    BY <2>1 DEF TableApart
  <2> QED BY <1>3, <2>3, <2>5, <2>6 DEF DescriptorInv
<1>5. CASE Opens(i) /\ \A j \in Entries \ {i} : call'[j].fd = call[j].fd
  <2>1. PICK fd \in Free :
           /\ fds' = [fds EXCEPT ![fd] = Descriptor(SocketKind(i), NoDevice, << >>)]
           /\ OfCall(i)' = fd
    BY <1>5 DEF Opens, OfCall
  <2>2. /\ leaked' = leaked /\ OfCall(i) = Null
        /\ \A j \in Entries \ {i} : OfCall(j)' = OfCall(j)
    BY <1>5 DEF Opens, OfCall
  <2>3. /\ fd \in Fds /\ fd # Null /\ fd \notin Fds \ Free
        /\ fds'[fd] # Vacant /\ DescriptorFields \subseteq DOMAIN fds'[fd]
        /\ fds'[fd].kind = SocketKind(i)
        /\ \A g \in Fds \ {fd} : fds'[g] = fds[g]
    BY <1>2, <2>1, DescriptorKinds, SocketKinds DEF Free, DescriptorInv, FdTypeInv
  <2>4. Fds \ Free' = (Fds \ Free) \cup {fd}
    BY <1>0, <2>3 DEF Free
  <2>5. FdTypeInv'
    BY <1>0, <2>3, <2>4, SocketKinds DEF DescriptorInv, FdTypeInv
  <2>6. TableInv'
    <3>1. TableApart(i)
      BY <2>1, <2>2, <2>3 DEF TableApart, SameDescriptor
    <3> QED BY <1>3, <3>1
  <2>7. \A j \in Entries : OfCall(j) # fd /\ OfTable(j) # fd
    BY <2>3 DEF DescriptorInv, OwnInv, TableInv, InTable, OfTable
  <2>8. fd \notin leaked
    BY <2>3 DEF DescriptorInv, OwnInv
  <2>9. OwnInv'
    <3>1. leaked \subseteq Fds \ Free'
      BY <2>4 DEF DescriptorInv, OwnInv
    <3>2. ASSUME NEW j \in Entries, OfCall(j)' # Null
          PROVE  /\ OfCall(j)' \in Fds \ Free'
                 /\ OfCall(j)' \notin leaked
                 /\ \A k \in Entries : /\ OfTable(k)' # OfCall(j)'
                                       /\ OfCall(k)' = OfCall(j)' => k = j
      BY <1>0, <2>1, <2>2, <2>4, <2>7, <2>8, <3>2 DEF DescriptorInv, OwnInv
    <3>3. \A j \in Entries : OfTable(j)' \notin leaked
      BY <1>0 DEF DescriptorInv, OwnInv
    <3>4. ASSUME NEW g \in Fds \ Free', g \notin leaked
          PROVE  \E j \in Entries : OfCall(j)' = g \/ OfTable(j)' = g
      <4>1. CASE g = fd
        BY <2>1, <4>1
      <4>2. CASE g # fd
        BY <1>0, <1>2, <2>2, <2>4, <3>4, <4>2 DEF DescriptorInv, OwnInv
      <4> QED BY <4>1, <4>2
    <3> QED BY <1>0, <2>2, <3>1, <3>2, <3>3, <3>4 DEF OwnInv
  <2> QED BY <2>5, <2>6, <2>9 DEF DescriptorInv
<1>6. CASE Closes(i) /\ \A j \in Entries \ {i} : call'[j].fd = call[j].fd
  <2>1. /\ leaked' = leaked /\ OfCall(i) # Null /\ OfCall(i)' = Null
        /\ \A j \in Entries \ {i} : OfCall(j)' = OfCall(j)
        /\ \A fd \in Fds : IF fd = OfCall(i) THEN fds'[fd] = Vacant
                       ELSE SameDescriptor(fds[fd], fds'[fd])
    BY <1>6 DEF Closes, OfCall
  <2>2. Fds \ Free' = (Fds \ Free) \ {OfCall(i)}
    BY <1>0, <2>1 DEF Free, SameDescriptor
  <2>3. FdTypeInv'
    BY <1>0, <2>1, <2>2 DEF DescriptorInv, FdTypeInv, SameDescriptor
  <2>4. TableInv'
    <3>1. TableApart(i)
      BY <2>1 DEF TableApart
    <3> QED BY <1>3, <3>1
  <2>5. OwnInv'
    BY <1>0, <2>1, <2>2 DEF DescriptorInv, OwnInv
  <2> QED BY <2>3, <2>4, <2>5 DEF DescriptorInv
<1>7. CASE Leaks(i) /\ \A j \in Entries \ {i} : call'[j].fd = call[j].fd
  <2>1. /\ leaked' = leaked \cup {OfCall(i)} /\ OfCall(i) # Null /\ OfCall(i)' = Null
        /\ \A j \in Entries \ {i} : OfCall(j)' = OfCall(j)
        /\ fds' = fds
    BY <1>7 DEF Leaks, OfCall
  <2>2. Fds \ Free' = Fds \ Free
    BY <1>0, <2>1 DEF Free
  <2>3. FdTypeInv'
    BY <1>0, <2>1, <2>2 DEF DescriptorInv, FdTypeInv
  <2>4. TableInv'
    <3>1. TableApart(i)
      BY <2>1 DEF TableApart, SameDescriptor
    <3> QED BY <1>3, <3>1
  <2>5. OwnInv'
    BY <1>0, <2>1, <2>2 DEF DescriptorInv, OwnInv
  <2> QED BY <2>3, <2>4, <2>5 DEF DescriptorInv
<1>8. CASE Rebinds(i) /\ \A j \in Entries \ {i} : call'[j].fd = call[j].fd
  <2>1. /\ leaked' = leaked /\ OfCall(i) # Null
        /\ \A j \in Entries : OfCall(j)' = OfCall(j)
        /\ \A fd \in Fds : fd # OfCall(i) => fds'[fd] = fds[fd]
        /\ fds'[OfCall(i)].kind = fds[OfCall(i)].kind
        /\ DOMAIN fds'[OfCall(i)] = DOMAIN fds[OfCall(i)]
    BY <1>8 DEF Rebinds, OfCall, DescriptorInv, OwnInv
  <2>2. OfCall(i) \in Fds \ Free
    BY <2>1 DEF DescriptorInv, OwnInv
  <2>3. fds'[OfCall(i)] # Vacant
    <3>1. fds[OfCall(i)].kind # "none" /\ Vacant.kind = "none"
      BY <2>2 DEF DescriptorInv, FdTypeInv, Vacant
    <3> QED BY <2>1, <3>1
  <2>4. Fds \ Free' = Fds \ Free
    BY <1>0, <2>1, <2>2, <2>3 DEF Free
  <2>5. FdTypeInv'
    BY <1>0, <2>1, <2>4 DEF DescriptorInv, FdTypeInv
  <2>6. TableInv'
    <3>1. TableApart(i)
      BY <2>1 DEF TableApart, SameDescriptor
    <3> QED BY <1>3, <3>1
  <2>7. OwnInv'
    BY <1>0, <2>1, <2>4 DEF DescriptorInv, OwnInv
  <2> QED BY <2>5, <2>6, <2>7 DEF DescriptorInv
<1> QED BY <1>4, <1>5, <1>6, <1>7, <1>8 DEF Effect

LEMMA DescriptorInit == Init => DescriptorInv
<1> SUFFICES ASSUME Init PROVE DescriptorInv
  OBVIOUS
<1>1. /\ Entries = {} /\ leaked = {} /\ Free = Fds /\ DOMAIN fds = Fds
  BY DEF Init, StartInit, FirmwareInit, Entries, Free
<1> QED BY <1>1 DEF DescriptorInv, FdTypeInv, TableInv, OwnInv

LEMMA DescriptorStep ==
  PhaseInv /\ FilesInv /\ CallInv /\ DescriptorInv /\ [Next]_vars => DescriptorInv'
<1> SUFFICES ASSUME PhaseInv, FilesInv, CallInv, DescriptorInv, [Next]_vars
             PROVE  DescriptorInv'
  OBVIOUS
<1>0. /\ WellMade(interface_info_array) /\ DOMAIN call = Entries
      /\ threads \subseteq Entries
  BY DEF PhaseInv
<1>1. ASSUME /\ SameDevices(interface_info_array, interface_info_array')
             /\ fds' = fds /\ call' = call /\ leaked' = leaked
      PROVE  DescriptorInv'
  <2>1. Entries' = Entries /\ Fds' = Fds /\ Free' = Free
    BY <1>0, <1>1, EntriesKept DEF SameDevices, Free, Fds
  <2>2. /\ \A i \in Entries : OfTable(i)' = OfTable(i) /\ OfCall(i)' = OfCall(i)
    BY <1>1 DEF SameDevices, OfTable, OfCall, Entries
  <2>3. FdTypeInv' /\ OwnInv'
    BY <1>1, <2>1, <2>2 DEF DescriptorInv, FdTypeInv, OwnInv
  <2>4. \A i \in Entries :
           /\ interface_info_array'[i].initialized_flag
                  = interface_info_array[i].initialized_flag
           /\ interface_info_array'[i].interface_type
                  = interface_info_array[i].interface_type
           /\ Card(i)' = Card(i) /\ Port(i)' = Port(i)
           /\ SameCard(i)' = SameCard(i) /\ SamePort(i)' = SamePort(i)
    BY <1>0, <1>1, ReadingsKept, FixedKept DEF SameDevices, Entries
  <2>5. \A i, j \in Entries : SameDevice(i, j)' <=> SameDevice(i, j)
    BY <2>4 DEF SameDevice
  <2>6. \A i \in Entries : InTable(i) => InTable(i)'
    BY <1>1, <2>1, <2>2, <2>4 DEF InTable, OfTable
  <2>7. TableInv'
    BY <2>1, <2>2, <2>4, <2>5, <2>6 DEF DescriptorInv, TableInv, OfTable
  <2> QED BY <2>3, <2>7 DEF DescriptorInv
<1>2. CASE Configure
  <2>1. /\ Untouched /\ UNCHANGED <<startVars, leaked>>
        /\ call' = [i \in DOMAIN interface_info_array' |-> Idle]
        /\ \/ UNCHANGED interface_info_array
           \/ Fresh(interface_info_array')
    BY <1>2, ConfigureStep DEF PhaseInv
  <2>2. /\ fds' = [fd \in Fds |-> Vacant] /\ leaked' = {}
        /\ Fds' = Fds /\ Free' = Fds /\ DOMAIN fds' = Fds
    BY <2>1 DEF Untouched, startVars, Free, Fds
  <2>3. Fresh(interface_info_array')
    BY <2>1 DEF Untouched, Fresh
  <2>4. \A i \in Entries' :
            /\ OfCall(i)' = Null /\ OfTable(i)' = Null
            /\ interface_info_array'[i].initialized_flag = -1
    BY <2>1, <2>3 DEF Fresh, OfCall, OfTable, Idle, Entries
  <2>5. FdTypeInv' /\ TableInv'
    BY <2>2, <2>4 DEF FdTypeInv, TableInv, OfTable
  <2>6. OwnInv'
    BY <2>2, <2>4, StartupAssumption DEF OwnInv, Fds
  <2> QED BY <2>5, <2>6 DEF DescriptorInv
<1>3. CASE Start
  <2>0. call' = call /\ leaked' = leaked
    BY <1>3 DEF Start, firmwareVars
  <2>1. CASE initializer_transfer
    <3>1. SameEntries(interface_info_array, interface_info_array')
      BY <1>0, <2>1, InitialiserStep
    <3>2. CASE \E S : Succeeds(S)
      BY <1>0, <2>0, <3>1, <3>2, SucceedsKeeps
    <3>3. CASE Crash
      BY <1>1, <2>0, <3>3, SameItself DEF Crash, startVars
    <3> QED BY <1>0, <2>1, <3>2, <3>3, InitialiserEffect DEF DescriptorInv
  <2>2. CASE InitialiseDone \/ CreateThread \/ JoinThreads
    <3>1. fds' = fds /\ interface_info_array' = interface_info_array
      BY <2>2 DEF InitialiseDone, CreateThread, JoinThreads, startVars
    <3> QED BY <1>1, <2>0, <3>1, SameItself
  <2> QED BY <1>3, <2>1, <2>2 DEF Start, StartNext
<1>4. CASE Work
  <2>1. SameDevices(interface_info_array, interface_info_array')
    BY <1>0, <1>4, FirmwareStep DEF Work
  <2>2. ASSUME NEW i \in threads, Steps(i) PROVE DescriptorInv'
    BY <1>0, <2>1, <2>2, EffectOfSteps, EffectKeeps
  <2>3. ASSUME NEW device \in Devices, Arrive(device) PROVE DescriptorInv'
    <3>1. fds' = Delivered(fds, device) /\ call' = call /\ leaked' = leaked
      BY <2>3 DEF Arrive
    <3>2. /\ DOMAIN fds = Fds
          /\ \A fd \in Fds : fds[fd] = Vacant \/
               /\ DescriptorFields \subseteq DOMAIN fds[fd]
               /\ fds[fd].kind # "none"
      BY DEF DescriptorInv, FdTypeInv, Free
    <3>3. /\ DOMAIN fds' = Fds
          /\ \A fd \in Fds : SameDescriptor(fds[fd], fds'[fd])
      BY <3>1, <3>2, KindOfDevice, SameDelivered
    <3>4. KeepsAll
      BY <3>1, <3>3 DEF KeepsAll
    <3>5. Entries # {}
      BY <2>3 DEF Devices, OfType
    <3>6. PICK i \in Entries : TRUE
      BY <3>5
    <3> QED BY <1>0, <2>1, <3>3, <3>4, <3>6, EffectKeeps DEF Effect
  <2> QED BY <1>4, <2>2, <2>3 DEF Work, FirmwareNext
<1>5. CASE Die \/ UNCHANGED vars
  BY <1>1, <1>5, DieStep, SameItself DEF vars, startVars, firmwareVars
<1> QED BY <1>2, <1>3, <1>4, <1>5 DEF Next

LEMMA DescriptorCorrect == Spec => []DescriptorInv
<1> QED BY DescriptorInit, DescriptorStep, PhaseCorrect, FilesCorrect, CallCorrect,
           PTL DEF Spec

LEMMA Disjoint3 ==
  ASSUME NEW A, NEW B, NEW C, IsFiniteSet(A), IsFiniteSet(B), IsFiniteSet(C),
         A \cap B = {}, A \cap C = {}, B \cap C = {}
  PROVE  Cardinality(A \cup B \cup C) = Cardinality(A) + Cardinality(B) + Cardinality(C)
<1>1. /\ IsFiniteSet(A \cup B)
      /\ Cardinality(A \cup B) = Cardinality(A) + Cardinality(B) - Cardinality(A \cap B)
  BY FS_Union
<1>2. Cardinality(A \cup B \cup C)
        = Cardinality(A \cup B) + Cardinality(C) - Cardinality((A \cup B) \cap C)
  BY <1>1, FS_Union
<1>3. (A \cup B) \cap C = {} /\ Cardinality({}) = 0
  BY FS_EmptySet
<1>4. Cardinality(A) \in Nat /\ Cardinality(B) \in Nat /\ Cardinality(C) \in Nat
      /\ Cardinality(A \cup B) \in Nat
  BY <1>1, FS_CardinalityType
<1>5. Cardinality(A \cap B) = 0
  BY FS_EmptySet
<1>6. Cardinality(A \cup B) = Cardinality(A) + Cardinality(B)
  BY <1>1, <1>4, <1>5
<1>7. Cardinality(A \cup B \cup C) = Cardinality(A \cup B) + Cardinality(C)
  <2>1. Cardinality((A \cup B) \cap C) = 0
    BY <1>3
  <2> QED BY <1>2, <1>4, <2>1
<1> QED BY <1>6, <1>7

LEMMA DescriptorsFollow ==
  ASSUME WellMade(interface_info_array), DOMAIN call = Entries, DescriptorInv
  PROVE  DescriptorsAccounted
<1> DEFINE open  == Fds \ Free
           Calls == {i \in DOMAIN call : call[i].fd # Null}
           ofCalls == {call[i].fd : i \in Calls}
           ofTable == {interface_info_array[i].fd : i \in Entries} \ {Null}
           FdOf == [i \in Calls |-> call[i].fd]
<1>1. \A fd \in open : fd # Null
  BY StartupAssumption DEF Fds
<1>2. open = ofCalls \cup ofTable \cup leaked
  <2>1. open \subseteq ofCalls \cup ofTable \cup leaked
    BY <1>1 DEF DescriptorInv, OwnInv, OfCall, OfTable
  <2>2. ofCalls \subseteq open /\ leaked \subseteq open
    BY DEF DescriptorInv, OwnInv, OfCall
  <2>3. ofTable \subseteq open
    BY DEF DescriptorInv, TableInv, InTable
  <2> QED BY <2>1, <2>2, <2>3
<1>3. ofCalls \cap ofTable = {} /\ ofCalls \cap leaked = {} /\ ofTable \cap leaked = {}
  BY DEF DescriptorInv, OwnInv, OfCall, OfTable
<1>4. IsFiniteSet(open)
  <2>1. IsFiniteSet(Fds)
    BY FS_Interval, StartupAssumption DEF Fds
  <2> QED BY <2>1, FS_Subset
<1>5. IsFiniteSet(ofCalls) /\ IsFiniteSet(ofTable) /\ IsFiniteSet(leaked)
  BY <1>2, <1>4, FS_Subset
<1>6. IsFiniteSet(Calls)
  <2>1. IsFiniteSet(Entries)
    <3>1. Entries = 1..Len(interface_info_array) /\ Len(interface_info_array) \in Nat
      BY DEF WellMade, Entries
    <3>2. IsFiniteSet(1..Len(interface_info_array))
      BY <3>1, FS_Interval
    <3> QED BY <3>1, <3>2
  <2> QED BY <2>1, FS_Subset
<1>7. FdOf \in Bijection(Calls, ofCalls)
  <2>1. FdOf \in [Calls -> ofCalls]
    OBVIOUS
  <2>2. \A i, j \in Calls : FdOf[i] = FdOf[j] => i = j
    BY DEF DescriptorInv, OwnInv, OfCall
  <2>3. \A fd \in ofCalls : \E i \in Calls : FdOf[i] = fd
    OBVIOUS
  <2> QED BY <2>1, <2>2, <2>3 DEF Bijection, Injection, Surjection, IsInjective
<1>8. Cardinality(ofCalls) = Cardinality(Calls)
  BY <1>5, <1>6, <1>7, FS_Bijection DEF ExistsBijection
<1>9. Cardinality(open) = Cardinality(ofCalls) + Cardinality(ofTable)
                              + Cardinality(leaked)
  BY <1>2, <1>3, <1>5, Disjoint3
<1> QED BY <1>2, <1>8, <1>9 DEF DescriptorsAccounted

(* Every open descriptor has exactly one owner, whatever the documents and  *)
(* however many descriptors and calls there are: a call in progress, the    *)
(* table, or a write to a CAN channel that failed.  So no driver closes     *)
(* the descriptor of another thread, and nothing but that write loses one.  *)
THEOREM DescriptorsCounted == Spec => []DescriptorsAccounted
<1>1. PhaseInv /\ DescriptorInv => DescriptorsAccounted
  BY DescriptorsFollow DEF PhaseInv
<1> QED BY <1>1, PhaseCorrect, DescriptorCorrect, PTL

-----------------------------------------------------------------------------
(* What the initialisers leave to the threads.                              *)
LEMMA FlagsKept ==
  ASSUME WellMade(interface_info_array), NEW i \in Entries, NEW n,
         SameEntries(interface_info_array, interface_info_array')
  PROVE  /\ FlaggedBefore(i, n)' <=> FlaggedBefore(i, n)
         /\ \A initializer, type :
                StartedBy(i, initializer, type)' <=> StartedBy(i, initializer, type)
<1>1. SameCard(i)' = SameCard(i) /\ SameCard(i) \subseteq Entries
  BY ReadingsKept DEF SameCard, OfType
<1>2. \A j \in Entries :
          /\ interface_info_array'[j].initializer_name = interface_info_array[j].initializer_name
          /\ interface_info_array'[j].interface_type = interface_info_array[j].interface_type
  BY FixedKept
<1> QED BY <1>1, <1>2 DEF FlaggedBefore, StartedBy

StartedFor(i) ==
    /\ StartedBy(i, "eth_initializer_xy", "eth") /\ ~FlaggedBefore(i, i) =>
           OfTable(Index(i)) # Null
    /\ StartedBy(i, "rs485_initializer_normal", "rs485") =>
           OfTable(Index(i)) # Null

LEMMA StartedForKept ==
  ASSUME WellMade(interface_info_array), NEW i \in Entries, StartedFor(i),
         SameEntries(interface_info_array, interface_info_array'),
         OfTable(Index(i)) # Null => OfTable(Index(i))' # Null
  PROVE  StartedFor(i)'
<1>1. Index(i)' = Index(i)
  BY EntriesKept
<1>2. OfTable(Index(i))' = interface_info_array'[Index(i)].fd
  BY <1>1 DEF OfTable
<1> QED BY <1>1, <1>2, FlagsKept DEF StartedFor, OfTable

LEMMA FlagInit == Init => FlagInv
  BY DEF Init, FlagInv

LEMMA FlagStep ==
  PhaseInv /\ FilesInv /\ DescriptorInv /\ FlagInv /\ [Next]_vars => FlagInv'
<1> SUFFICES ASSUME PhaseInv, FilesInv, DescriptorInv, FlagInv, [Next]_vars
             PROVE  FlagInv'
  OBVIOUS
<1> USE DEF StartedFor
<1>0. /\ WellMade(interface_info_array) /\ DOMAIN call = Entries
      /\ threads \subseteq Entries
      /\ Entries = 1..Len(interface_info_array) /\ Len(interface_info_array) \in Nat
      /\ initialized_flags \in Seq(BOOLEAN)
      /\ phase \in {"initialise", "create", "run"} =>
             DOMAIN initialized_flags \subseteq Entries
  <2>1. initialized_flags \in Seq(BOOLEAN) /\ Len(interface_info_array) \in Nat
    BY DEF PhaseInv, WellMade
  <2>2. DOMAIN initialized_flags = 1..Len(initialized_flags) /\ Len(initialized_flags) \in Nat
    BY <2>1
  <2>3. Entries = 1..Len(interface_info_array)
    BY DEF PhaseInv, WellMade, Entries
  <2>4. phase \in {"initialise", "create", "run"} =>
             Len(initialized_flags) <= Len(interface_info_array)
    BY <2>1 DEF PhaseInv
  <2> QED BY <2>1, <2>2, <2>3, <2>4 DEF PhaseInv
(* A step that leaves the descriptors of the table alone, after the         *)
(* initialisers are done.                                                   *)
<1>1. ASSUME SameDevices(interface_info_array, interface_info_array'),
             UNCHANGED initialized_flags, phase \in {"initialise", "create", "run"},
             phase' # "initialise"
      PROVE  FlagInv'
  <2>1. SameEntries(interface_info_array, interface_info_array')
    BY <1>1 DEF SameDevices
  <2>2. ASSUME NEW i \in DOMAIN initialized_flags, initialized_flags[i]
        PROVE  StartedFor(i)'
    <3>1. i \in Entries /\ StartedFor(i) /\ Index(i) \in Entries
      BY <1>0, <1>1, <2>2, IndexIn DEF FlagInv
    <3>2. Index(i)' = Index(i)
      BY <1>0, <2>1, <3>1, EntriesKept
    <3>3. interface_info_array'[Index(i)].fd = interface_info_array[Index(i)].fd
      BY <1>1, <3>1 DEF SameDevices, Entries
    <3>4. OfTable(Index(i))' = OfTable(Index(i))
      BY <3>2, <3>3 DEF OfTable
    <3> QED BY <1>0, <2>1, <3>1, <3>4, StartedForKept
  <2> QED BY <1>1, <2>2 DEF FlagInv
<1>2. CASE Configure
  <2>1. CASE phase' \in {"shell", "crashed"}
    BY <2>1 DEF FlagInv
  <2>2. CASE phase' = "initialise" /\ Fresh(interface_info_array')
    <3>1. \A i \in Entries' : interface_info_array'[i].initialized_flag = -1
      BY <2>2 DEF Fresh, Entries
    <3>2. DOMAIN initialized_flags' = {}
      BY <1>2, ConfigureStep DEF PhaseInv, Untouched, startVars
    <3> QED BY <3>1, <3>2 DEF FlagInv
  <2> QED BY <1>2, <2>1, <2>2, ConfigureStep
<1>3. CASE Start
  <2>1. CASE initializer_transfer
    <3>1. /\ phase = "initialise" /\ next \in Entries
          /\ SameEntries(interface_info_array, interface_info_array')
      BY <1>0, <2>1, InitialiserStep
    <3>2. CASE Crash
      BY <3>2 DEF Crash, FlagInv
    <3>3. ASSUME NEW S, Succeeds(S) PROVE FlagInv'
      <4>1. PICK success \in BOOLEAN :
                /\ Initialised(success)
                /\ \/ /\ Marks(S)
                      /\ (success /\ interface_info_array[next].initializer_name \in
                                  {"eth_initializer_xy", "rs485_initializer_normal"}) =>
                             interface_info_array[Index(next)].initialized_flag = 1
                   \/ Installs(S) /\ Index(next) \in S
        BY <3>3 DEF Succeeds
      <4>2. /\ next' = next + 1 /\ phase' = phase
            /\ initialized_flags' = Append(initialized_flags, success)
        BY <4>1 DEF Initialised
      <4>3. next = Len(initialized_flags) + 1
        BY <3>1 DEF PhaseInv
      <4>4. /\ S \subseteq Entries
            /\ \A j \in Entries : interface_info_array'[j].initialized_flag =
                  IF j \in S THEN 1 ELSE interface_info_array[j].initialized_flag
            /\ \A j \in Entries : OfTable(j) # Null => OfTable(j)' # Null
            /\ \/ /\ \A j \in Entries : OfTable(j)' = OfTable(j)
                  /\ \A j \in S : \/ interface_info_array[j].interface_type = "can"
                                  \/ NormalNext(j)
                  /\ (success /\ interface_info_array[next].initializer_name \in
                                  {"eth_initializer_xy", "rs485_initializer_normal"}) =>
                             interface_info_array[Index(next)].initialized_flag = 1
               \/ Index(next) \in S /\ \A j \in S : OfTable(j)' # Null
        <5>1. S \subseteq Entries
          BY <3>3 DEF Succeeds
        <5>2. CASE Marks(S)
          <6>1. \A j \in Entries : OfTable(j)' = OfTable(j)
            BY <5>2 DEF Marks, OfTable
          <6>2. CASE Installs(S) /\ Index(next) \in S
            <7>1. \E fd \in Free : \A j \in Entries :
                     interface_info_array'[j].fd =
                         IF j \in S THEN fd ELSE interface_info_array[j].fd
              BY <6>2 DEF Installs
            <7> QED BY <5>1, <5>2, <6>1, <6>2, <7>1, StartupAssumption DEF Marks, OfTable, Free, Fds
          <6> QED BY <4>1, <5>1, <5>2, <6>1, <6>2 DEF Marks
        <5>3. CASE Installs(S) /\ Index(next) \in S
          <6>1. PICK fd \in Free : \A j \in Entries :
                     /\ interface_info_array'[j].fd =
                            IF j \in S THEN fd ELSE interface_info_array[j].fd
                     /\ interface_info_array'[j].initialized_flag =
                            IF j \in S THEN 1 ELSE interface_info_array[j].initialized_flag
            BY <5>3 DEF Installs
          <6>2. fd # Null
            BY StartupAssumption DEF Free, Fds
          <6> QED BY <5>1, <5>3, <6>1, <6>2 DEF OfTable
        <5> QED BY <4>1, <5>2, <5>3
      <4>5. Entries' = Entries /\ \A j \in Entries : Index(j)' = Index(j)
        BY <1>0, <3>1, EntriesKept
      <4>6. ASSUME NEW i \in Entries,
                   interface_info_array'[i].initialized_flag = 1, OfTable(i)' = Null
            PROVE  /\ interface_info_array'[i].interface_type # "rs485"
                   /\ interface_info_array'[i].interface_type = "eth" =>
                          FlaggedBefore(i, next)'
        <5>1. interface_info_array'[i].interface_type
                  = interface_info_array[i].interface_type
          BY <3>1, FixedKept
        <5>2. CASE i \in S
          <6>1. \/ interface_info_array[i].interface_type = "can"
                \/ NormalNext(i)
            BY <4>4, <4>6, <5>2
          <6>2. NormalNext(i) => /\ interface_info_array[i].interface_type = "eth"
                                 /\ FlaggedBefore(i, next + 1)
            <7>1. NormalNext(i) => /\ interface_info_array[next].interface_type = "eth"
                                   /\ interface_info_array[i].interface_type = "eth"
              BY DEF NormalNext, SameCard, OfType
            <7>2. next < next + 1
              BY <1>0, <3>1
            <7> QED BY <7>1, <7>2 DEF NormalNext, FlaggedBefore
          <6> QED BY <1>0, <3>1, <4>2, <5>1, <6>1, <6>2, FlagsKept
        <5>3. CASE i \notin S
          <6>1. interface_info_array[i].initialized_flag = 1 /\ OfTable(i) = Null
            BY <4>4, <4>6, <5>3
          <6>2. /\ interface_info_array[i].interface_type # "rs485"
                /\ interface_info_array[i].interface_type = "eth" =>
                       FlaggedBefore(i, next)
            BY <3>1, <6>1 DEF FlagInv
          <6>3. FlaggedBefore(i, next) => FlaggedBefore(i, next + 1)
            <7>1. SameCard(i) \subseteq Nat /\ next \in Nat
              BY <1>0, <3>1 DEF SameCard, OfType
            <7>2. \A j \in SameCard(i) : j < next => j < next + 1
              BY <7>1
            <7> QED BY <7>2 DEF FlaggedBefore
          <6> QED BY <1>0, <3>1, <4>2, <5>1, <6>2, <6>3, FlagsKept
        <5> QED BY <5>2, <5>3
      <4>0. PICK n \in Entries : n = next
        BY <3>1
      <4>7. ASSUME success PROVE StartedFor(n)'
        <5>1. /\ Index(n) \in Entries
              /\ interface_info_array[Index(n)].interface_type
                     = interface_info_array[n].interface_type
              /\ interface_info_array[Index(n)].eth_info
                     = interface_info_array[n].eth_info
          <6>1. "interface_type" \in OfTheName /\ "eth_info" \in OfTheName
            BY DEF OfTheName, Fixed
          <6>2. \A f \in OfTheName : interface_info_array[Index(n)][f]
                                         = interface_info_array[n][f]
            BY <1>0, SettingsOfIndex
          <6> QED BY <1>0, <6>1, <6>2, IndexIn
        <5>2. FlaggedBefore(Index(n), n) <=> FlaggedBefore(n, n)
          <6>1. SameCard(Index(n)) = SameCard(n)
            BY <5>1 DEF SameCard, get_ip_name_by_index
          <6> QED BY <6>1 DEF FlaggedBefore
        <5>3. OfTable(Index(n))' = interface_info_array'[Index(n)].fd
          BY <4>5 DEF OfTable
        <5>4. ASSUME OfTable(Index(n))' = Null,
                     interface_info_array[n].initializer_name \in
                                  {"eth_initializer_xy", "rs485_initializer_normal"}
              PROVE  /\ interface_info_array[n].interface_type # "rs485"
                     /\ interface_info_array[n].interface_type = "eth" =>
                            FlaggedBefore(n, n)
          <6>1. /\ interface_info_array[Index(n)].initialized_flag = 1
                /\ OfTable(Index(n)) = Null
            BY <4>0, <4>4, <4>7, <5>1, <5>3, <5>4 DEF OfTable
          <6> QED BY <3>1, <4>0, <5>1, <5>2, <6>1 DEF FlagInv
        <5>5. \A initializer, type :
                StartedBy(n, initializer, type)' <=>
                    /\ interface_info_array[n].initializer_name = initializer
                    /\ interface_info_array[n].interface_type = type
          <6>1. /\ Entries' = Entries
                /\ interface_info_array'[n].initializer_name
                       = interface_info_array[n].initializer_name
                /\ interface_info_array'[n].interface_type
                       = interface_info_array[n].interface_type
            BY <3>1, <4>5, FixedKept
          <6> QED BY <6>1 DEF StartedBy
        <5>6. FlaggedBefore(n, n)' <=> FlaggedBefore(n, n)
          BY <1>0, <3>1, FlagsKept
        <5>7. OfTable(Index(n))' # Null \/ ~StartedBy(n, "eth_initializer_xy", "eth")'
                  \/ FlaggedBefore(n, n)'
          BY <5>4, <5>5, <5>6
        <5>8. OfTable(Index(n))' # Null \/ ~StartedBy(n, "rs485_initializer_normal", "rs485")'
          BY <5>4, <5>5
        <5> QED BY <5>7, <5>8
      <4>8. ASSUME NEW i \in DOMAIN initialized_flags', initialized_flags'[i]
            PROVE  StartedFor(i)'
        <5>1. i \in 1..Len(initialized_flags) + 1
          BY <1>0, <4>2, <4>8
        <5>2. CASE i = n
          <6>1. initialized_flags'[i] = success
            BY <1>0, <4>0, <4>2, <4>3, <5>2
          <6> QED BY <4>7, <4>8, <5>2, <6>1
        <5>3. CASE i # n
          <6>1. i \in 1..Len(initialized_flags)
            BY <1>0, <4>0, <4>3, <5>1, <5>3
          <6>2. i \in DOMAIN initialized_flags /\ initialized_flags[i]
            BY <1>0, <4>2, <4>8, <6>1
          <6>3. i \in Entries /\ StartedFor(i) /\ Index(i) \in Entries
            BY <1>0, <3>1, <6>2, IndexIn DEF FlagInv
          <6>4. OfTable(Index(i)) # Null => OfTable(Index(i))' # Null
            BY <4>4, <4>5, <6>3 DEF OfTable
          <6> QED BY <1>0, <3>1, <6>3, <6>4, StartedForKept
        <5> QED BY <5>2, <5>3
      <4> QED BY <3>1, <4>2, <4>5, <4>6, <4>8 DEF FlagInv
    <3> QED BY <1>0, <2>1, <3>2, <3>3, InitialiserEffect DEF DescriptorInv
  <2>2. CASE InitialiseDone \/ CreateThread \/ JoinThreads
    <3>1. /\ UNCHANGED <<interface_info_array, initialized_flags>>
          /\ phase \in {"initialise", "create"} /\ phase' # "initialise"
      BY <2>2 DEF InitialiseDone, CreateThread, JoinThreads, startVars
    <3> QED BY <1>1, <3>1, SameItself
  <2> QED BY <1>3, <2>1, <2>2 DEF Start, StartNext
<1>4. CASE Work
  <2>1. /\ SameDevices(interface_info_array, interface_info_array')
        /\ UNCHANGED <<phase, initialized_flags>> /\ phase \in {"create", "run"}
    BY <1>0, <1>4, FirmwareStep DEF Work, Running
  <2> QED BY <1>1, <2>1
<1>5. CASE UNCHANGED vars
  <2>1. /\ SameEntries(interface_info_array, interface_info_array')
        /\ UNCHANGED <<interface_info_array, initialized_flags, phase, next>>
    BY <1>5 DEF vars, SameEntries
  <2>2. Entries' = Entries /\ \A i \in Entries : OfTable(i)' = OfTable(i)
    BY <2>1 DEF Entries, OfTable
  <2>3. \A i \in Entries : FlaggedBefore(i, next)' <=> FlaggedBefore(i, next)
    BY <1>0, <2>1, FlagsKept
  <2>4. ASSUME NEW i \in Entries, StartedFor(i) PROVE StartedFor(i)'
    <3>1. Index(i)' = Index(i)
      BY <1>0, <2>1, EntriesKept
    <3>2. OfTable(Index(i))' = OfTable(Index(i))
      BY <2>1, <3>1 DEF OfTable
    <3> QED BY <1>0, <2>1, <2>4, <3>2, StartedForKept
  <2> QED BY <1>0, <2>1, <2>2, <2>3, <2>4 DEF FlagInv
<1>6. CASE Die
  BY <1>1, <1>6, DieStep, SameItself DEF startVars
<1> QED BY <1>2, <1>3, <1>4, <1>5, <1>6 DEF Next

LEMMA FlagCorrect == Spec => []FlagInv
<1> QED BY FlagInit, FlagStep, PhaseCorrect, FilesCorrect, DescriptorCorrect,
           PTL DEF Spec

LEMMA StartedFollow ==
  ASSUME PhaseInv, DescriptorInv, FlagInv PROVE StartedHasDevice
<1> SUFFICES ASSUME phase \in {"create", "run"}, NEW i \in threads
             PROVE
               LET fd == interface_info_array[Index(i)].fd
                   Opened(kind, device) == /\ fd \in Fds \ Free
                                           /\ fds[fd].kind = kind
                                           /\ fds[fd].device = device
               IN  /\ (StartedBy(i, "eth_initializer_xy", "eth") /\ ~FlaggedBefore(i, i)) =>
                          Opened("packet", Card(Index(i)))
                   /\ StartedBy(i, "rs485_initializer_normal", "rs485") =>
                          Opened("port", Port(Index(i)))
  BY DEF StartedHasDevice, StartedBy, FlaggedBefore
<1>1. i \in Entries /\ WellMade(interface_info_array) /\ Index(i) \in Entries
      /\ interface_info_array[Index(i)].interface_type
             = interface_info_array[i].interface_type
  <2>1. i \in Entries /\ WellMade(interface_info_array)
    BY DEF PhaseInv
  <2>2. "interface_type" \in OfTheName
    BY DEF OfTheName, Fixed
  <2> QED BY <2>1, <2>2, IndexIn, SettingsOfIndex
<1>2. i \in DOMAIN initialized_flags /\ initialized_flags[i]
  <2>1. /\ Len(initialized_flags) = Len(interface_info_array)
        /\ initialized_flags \in Seq(BOOLEAN)
    BY DEF PhaseInv
  <2>2. DOMAIN initialized_flags = Entries
    BY <1>1, <2>1 DEF WellMade, Entries
  <2>3. initialized_flags[i]
    BY DEF PhaseInv
  <2> QED BY <1>1, <2>2, <2>3
<1>3. /\ (StartedBy(i, "eth_initializer_xy", "eth") /\ ~FlaggedBefore(i, i)) =>
            OfTable(Index(i)) # Null
      /\ StartedBy(i, "rs485_initializer_normal", "rs485") => OfTable(Index(i)) # Null
  BY <1>2 DEF FlagInv
<1>4. OfTable(Index(i)) # Null => InTable(Index(i))
  BY <1>1 DEF DescriptorInv, TableInv, OfTable
<1> QED BY <1>1, <1>3, <1>4 DEF StartedBy, InTable, OfTable

(* Every thread that runs for an xy entry or an RS485 entry has the open    *)
(* descriptor of its card or its port, whatever the order of the entries    *)
(* and whichever opening failed, unless eth_initializer_normal flagged the  *)
(* card before.                                                             *)
THEOREM StartedEquipped == Spec => []StartedHasDevice
<1>1. PhaseInv /\ DescriptorInv /\ FlagInv => StartedHasDevice
  BY StartedFollow
<1> QED BY <1>1, PhaseCorrect, DescriptorCorrect, FlagCorrect, PTL

-----------------------------------------------------------------------------
(* The addresses of packets.                                                *)
LEMMA AddressesKept ==
  ASSUME SameEntries(interface_info_array, interface_info_array'),
         WellMade(interface_info_array), NEW i \in Entries
  PROVE  /\ Index(i)' = Index(i)
         /\ interface_info_array'[i].base_send_func = interface_info_array[i].base_send_func
         /\ get_mac_addr_by_index(i)' = get_mac_addr_by_index(i)
         /\ get_linked_mac_addr_by_index(i)' = get_linked_mac_addr_by_index(i)
         /\ get_mac_addr_by_index(Index(i))' = get_mac_addr_by_index(Index(i))
         /\ get_linked_mac_addr_by_index(Index(i))' = get_linked_mac_addr_by_index(Index(i))
         /\ PacketSender(i)' = PacketSender(i)
<1>1. Index(i)' = Index(i) /\ Index(i) \in Entries
  BY EntriesKept, IndexIn
<1>2. \A j \in Entries :
         /\ interface_info_array'[j].base_send_func = interface_info_array[j].base_send_func
         /\ interface_info_array'[j].eth_info = interface_info_array[j].eth_info
         /\ interface_info_array'[j].linked_eth_info = interface_info_array[j].linked_eth_info
  BY FixedKept
<1>3. PacketSender(i)' = PacketSender(i)
  BY ReadingsKept DEF PacketSender
<1> QED BY <1>1, <1>2, <1>3 DEF get_mac_addr_by_index, get_linked_mac_addr_by_index

LEMMA OthersMixed ==
  ASSUME DOMAIN call = Entries, CallInv, NEW i \in threads, threads \subseteq Entries,
         Steps(i), NEW j \in Entries, j # i
  PROVE  call'[j].mixed = call[j].mixed \/ call'[j].mixed = TRUE
<1>1. CASE send_message(i) \/ receive_message(i)
  <2>1. call' = call \/ \E where : Begin(i, where)
    BY <1>1 DEF send_message, receive_message, Starts,
         update_status_in_current_round
  <2>2. "mixed" \in DOMAIN call[j]
    BY DEF CallInv, CallOf, CallFields
  <2>3. ASSUME NEW where, Begin(i, where)
        PROVE  call'[j] = call[j] \/ call'[j] = [call[j] EXCEPT !.mixed = TRUE]
    BY <2>3 DEF Begin
  <2>4. call'[j] = call[j] \/ call'[j] = [call[j] EXCEPT !.mixed = TRUE]
    BY <2>1, <2>3
  <2> QED BY <2>2, <2>4
<1>2. CASE ~(send_message(i) \/ receive_message(i))
  BY <1>2, OthersCalls
<1> QED BY <1>1, <1>2

(* What a step of a thread does to its packet and to the shared arrays.     *)
PacketStep(i) ==
    LET c == call[i]
        d == call'[i]
        src == get_mac_addr_by_index(Index(i))
        dst == get_linked_mac_addr_by_index(Index(i))
    IN  \/ /\ UNCHANGED <<srcmac, dstmac, packets>>
           /\ \/ d = c
              \/ d.at \notin InPacket \cup {"socket", "send"} /\ d.mixed \in BOOLEAN
              \/ ~PacketSender(i) /\ d.at \notin InPacket /\ d.mixed \in BOOLEAN
              \/ /\ c.at = "socket" /\ d.at = "send"
                 /\ d.src = c.src /\ d.dst = c.dst /\ d.mixed = c.mixed
              \/ /\ c.at = "idle" /\ d.at = "source"
                 /\ d.mixed = (MakingPackets # {})
                 /\ \A j \in MakingPackets : call'[j].mixed = TRUE
              \/ /\ c.at = "copy destination" /\ d.at = "copy source"
                 /\ d.dst = dstmac /\ d.mixed = c.mixed
              \/ /\ c.at = "copy source" /\ d.at \in {"socket", "send"}
                 /\ d.src = srcmac /\ d.dst = c.dst /\ d.mixed = c.mixed
        \/ /\ c.at = "source" /\ d.at = "destination" /\ d.mixed = c.mixed
           /\ src \in WellFormed => srcmac' = src
           /\ UNCHANGED <<dstmac, packets>>
        \/ /\ c.at = "destination" /\ d.at = "copy destination" /\ d.mixed = c.mixed
           /\ dst \in WellFormed => dstmac' = dst
           /\ UNCHANGED <<srcmac, packets>>
        \/ /\ c.at = "send" /\ d = Idle
           /\ UNCHANGED <<srcmac, dstmac>>
           /\ packets' = packets \cup {[entry |-> Index(i), src |-> c.src,
                                        dst |-> c.dst, mixed |-> c.mixed]}

LEMMA PacketSteps ==
  ASSUME PhaseInv, CallInv, AddrInv, NEW i \in threads, Steps(i)
  PROVE  PacketStep(i)
<1> DEFINE c == call[i]
           d == call'[i]
<1>0. /\ i \in Entries /\ i \in DOMAIN call /\ CallOf(i, c) /\ c.mixed \in BOOLEAN
      /\ CallFields \subseteq DOMAIN c
  BY DEF PhaseInv, CallInv, AddrInv, CallOf
<1>1. CASE send_message(i) \/ receive_message(i)
  <2>1. /\ UNCHANGED <<srcmac, dstmac, packets>> /\ c.at = "idle"
        /\ \/ call' = call
           \/ Begin(i, "source")
           \/ Begin(i, "receive")
           \/ Begin(i, "socket") /\ ~PacketSender(i)
    <3>1. CASE send_message(i)
      BY <3>1 DEF send_message, Starts, At, update_status_in_current_round, PacketSender
    <3>2. CASE receive_message(i)
      BY <3>2 DEF receive_message, Starts, At, update_status_in_current_round,
           PacketSender, Sends, Receives
    <3> QED BY <1>1, <3>1, <3>2
  <2>2. CASE call' = call
    BY <2>1, <2>2 DEF PacketStep
  <2>3. CASE Begin(i, "source")
    <3>1. d.at = "source" /\ d.mixed = (MakingPackets # {})
      BY <1>0, <2>3 DEF Begin, Idle
    <3>2. ASSUME NEW j \in MakingPackets PROVE call'[j].mixed = TRUE
      <4>1. j # i /\ j \in DOMAIN call /\ "mixed" \in DOMAIN call[j]
        BY <2>1 DEF MakingPackets, InPacket, PhaseInv, CallInv, CallOf, CallFields
      <4>2. call'[j] = [call[j] EXCEPT !.mixed = TRUE]
        BY <2>3, <4>1 DEF Begin
      <4> QED BY <4>1, <4>2
    <3> QED BY <2>1, <3>1, <3>2 DEF PacketStep
  <2>4. CASE Begin(i, "receive")
    <3>1. d.at = "receive" /\ d.mixed = FALSE
      BY <1>0, <2>4 DEF Begin, Idle
    <3> QED BY <2>1, <3>1 DEF PacketStep, InPacket
  <2>5. CASE Begin(i, "socket") /\ ~PacketSender(i)
    <3>1. d.at = "socket" /\ d.mixed = FALSE
      BY <1>0, <2>5 DEF Begin, Idle
    <3> QED BY <2>1, <2>5, <3>1 DEF PacketStep, InPacket
  <2> QED BY <2>1, <2>2, <2>3, <2>4, <2>5
<1>2. ASSUME Return(i), UNCHANGED <<srcmac, dstmac, packets>> PROVE PacketStep(i)
  <2>1. d.at = "idle" /\ d.mixed = FALSE
    BY <1>0, <1>2 DEF Return, Idle
  <2> QED BY <1>2, <2>1 DEF PacketStep, InPacket
<1>3. CASE Source(i)
  <2>1. /\ c.at = "source" /\ d.at = "destination" /\ d.mixed = c.mixed
        /\ UNCHANGED <<dstmac, packets>>
    BY <1>0, <1>3 DEF Source, At, Goto, CallFields
  <2>2. get_mac_addr_by_index(Index(i)) \in WellFormed =>
            srcmac' = get_mac_addr_by_index(Index(i))
    BY <1>3 DEF Source, stringToMacAddress
  <2> QED BY <2>1, <2>2 DEF PacketStep
<1>4. CASE Destination(i)
  <2>1. /\ c.at = "destination" /\ d.at = "copy destination" /\ d.mixed = c.mixed
        /\ UNCHANGED <<srcmac, packets>>
    BY <1>0, <1>4 DEF Destination, At, Goto, CallFields
  <2>2. get_linked_mac_addr_by_index(Index(i)) \in WellFormed =>
            dstmac' = get_linked_mac_addr_by_index(Index(i))
    BY <1>4 DEF Destination, stringToMacAddress
  <2> QED BY <2>1, <2>2 DEF PacketStep
<1>5. CASE CopyDestination(i)
  <2>1. /\ c.at = "copy destination" /\ d.at = "copy source"
        /\ d.dst = dstmac /\ d.mixed = c.mixed
        /\ UNCHANGED <<srcmac, dstmac, packets>>
    BY <1>0, <1>5 DEF CopyDestination, At, CallFields
  <2> QED BY <2>1 DEF PacketStep
<1>6. CASE CopySource(i)
  <2>1. /\ c.at = "copy source" /\ d.at \in {"socket", "send"}
        /\ d.src = srcmac /\ d.dst = c.dst /\ d.mixed = c.mixed
        /\ UNCHANGED <<srcmac, dstmac, packets>>
    BY <1>0, <1>6 DEF CopySource, At, CallFields
  <2> QED BY <2>1 DEF PacketStep
<1>7. CASE socket(i)
  <2>1. c.at = "socket" /\ UNCHANGED <<srcmac, dstmac, packets>>
    BY <1>7 DEF socket, At
  <2>2. CASE Return(i)
    BY <1>2, <2>1, <2>2
  <2>3. CASE call' = [call EXCEPT ![i].fd = NewFd,
                              ![i].at = IF Binds(i) THEN "bind" ELSE "send"]
    <3>1. /\ d.at \in {"bind", "send"}
          /\ d.src = c.src /\ d.dst = c.dst /\ d.mixed = c.mixed
      BY <1>0, <2>3 DEF CallFields
    <3> QED BY <1>0, <2>1, <3>1 DEF PacketStep, InPacket
  <2> QED BY <1>7, <2>2, <2>3 DEF socket
<1>8. CASE Fail(i) \/ ReceiveNothing(i) \/ ClearArray(i)
  BY <1>2, <1>8 DEF Fail, ReceiveNothing, ClearArray
<1>9. CASE bind(i)
  <2>1. /\ c.at = "bind" /\ UNCHANGED <<srcmac, dstmac, packets>>
        /\ d.at \in {"send", "receive"} /\ d.mixed = c.mixed
    BY <1>0, <1>9 DEF bind, At, Goto, CallFields
  <2>2. ~PacketSender(i) \/ d.at = "receive"
    BY <1>0, <2>1 DEF CallOf, PlaceOf, InPacket, Binds, Driver, PacketSender, SocketDriver,
         Sends, Receives
  <2> QED BY <1>0, <2>1, <2>2 DEF PacketStep, InPacket
<1>10. CASE Send(i)
  <2>1. c.at = "send" /\ d = Idle /\ Return(i) /\ UNCHANGED <<srcmac, dstmac>>
    BY <1>0, <1>10 DEF Send, At, Return
  <2>2. \/ packets' = packets
        \/ packets' = packets \cup {[entry |-> Index(i), src |-> c.src,
                                     dst |-> c.dst, mixed |-> c.mixed]}
    <3>1. CASE Driver(i) = "send_packet_can_gpu"
      BY <1>10, <3>1 DEF Send, send_packet_can_gpu
    <3>2. CASE Driver(i) = "send_packet_xy"
      BY <1>10, <3>2 DEF Send, send_packet_xy
    <3>3. CASE Driver(i) \notin {"send_packet_can_gpu", "send_packet_xy"}
      BY <1>10, <3>3 DEF Send, SendByAddress
    <3> QED BY <3>1, <3>2, <3>3
  <2>3. CASE packets' = packets
    BY <1>2, <2>1, <2>3
  <2> QED BY <2>1, <2>2, <2>3 DEF PacketStep
<1>11. CASE Receive(i)
  <2>1. UNCHANGED <<srcmac, dstmac, packets>> /\ c.at = "receive"
    BY <1>11 DEF Receive, At
  <2>2. CASE Return(i)
    BY <1>2, <2>1, <2>2
  <2>3. CASE call' = [call EXCEPT ![i].fd = Null, ![i].at = "copy"]
    <3>1. d.at = "copy" /\ d.mixed = c.mixed
      BY <1>0, <2>3 DEF CallFields
    <3> QED BY <1>0, <2>1, <3>1 DEF PacketStep, InPacket
  <2> QED BY <1>11, <2>2, <2>3 DEF Receive
<1>12. CASE CopyArray(i)
  <2>1. /\ UNCHANGED <<srcmac, dstmac, packets>>
        /\ d.at = "clear" /\ d.mixed = c.mixed
    BY <1>0, <1>12 DEF CopyArray, CallFields
  <2> QED BY <1>0, <2>1 DEF PacketStep, InPacket
<1> QED BY <1>1, <1>3, <1>4, <1>5, <1>6, <1>7, <1>8, <1>9, <1>10, <1>11, <1>12 DEF Steps

LEMMA AddressesOfOther ==
  ASSUME PhaseInv, CallInv, AddrInv, NEW i \in threads, Steps(i),
         NEW j \in Entries, j # i,
         SameEntries(interface_info_array, interface_info_array')
  PROVE  /\ call'[j].mixed \in BOOLEAN
         /\ call[j].mixed => call'[j].mixed
         /\ Addressed(j, call[j])'
<1> DEFINE c == call[j]
           d == call'[j]
<1>0. /\ DOMAIN call = Entries /\ threads \subseteq Entries /\ i \in Entries
      /\ WellMade(interface_info_array)
  BY DEF PhaseInv
<1>1. /\ d.at = c.at /\ d.src = c.src /\ d.dst = c.dst
      /\ d.mixed = c.mixed \/ d.mixed = TRUE
      /\ c.mixed \in BOOLEAN /\ Addressed(j, c)
  BY <1>0, OthersCalls, OthersMixed DEF AddrInv
<1>2. PacketStep(i)
  BY PacketSteps
<1>3. d.at \in InPacket => d.mixed \/ UNCHANGED <<srcmac, dstmac>>
  <2>1. call[i].at \in {"source", "destination"} \/ UNCHANGED <<srcmac, dstmac>>
    BY <1>2 DEF PacketStep
  <2>2. call[i].at \in {"source", "destination"} => MakesPacket(i)
    BY DEF MakesPacket, InPacket
  <2>3. (d.at \in InPacket /\ MakesPacket(i)) => c.mixed
    BY <1>0, <1>1 DEF AddrInv, MakesPacket
  <2> QED BY <1>1, <2>1, <2>2, <2>3
<1>4. Addressed(j, d) \/ ~(d.at \in {"socket", "send"})
  BY <1>1 DEF Addressed
<1>5. Addressed(j, call[j])'
  <2>1. /\ get_mac_addr_by_index(Index(j))' = get_mac_addr_by_index(Index(j))
        /\ get_linked_mac_addr_by_index(Index(j))' = get_linked_mac_addr_by_index(Index(j))
        /\ PacketSender(j)' = PacketSender(j)
    BY <1>0, AddressesKept
  <2> QED BY <1>1, <1>3, <2>1 DEF Addressed, InPacket
<1> QED BY <1>1, <1>5

LEMMA AddressesOfOwn ==
  ASSUME PhaseInv, CallInv, AddrInv, NEW i \in threads, Steps(i),
         SameEntries(interface_info_array, interface_info_array')
  PROVE  /\ call'[i].mixed \in BOOLEAN
         /\ Addressed(i, call[i])'
<1> DEFINE c == call[i]
           d == call'[i]
<1>0. /\ i \in Entries /\ WellMade(interface_info_array)
      /\ c.mixed \in BOOLEAN /\ Addressed(i, c)
  BY DEF PhaseInv, AddrInv
<1>1. PacketStep(i)
  BY PacketSteps
<1>a. Idle.at = "idle" /\ Idle.mixed = FALSE
  BY DEF Idle
<1>b. (MakingPackets # {}) \in BOOLEAN
  OBVIOUS
<1>2. d.mixed \in BOOLEAN
  <2>1. CASE c.at = "idle" /\ d.mixed = (MakingPackets # {})
    BY <1>b, <2>1
  <2>2. CASE ~(c.at = "idle" /\ d.mixed = (MakingPackets # {}))
    <3>1. d.mixed \in BOOLEAN \/ d.mixed = c.mixed \/ d = c \/ d = Idle
      BY <1>1, <2>2 DEF PacketStep
    <3> QED BY <1>0, <1>a, <3>1
  <2> QED BY <2>1, <2>2
<1>3. Addressed(i, call[i])'
  <2>1. /\ get_mac_addr_by_index(Index(i))' = get_mac_addr_by_index(Index(i))
        /\ get_linked_mac_addr_by_index(Index(i))' = get_linked_mac_addr_by_index(Index(i))
        /\ PacketSender(i)' = PacketSender(i)
    BY <1>0, AddressesKept
  <2> DEFINE src == get_mac_addr_by_index(Index(i))
             dst == get_linked_mac_addr_by_index(Index(i))
  <2>2. SUFFICES ASSUME PacketSender(i), ~d.mixed, src \in WellFormed, dst \in WellFormed
                 PROVE  /\ d.at \in {"destination", "copy destination", "copy source"} =>
                               srcmac' = src
                        /\ d.at = "copy destination" => dstmac' = dst
                        /\ d.at \in {"copy source", "socket", "send"} => d.dst = dst
                        /\ d.at \in {"socket", "send"} => d.src = src
    BY <2>1 DEF Addressed
  <2>3. ~c.mixed =>
            /\ c.at \in {"destination", "copy destination", "copy source"} => srcmac = src
            /\ c.at = "copy destination" => dstmac = dst
            /\ c.at \in {"copy source", "socket", "send"} => c.dst = dst
            /\ c.at \in {"socket", "send"} => c.src = src
    BY <1>0, <2>2 DEF Addressed
  <2> HIDE DEF src, dst
  <2>4. \/ UNCHANGED <<srcmac, dstmac>> /\ d = c
        \/ d.at \notin InPacket \cup {"socket", "send"}
        \/ ~PacketSender(i)
        \/ /\ c.at = "socket" /\ d.at = "send"
           /\ d.src = c.src /\ d.dst = c.dst /\ d.mixed = c.mixed
        \/ d.at = "source"
        \/ /\ c.at = "copy destination" /\ d.at = "copy source"
           /\ d.dst = dstmac /\ d.mixed = c.mixed /\ srcmac' = srcmac
        \/ /\ c.at = "copy source" /\ d.at \in {"socket", "send"}
           /\ d.src = srcmac /\ d.dst = c.dst /\ d.mixed = c.mixed
        \/ d.at = "destination" /\ srcmac' = src
        \/ /\ c.at = "destination" /\ d.at = "copy destination" /\ d.mixed = c.mixed
           /\ dstmac' = dst /\ srcmac' = srcmac
    <3>1. Idle.at \notin InPacket \cup {"socket", "send"}
      BY <1>a DEF InPacket
    <3> QED BY <1>1, <2>2, <3>1 DEF PacketStep, src, dst
  <2> QED BY <2>2, <2>3, <2>4 DEF InPacket
<1> QED BY <1>2, <1>3

LEMMA AddrInit == Init => AddrInv
  BY DEF Init, FirmwareInit, AddrInv, Entries, AddressesOfLink

LEMMA AddrStep ==
  PhaseInv /\ FilesInv /\ CallInv /\ AddrInv /\ [Next]_vars => AddrInv'
<1> SUFFICES ASSUME PhaseInv, FilesInv, CallInv, AddrInv, [Next]_vars PROVE AddrInv'
  OBVIOUS
<1>0. /\ WellMade(interface_info_array) /\ DOMAIN call = Entries
      /\ threads \subseteq Entries
  BY DEF PhaseInv
<1>1. ASSUME SameEntries(interface_info_array, interface_info_array'),
             UNCHANGED <<call, srcmac, dstmac, packets>>
      PROVE  AddrInv'
  <2>1. /\ Entries' = Entries
        /\ \A i \in Entries :
              /\ interface_info_array'[i].base_send_func
                     = interface_info_array[i].base_send_func
              /\ get_mac_addr_by_index(i)' = get_mac_addr_by_index(i)
              /\ get_linked_mac_addr_by_index(i)' = get_linked_mac_addr_by_index(i)
    BY <1>0, <1>1, AddressesKept, EntriesKept
  <2>2. AddressesOfLink'
    BY <1>1, <2>1 DEF AddrInv, AddressesOfLink
  <2>3. \A i \in Entries : Addressed(i, call[i])'
    BY <1>0, <1>1, AddressesKept DEF AddrInv, Addressed
  <2> QED BY <1>1, <2>1, <2>2, <2>3 DEF AddrInv, MakesPacket
<1>2. CASE Configure
  <2>1. /\ packets' = {} /\ \A i \in Entries' : call'[i] = Idle
    BY <1>2, ConfigureStep DEF PhaseInv, Untouched, Entries
  <2>2. Idle.at = "idle" /\ Idle.mixed = FALSE
    BY DEF Idle
  <2>3. AddressesOfLink'
    BY <2>1 DEF AddressesOfLink
  <2> QED BY <2>1, <2>2, <2>3 DEF AddrInv, Addressed, MakesPacket, InPacket
<1>3. CASE Start
  <2>1. UNCHANGED <<call, srcmac, dstmac, packets>>
    BY <1>3 DEF Start, firmwareVars
  <2>2. SameEntries(interface_info_array, interface_info_array')
    <3>1. CASE initializer_transfer
      BY <1>0, <3>1, InitialiserStep
    <3>2. CASE InitialiseDone \/ CreateThread \/ JoinThreads
      BY <3>2 DEF InitialiseDone, CreateThread, JoinThreads, SameEntries
    <3> QED BY <1>3, <3>1, <3>2 DEF Start, StartNext
  <2> QED BY <1>1, <2>1, <2>2
<1>4. ASSUME NEW device \in Devices, Arrive(device) PROVE AddrInv'
  BY <1>1, <1>4 DEF Arrive, SameEntries
<1>5. ASSUME NEW i \in threads, Steps(i),
             SameEntries(interface_info_array, interface_info_array')
      PROVE  AddrInv'
  <2>1. Entries' = Entries /\ i \in Entries /\ PacketStep(i)
        /\ Index(i) \in Entries
    BY <1>0, <1>5, EntriesKept, PacketSteps, IndexIn
  <2>2. \A j \in Entries : call'[j].mixed \in BOOLEAN /\ Addressed(j, call[j])'
    BY <1>5, AddressesOfOther, AddressesOfOwn
  <2>3. \A j \in Entries \ {i} : /\ call'[j].at = call[j].at
                                 /\ call[j].mixed => call'[j].mixed
    BY <1>0, <1>5, OthersCalls, AddressesOfOther
  <2>4. ASSUME NEW j \in Entries, NEW k \in Entries,
               MakesPacket(j)', MakesPacket(k)', j # k
        PROVE  call'[j].mixed
    <3>1. CASE i \notin {j, k}
      BY <2>3, <2>4, <3>1 DEF AddrInv, MakesPacket
    <3>2. CASE MakesPacket(i) /\ i \in {j, k}
      <4>1. MakesPacket(j) /\ MakesPacket(k)
        BY <2>3, <2>4, <3>2 DEF MakesPacket
      <4>2. call[j].mixed
        BY <2>4, <4>1 DEF AddrInv
      <4>3. MakesPacket(i)' => (call[i].mixed => call'[i].mixed)
        BY <2>1, <3>2 DEF PacketStep, MakesPacket, InPacket, Idle
      <4> QED BY <2>3, <2>4, <4>2, <4>3
    <3>3. CASE ~MakesPacket(i) /\ i \in {j, k}
      <4>0. MakesPacket(i)' /\ Idle.at \notin InPacket
        BY <2>4, <3>3 DEF Idle, InPacket
      <4>1. /\ call[i].at = "idle" /\ call'[i].mixed = (MakingPackets # {})
            /\ \A m \in MakingPackets : call'[m].mixed = TRUE
        BY <2>1, <3>3, <4>0 DEF PacketStep, MakesPacket, InPacket
      <4>2. ASSUME NEW m \in {j, k}, m # i PROVE m \in MakingPackets
        <5>1. call[m].at \in InPacket
          BY <2>3, <2>4, <4>2 DEF MakesPacket
        <5>2. m \in threads
          BY <2>4, <4>2, <5>1 DEF CallInv, CallOf, InPacket
        <5> QED BY <5>1, <5>2 DEF MakingPackets
      <4>3. CASE j = i
        BY <2>4, <4>1, <4>2, <4>3
      <4>4. CASE j # i
        BY <4>1, <4>2, <4>4
      <4> QED BY <4>3, <4>4
    <3> QED BY <3>1, <3>2, <3>3
  <2>5. \A k \in Entries :
              /\ interface_info_array'[k].base_send_func
                     = interface_info_array[k].base_send_func
              /\ get_mac_addr_by_index(k)' = get_mac_addr_by_index(k)
              /\ get_linked_mac_addr_by_index(k)' = get_linked_mac_addr_by_index(k)
    BY <1>0, <1>5, AddressesKept
  <2>6. ASSUME NEW p \in packets'
        PROVE  /\ p.entry \in Entries
               /\ (/\ ~p.mixed
                   /\ interface_info_array[p.entry].base_send_func
                          \in {"send_packet_by_mac_addr", "send_packet_xy"}
                   /\ get_mac_addr_by_index(p.entry) \in WellFormed
                   /\ get_linked_mac_addr_by_index(p.entry) \in WellFormed) =>
                      /\ p.src = get_mac_addr_by_index(p.entry)
                      /\ p.dst = get_linked_mac_addr_by_index(p.entry)
    <3>1. CASE p \in packets
      BY <3>1 DEF AddrInv, AddressesOfLink
    <3>2. CASE p \notin packets
      <4>1. /\ call[i].at = "send" /\ p.entry = Index(i) /\ p.src = call[i].src
            /\ p.dst = call[i].dst /\ p.mixed = call[i].mixed
        <5>1. /\ call[i].at = "send"
              /\ packets' = packets \cup {[entry |-> Index(i), src |-> call[i].src,
                                        dst |-> call[i].dst, mixed |-> call[i].mixed]}
          BY <2>1, <2>6, <3>2 DEF PacketStep
        <5>2. p = [entry |-> Index(i), src |-> call[i].src,
                   dst |-> call[i].dst, mixed |-> call[i].mixed]
          BY <2>6, <3>2, <5>1
        <5> QED BY <5>1, <5>2
      <4>2. Addressed(i, call[i]) /\ Sends(i)
        BY <2>1, <4>1 DEF AddrInv, CallInv, CallOf, PlaceOf, InPacket
      <4>3. interface_info_array[Index(i)].base_send_func
                 \in {"send_packet_by_mac_addr", "send_packet_xy"} => PacketSender(i)
        BY <4>2 DEF PacketSender, SendFunc, Entry
      <4> QED BY <2>1, <4>1, <4>2, <4>3 DEF Addressed
    <3> QED BY <3>1, <3>2
  <2>7. AddressesOfLink'
    BY <2>5, <2>6 DEF AddressesOfLink
  <2> QED BY <2>1, <2>2, <2>4, <2>6, <2>7 DEF AddrInv
<1>6. CASE Work
  <2>1. SameEntries(interface_info_array, interface_info_array')
    BY <1>0, <1>6, FirmwareStep DEF Work, SameDevices
  <2> QED BY <1>4, <1>5, <1>6, <2>1 DEF Work, FirmwareNext
<1>7. CASE Die \/ UNCHANGED vars
  BY <1>1, <1>7, DieStep DEF vars, firmwareVars, SameEntries
<1> QED BY <1>2, <1>3, <1>6, <1>7 DEF Next

(* However the threads interleave, a packet carries the two addresses of    *)
(* its link if no other thread was making a packet at the same time and     *)
(* both addresses are well-formed: the shared arrays are the only way in    *)
(* which one thread disturbs the addresses of another.                      *)
THEOREM AddressesCarried == Spec => []AddressesOfLink
<1>1. AddrInv => AddressesOfLink
  BY DEF AddrInv
<1> QED BY <1>1, AddrInit, AddrStep, PhaseCorrect, FilesCorrect, CallCorrect,
           PTL DEF Spec

-----------------------------------------------------------------------------
(* Frames, and the messages made of them.                                   *)
LEMMA SeqGrows ==
  ASSUME NEW S, NEW T, S \subseteq T, NEW s \in Seq(S)
  PROVE  s \in Seq(T)
  OBVIOUS

LEMMA SeqTaken ==
  ASSUME NEW S, NEW s \in Seq(S), s # << >>
  PROVE  Head(s) \in S /\ Tail(s) \in Seq(S)
  OBVIOUS

LEMMA SeqOfOne ==
  ASSUME NEW S, NEW x \in S PROVE <<x>> \in Seq(S) /\ << >> \in Seq(S)
  OBVIOUS

LEMMA FramesKept ==
  ASSUME SameEntries(interface_info_array, interface_info_array'),
         WellMade(interface_info_array)
  PROVE  /\ EarlySet' = EarlySet
         /\ \A kind, device : FramesOf(kind, device)' = FramesOf(kind, device)
<1>1. Entries' = Entries /\ \A i \in Entries : Card(i)' = Card(i)
  BY EntriesKept, ReadingsKept
<1>2. EarlySet' = EarlySet
  BY <1>1 DEF EarlySet
<1> QED BY <1>2 DEF FramesOf

Waiting(d) == /\ d.bound = (d.device # NoDevice)
              /\ d.frames \in Seq(FramesOf(d.kind, d.device))

LEMMA WaitingDelivered ==
  ASSUME NEW table, NEW device, NEW fd \in Fds, table[fd] # Vacant,
         Waiting(table[fd]), DescriptorFields \subseteq DOMAIN table[fd],
         \/ \E j \in Entries : device \in {Card(j), Address(j), Channel(j)}
  PROVE  Waiting(Delivered(table, device)[fd])
<1> DEFINE d == table[fd]
           frame == [device |-> device, early |-> ~d.bound]
<1>1. /\ Kind(device) # "port" /\ device # NoDevice
      /\ Kind(device) = "packet" => \E j \in Entries : device = Card(j)
  BY DEF Kind, Card, Address, Channel, NoDevice
<1>2. CASE ~Takes(d, device)
  BY <1>2 DEF Delivered
<1>3. CASE Takes(d, device)
  <2>1. Delivered(table, device)[fd] = [d EXCEPT !.frames = Append(d.frames, frame)]
    BY <1>3 DEF Delivered
  <2>2. frame \in FramesOf(d.kind, d.device)
    <3>1. CASE d.device = NoDevice
      <4>1. d.kind = "packet" /\ Kind(device) = "packet"
        BY <1>1, <1>3, <3>1 DEF Takes
      <4>2. d.bound = FALSE
        BY <3>1 DEF Waiting
      <4>3. (~d.bound) = TRUE
        BY <4>2
      <4>4. PICK j \in Entries : device = Card(j)
        BY <1>1, <4>1
      <4>5. frame = [device |-> Card(j), early |-> TRUE]
        BY <4>3, <4>4
      <4>6. frame \in EarlySet
        BY <4>5 DEF EarlySet
      <4> QED BY <4>1, <4>6 DEF FramesOf
    <3>2. CASE d.device # NoDevice
      <4>1. d.device = device /\ d.kind # "port"
        BY <1>1, <1>3, <3>2 DEF Takes
      <4>2. frame = [device |-> d.device, early |-> FALSE]
        <5>1. d.bound = TRUE
          BY <3>2 DEF Waiting
        <5>2. (~d.bound) = FALSE
          BY <5>1
        <5> QED BY <4>1, <5>2
      <4> QED BY <3>2, <4>1, <4>2 DEF FramesOf
    <3> QED BY <3>1, <3>2
  <2>3. Append(d.frames, frame) \in Seq(FramesOf(d.kind, d.device))
    BY <2>2 DEF Waiting
  <2>4. /\ Delivered(table, device)[fd].bound = d.bound
        /\ Delivered(table, device)[fd].kind = d.kind
        /\ Delivered(table, device)[fd].device = d.device
        /\ Delivered(table, device)[fd].frames = Append(d.frames, frame)
    BY <2>1 DEF DescriptorFields
  <2> QED BY <2>3, <2>4 DEF Waiting
<1> QED BY <1>2, <1>3

LEMMA WaitingDescriptor ==
  ASSUME NEW kind, NEW device, NEW frames \in Seq(FramesOf(kind, device))
  PROVE  Waiting(Descriptor(kind, device, frames))
  BY DEF Waiting, Descriptor

LEMMA DeviceOfEntry ==
  ASSUME WellMade(interface_info_array), NEW i \in Entries
  PROVE  /\ Device(i) \in {Card(Index(i)), Address(Index(i)), Channel(Index(i))}
         /\ Index(i) \in Entries
         /\ Device(i) # NoDevice
<1>1. Device(i) \in {Card(Index(i)), Address(Index(i)), Channel(Index(i))}
  BY DEF Device
<1> QED BY <1>1, IndexIn DEF Card, Address, Channel, NoDevice

LEMMA WaitingSteps ==
  ASSUME PhaseInv, CallInv, DescriptorInv, WaitInv, SocketInv,
         NEW i \in threads, Steps(i), NEW fd \in Fds \ Free'
  PROVE  Waiting(fds'[fd])
<1> DEFINE c == call[i]
           f == call[i].fd
<1>0. /\ i \in Entries /\ WellMade(interface_info_array)
      /\ DOMAIN fds = Fds /\ CallOf(i, c)
      /\ f # Null => f \in Fds \ Free
      /\ fd \in Fds /\ fds'[fd] # Vacant
      /\ \A g \in Fds : fds[g] # Vacant => /\ Waiting(fds[g])
                                           /\ DescriptorFields \subseteq DOMAIN fds[g]
  <2>1. Fds' = Fds
    BY DEF Fds
  <2> QED BY <2>1 DEF PhaseInv, CallInv, DescriptorInv, OwnInv, FdTypeInv, OfCall,
           WaitInv, Waiting, Free
<1>1. CASE fds' = fds
  BY <1>0, <1>1
<1>2. CASE fds' = Closed(i) /\ f # Null
  BY <1>0, <1>2 DEF Closed
<1>3. CASE send_message(i) \/ receive_message(i)
  BY <1>1, <1>3 DEF send_message, receive_message, Starts
<1>4. CASE Source(i) \/ Destination(i) \/ CopyDestination(i) \/ CopySource(i)
           \/ CopyArray(i) \/ ClearArray(i)
  BY <1>1, <1>4 DEF Source, Destination, CopyDestination, CopySource, CopyArray,
       ClearArray
<1>5. CASE socket(i)
  <2>1. CASE Free # {} /\ fds' =
                [fds EXCEPT ![NewFd] = Descriptor(SocketKind(i), NoDevice, << >>)]
    <3>1. CASE fd = NewFd
      <4>1. fds'[fd] = Descriptor(SocketKind(i), NoDevice, << >>)
        BY <1>0, <2>1, <3>1, NewFdFree
      <4>2. << >> \in Seq(FramesOf(SocketKind(i), NoDevice))
        OBVIOUS
      <4> QED BY <4>1, <4>2, WaitingDescriptor
    <3>2. CASE fd # NewFd
      BY <1>0, <2>1, <3>2
    <3> QED BY <3>1, <3>2
  <2> QED BY <1>1, <1>5, <2>1 DEF socket
<1>6. CASE Fail(i)
  <2>1. c.at = "bind" /\ fds' = Closed(i)
    BY <1>6 DEF Fail, At
  <2> QED BY <1>0, <1>2, <2>1 DEF CallOf, Holds
<1>7. CASE bind(i)
  <2>1. /\ c.at = "bind"
        /\ fds' = [fds EXCEPT ![f].device = Device(i), ![f].bound = TRUE]
    BY <1>7 DEF bind, At
  <2>2. f # Null
    BY <1>0, <2>1 DEF CallOf, Holds
  <2>3. fds[f].device = NoDevice /\ f \in Fds /\ fds[f] # Vacant
    BY <1>0, <2>1, <2>2 DEF SocketInv, OfCall, Free
  <2>4. CASE fd = f
    <3>1. DescriptorFields \subseteq DOMAIN fds[f] /\ Waiting(fds[f])
      BY <1>0, <2>3
    <3>2. /\ fds'[f].kind = fds[f].kind /\ fds'[f].device = Device(i)
          /\ fds'[f].bound = TRUE /\ fds'[f].frames = fds[f].frames
      BY <1>0, <2>1, <2>3, <3>1 DEF DescriptorFields
    <3>3. FramesOf(fds[f].kind, NoDevice) \subseteq FramesOf(fds[f].kind, Device(i))
      BY DEF FramesOf
    <3>4. fds[f].frames \in Seq(FramesOf(fds[f].kind, NoDevice))
      BY <2>3, <3>1 DEF Waiting
    <3>5. fds[f].frames \in Seq(FramesOf(fds[f].kind, Device(i)))
      BY <3>3, <3>4, SeqGrows
    <3>6. Device(i) # NoDevice
      BY <1>0, DeviceOfEntry
    <3> QED BY <2>4, <3>2, <3>5, <3>6 DEF Waiting
  <2>5. CASE fd # f
    <3>1. fds'[fd] = fds[fd]
      BY <1>0, <2>1, <2>3, <2>5
    <3> QED BY <1>0, <3>1
  <2> QED BY <2>4, <2>5
<1>8. CASE Send(i)
  <2>1. c.at = "send"
    BY <1>8 DEF Send, At
  <2>2. Sends(i) /\ Driver(i) = SendFunc(i)
    BY <1>0, <2>1 DEF CallOf, PlaceOf, InPacket, Driver
  <2>3. CASE Driver(i) = "send_packet_xy"
    BY <1>1, <1>8, <2>3 DEF Send, send_packet_xy
  <2>4. CASE Driver(i) # "send_packet_xy"
    <3>1. f # Null
      BY <1>0, <2>1, <2>2, <2>4 DEF CallOf, PlaceOf, Holds, InPacket
    <3>2. CASE fds' = Delivered(Closed(i), Device(i))
      <4>1. /\ DOMAIN Closed(i) = Fds
            /\ \A g \in Fds : Closed(i)[g] = IF g = f THEN Vacant ELSE fds[g]
        BY <1>0, <3>1 DEF Closed
      <4>2. Closed(i)[fd] # Vacant
        <5>1. SUFFICES ASSUME Closed(i)[fd] = Vacant PROVE FALSE
          OBVIOUS
        <5>2. Kind(Device(i)) # "none"
          BY KindOfDevice
        <5>3. ~Takes(Vacant, Device(i))
          BY <5>2 DEF Takes, Vacant
        <5> QED BY <1>0, <3>2, <5>1, <5>3 DEF Delivered
      <4>3. Waiting(Closed(i)[fd]) /\ DescriptorFields \subseteq DOMAIN Closed(i)[fd]
        BY <1>0, <4>1, <4>2
      <4> QED BY <1>0, <3>2, <4>2, <4>3, DeviceOfEntry, WaitingDelivered
    <3>3. CASE Driver(i) = "send_packet_can_gpu"
      BY <1>1, <1>8, <3>2, <3>3 DEF Send, send_packet_can_gpu
    <3>4. CASE Driver(i) # "send_packet_can_gpu"
      BY <1>2, <1>8, <2>4, <3>1, <3>4 DEF Send, SendByAddress
    <3> QED BY <3>3, <3>4
  <2> QED BY <2>3, <2>4
<1>9. CASE ReceiveNothing(i) \/ Receive(i)
  <2>1. c.at = "receive"
    BY <1>9 DEF ReceiveNothing, Receive, At
  <2>2. Receives(i)
    BY <1>0, <2>1 DEF CallOf, PlaceOf, InPacket
  <2>3. CASE ReceiveFunc(i) = "receive_packet_xy"
    <3>1. ASSUME NEW g, fds[g] # Vacant, fds[g].frames # << >>,
                 fds' = [fds EXCEPT ![g].frames = Tail(@)]
          PROVE  Waiting(fds'[fd])
      <4>1. CASE fd = g
        <5>1. Waiting(fds[g]) /\ DescriptorFields \subseteq DOMAIN fds[g]
          BY <1>0, <3>1, <4>1
        <5>2. /\ fds'[g].kind = fds[g].kind /\ fds'[g].device = fds[g].device
              /\ fds'[g].bound = fds[g].bound /\ fds'[g].frames = Tail(fds[g].frames)
          BY <1>0, <3>1, <4>1, <5>1 DEF DescriptorFields
        <5>3. Tail(fds[g].frames) \in Seq(FramesOf(fds[g].kind, fds[g].device))
          BY <3>1, <5>1, SeqTaken DEF Waiting
        <5> QED BY <4>1, <5>1, <5>2, <5>3 DEF Waiting
      <4>2. CASE fd # g
        <5>1. fds'[fd] = fds[fd]
          BY <1>0, <3>1, <4>2
        <5> QED BY <1>0, <5>1
      <4> QED BY <4>1, <4>2
    <3>2. fds' = fds \/ \E g : /\ fds[g] # Vacant /\ fds[g].frames # << >>
                                /\ fds' = [fds EXCEPT ![g].frames = Tail(@)]
      BY <1>9, <2>3 DEF ReceiveNothing, Receive
    <3> QED BY <1>1, <3>1, <3>2
  <2>4. CASE ReceiveFunc(i) # "receive_packet_xy"
    <3>1. f # Null
      BY <1>0, <2>1, <2>2, <2>4 DEF CallOf, PlaceOf, Holds, InPacket
    <3>2. fds' = Closed(i)
      BY <1>9, <2>4 DEF ReceiveNothing, Receive
    <3> QED BY <1>2, <3>1, <3>2
  <2> QED BY <2>3, <2>4
<1> QED BY <1>3, <1>4, <1>5, <1>6, <1>7, <1>8, <1>9 DEF Steps

(* The descriptors that are not of the call of a thread keep their kind and *)
(* their device when it takes a step.                                       *)
LEMMA OtherDescriptors ==
  ASSUME DescriptorInv, NEW i \in Entries, Effect(i),
         NEW fd \in Fds \ Free, fd # OfCall(i)
  PROVE  fds'[fd].kind = fds[fd].kind /\ fds'[fd].device = fds[fd].device
<1>1. SameDescriptor(fds[fd], fds'[fd])
  <2>1. CASE KeepsAll
    BY <2>1 DEF KeepsAll
  <2>2. CASE Opens(i)
    BY <2>2 DEF Opens, SameDescriptor, DescriptorInv, FdTypeInv
  <2>3. CASE Closes(i)
    BY <2>3 DEF Closes, OfCall
  <2>4. CASE Leaks(i)
    BY <2>4 DEF Leaks, SameDescriptor
  <2>5. CASE Rebinds(i)
    BY <2>5 DEF Rebinds, OfCall, SameDescriptor
  <2> QED BY <2>1, <2>2, <2>3, <2>4, <2>5 DEF Effect
<1> QED BY <1>1 DEF SameDescriptor

LEMMA HeldAfter ==
  ASSUME PhaseInv, CallInv, NEW i \in threads, Steps(i), ~socket(i), ~bind(i)
  PROVE  call'[i].fd = Null
<1> DEFINE c == call[i]
<1>0. i \in Entries /\ i \in DOMAIN call /\ CallOf(i, c)
      /\ CallFields \subseteq DOMAIN c
  BY DEF PhaseInv, CallInv, CallOf
<1>1. ASSUME Return(i) PROVE call'[i].fd = Null
  BY <1>0, <1>1 DEF Return, Idle
<1>2. CASE send_message(i) \/ receive_message(i)
  <2>1. /\ c.at = "idle"
        /\ call' = call \/ \E where : Begin(i, where)
    BY <1>2 DEF send_message, receive_message, Starts, At,
         update_status_in_current_round
  <2>2. c.fd = Null
    BY <1>0, <2>1 DEF CallOf, Holds
  <2>3. ASSUME NEW where, Begin(i, where) PROVE call'[i].fd = Null
    BY <1>0, <2>3 DEF Begin, Idle
  <2> QED BY <2>1, <2>2, <2>3
<1>3. CASE Source(i) \/ Destination(i) \/ CopyDestination(i) \/ CopySource(i)
           \/ CopyArray(i)
  <2>1. /\ call'[i].fd = c.fd
        /\ c.at \in InPacket \cup {"copy"}
    BY <1>0, <1>3 DEF Source, Destination, CopyDestination, CopySource, CopyArray, Goto,
         CallFields, At, InPacket
  <2>2. c.fd = Null
    BY <1>0, <2>1 DEF CallOf, Holds, InPacket
  <2> QED BY <2>1, <2>2
<1>4. CASE Fail(i) \/ Send(i) \/ ReceiveNothing(i) \/ ClearArray(i)
  BY <1>1, <1>4 DEF Fail, Send, ReceiveNothing, ClearArray
<1>5. CASE Receive(i)
  <2>1. CASE call' = [call EXCEPT ![i].fd = Null, ![i].at = "copy"]
    BY <1>0, <2>1 DEF CallFields
  <2> QED BY <1>1, <1>5, <2>1 DEF Receive
<1> QED BY <1>2, <1>3, <1>4, <1>5 DEF Steps

LEMMA SocketSteps ==
  ASSUME PhaseInv, CallInv, DescriptorInv, SocketInv,
         NEW i \in threads, Steps(i),
         SameEntries(interface_info_array, interface_info_array')
  PROVE  SocketInv'
<1>0. /\ i \in Entries /\ WellMade(interface_info_array) /\ DOMAIN call = Entries
      /\ threads \subseteq Entries /\ Entries' = Entries
      /\ DOMAIN fds = Fds /\ CallOf(i, call[i]) /\ Effect(i)
  <2>1. WellMade(interface_info_array)
    BY DEF PhaseInv
  <2> QED BY <2>1, EffectOfSteps, EntriesKept DEF PhaseInv, CallInv, DescriptorInv, FdTypeInv
<1>1. \A j \in Entries : SocketKind(j)' = SocketKind(j) /\ Device(j)' = Device(j)
  BY <1>0, DriversKept
<1>2. ASSUME NEW j \in Entries, j # i, OfCall(j)' # Null
      PROVE  /\ fds'[OfCall(j)'].kind = SocketKind(j)
             /\ call'[j].at = "bind" => fds'[OfCall(j)'].device = NoDevice
             /\ call'[j].at = "receive" => fds'[OfCall(j)'].device = Device(j)
  <2>1. OfCall(j)' = OfCall(j) /\ call'[j].at = call[j].at
    BY <1>0, <1>2, OthersCalls DEF OfCall
  <2>2. OfCall(j) \in Fds \ Free /\ OfCall(j) # OfCall(i)
    BY <1>0, <1>2, <2>1 DEF DescriptorInv, OwnInv
  <2>3. /\ fds'[OfCall(j)].kind = fds[OfCall(j)].kind
        /\ fds'[OfCall(j)].device = fds[OfCall(j)].device
    BY <1>0, <2>2, OtherDescriptors
  <2> QED BY <1>2, <2>1, <2>3 DEF SocketInv
<1>3. ASSUME OfCall(i)' # Null
      PROVE  /\ fds'[OfCall(i)'].kind = SocketKind(i)
             /\ call'[i].at = "bind" => fds'[OfCall(i)'].device = NoDevice
             /\ call'[i].at = "receive" => fds'[OfCall(i)'].device = Device(i)
  <2>1. CASE socket(i)
    <3>1. CASE Return(i)
      BY <1>0, <1>3, <3>1 DEF Return, Idle, OfCall
    <3>2. CASE /\ Free # {}
               /\ fds' = [fds EXCEPT ![NewFd] = Descriptor(SocketKind(i), NoDevice, << >>)]
               /\ call' = [call EXCEPT ![i].fd = NewFd,
                                ![i].at = IF Binds(i) THEN "bind" ELSE "send"]
      <4>1. /\ OfCall(i)' = NewFd /\ call'[i].at \in {"bind", "send"}
        BY <1>0, <3>2 DEF CallOf, CallFields, OfCall
      <4>2. fds'[NewFd] = Descriptor(SocketKind(i), NoDevice, << >>)
        BY <1>0, <3>2, NewFdFree
      <4>3. fds'[NewFd].kind = SocketKind(i) /\ fds'[NewFd].device = NoDevice
        BY <4>2, DescriptorKinds, SocketKinds
      <4> QED BY <4>1, <4>3
    <3> QED BY <2>1, <3>1, <3>2 DEF socket
  <2>2. CASE bind(i)
    <3>1. /\ call[i].at = "bind"
          /\ fds' = [fds EXCEPT ![call[i].fd].device = Device(i),
                                ![call[i].fd].bound = TRUE]
          /\ call'[i].at \in {"send", "receive"} /\ OfCall(i)' = OfCall(i)
      BY <1>0, <2>2 DEF bind, At, Goto, CallOf, CallFields, OfCall
    <3>2. /\ OfCall(i) \in Fds \ Free
      BY <1>0, <1>3, <3>1 DEF DescriptorInv, OwnInv
    <3>3. DescriptorFields \subseteq DOMAIN fds[OfCall(i)]
      BY <3>2 DEF DescriptorInv, FdTypeInv
    <3>4. /\ fds'[OfCall(i)].kind = fds[OfCall(i)].kind
          /\ fds'[OfCall(i)].device = Device(i)
      BY <1>0, <3>1, <3>2, <3>3 DEF OfCall, DescriptorFields
    <3> QED BY <1>0, <1>3, <3>1, <3>4 DEF SocketInv
  <2>3. CASE ~socket(i) /\ ~bind(i)
    BY <1>3, <2>3, HeldAfter DEF OfCall
  <2> QED BY <2>1, <2>2, <2>3
<1> QED BY <1>0, <1>1, <1>2, <1>3 DEF SocketInv, OfCall

(* What may be dealt for an entry, and what its arrays hold.                *)
LEMMA MsgKept ==
  ASSUME SameDevices(interface_info_array, interface_info_array'),
         WellMade(interface_info_array), NEW k \in Entries, NEW msg, MsgOf(k, msg)
  PROVE  MsgOf(k, msg)'
<1>1. /\ SameEntries(interface_info_array, interface_info_array')
      /\ interface_info_array'[k].fd = interface_info_array[k].fd
  BY DEF SameDevices, Entries
<1>2. /\ Entries' = Entries
      /\ \A i \in Entries :
            /\ Card(i)' = Card(i) /\ Address(i)' = Address(i) /\ Channel(i)' = Channel(i)
            /\ interface_info_array'[i].mode = interface_info_array[i].mode
            /\ interface_info_array'[i].base_receive_func
                   = interface_info_array[i].base_receive_func
  BY <1>1, EntriesKept, ReadingsKept, FixedKept
<1> QED BY <1>1, <1>2 DEF MsgOf

LEMMA OtherKept ==
  ASSUME SameEntries(interface_info_array, interface_info_array'),
         WellMade(interface_info_array), NEW i \in Entries
  PROVE  OtherListener(i)' <=> OtherListener(i)
<1>1. /\ Entries' = Entries
      /\ \A j \in Entries :
            /\ Receives(j)' = Receives(j) /\ ReceiveFunc(j)' = ReceiveFunc(j)
            /\ Index(j) \in Entries /\ Index(j)' = Index(j)
            /\ Channel(j)' = Channel(j)
  BY EntriesKept, ReadingsKept, IndexIn
<1>2. \A j \in Entries : Channel(Index(j))' = Channel(Index(j))
  BY <1>1 DEF Channel, get_channel_id_by_index
<1> QED BY <1>1, <1>2 DEF OtherListener

LEMMA GpuDevice ==
  ASSUME NEW i, Receives(i), ReceiveFunc(i) = "receive_packet_can_gpu"
  PROVE  /\ SocketKind(i) = "can" /\ Device(i) = Channel(Index(i))
         /\ Device(i)[2] \in {0, 1} /\ Device(i) = <<"channel", Device(i)[2]>>
<1>1. Driver(i) = "receive_packet_can_gpu"
  BY DEF Driver, Sends, Receives
<1>2. SocketKind(i) = "can"
  BY <1>1 DEF SocketKind
<1>3. Device(i) = Channel(Index(i))
  BY <1>2 DEF Device
<1> QED BY <1>2, <1>3 DEF Channel

(* The frame a listener takes from the socket of its call. *)
LEMMA FrameTaken ==
  ASSUME CallInv, DescriptorInv, WaitInv, SocketInv, NEW i \in Entries,
         call[i].at = "receive", OfCall(i) # Null,
         fds[OfCall(i)].frames # << >>
  PROVE  LET frame == Head(fds[OfCall(i)].frames)
         IN  \/ SocketKind(i) = "packet" /\ frame.early
             \/ frame.device = Device(i)
<1> DEFINE frame == Head(fds[OfCall(i)].frames)
<1>1. /\ OfCall(i) \in Fds \ Free
      /\ fds[OfCall(i)].kind = SocketKind(i) /\ fds[OfCall(i)].device = Device(i)
  BY DEF DescriptorInv, OwnInv, SocketInv
<1>2. frame \in FramesOf(SocketKind(i), Device(i))
  BY <1>1, SeqTaken DEF WaitInv
<1>3. frame \in EarlySet => frame.early
  BY DEF EarlySet
<1> QED BY <1>2, <1>3 DEF FramesOf

LEMMA ArraySteps ==
  ASSUME PhaseInv, CallInv, DescriptorInv, WaitInv, SocketInv, ArrayInv,
         NEW i \in threads, Steps(i),
         SameEntries(interface_info_array, interface_info_array')
  PROVE  ArrayInv'
<1> DEFINE c == call[i]
           n == Device(i)[2]
<1>0. /\ i \in Entries /\ WellMade(interface_info_array) /\ DOMAIN call = Entries
      /\ threads \subseteq Entries /\ CallOf(i, c) /\ i \in DOMAIN call
      /\ CallFields \subseteq DOMAIN c
  BY DEF PhaseInv, CallInv, CallOf
<1>1. /\ Entries' = Entries
      /\ \A j \in Entries : /\ Device(j)' = Device(j)
                            /\ Channel(Index(j))' = Channel(Index(j))
                            /\ OtherListener(j)' <=> OtherListener(j)
  <2>1. \A j \in Entries : /\ Index(j) \in Entries /\ Index(j)' = Index(j)
                           /\ Channel(j)' = Channel(j)
    BY <1>0, EntriesKept, ReadingsKept, IndexIn
  <2>2. \A j \in Entries : Channel(Index(j))' = Channel(Index(j))
    BY <2>1 DEF Channel, get_channel_id_by_index
  <2> QED BY <1>0, <2>2, EntriesKept, DriversKept, OtherKept
<1>2. \A j \in Entries \ {i} : call'[j].at = call[j].at /\ call'[j].msg = call[j].msg
  BY <1>0, OthersCalls
<1>3. ASSUME NEW j \in Entries, call[j].at \in {"copy", "clear"}
      PROVE  Receives(j) /\ ReceiveFunc(j) = "receive_packet_can_gpu"
  BY <1>3 DEF CallInv, CallOf, PlaceOf, InPacket
(* The arrays as they were. *)
<1>5. ASSUME can_array' = can_array, call'[i].at \notin {"copy", "clear"}
      PROVE  ArrayInv'
  BY <1>1, <1>2, <1>5 DEF ArrayInv
<1>6. CASE send_message(i) \/ receive_message(i)
  <2>1. /\ c.at = "idle" /\ can_array' = can_array
        /\ call' = call \/ \E where \in {"source", "socket", "receive"} : Begin(i, where)
    BY <1>6 DEF send_message, receive_message, Starts, At,
         update_status_in_current_round
  <2>2. ASSUME NEW where \in {"source", "socket", "receive"}, Begin(i, where)
        PROVE  call'[i].at = where
    BY <1>0, <2>2 DEF Begin, Idle
  <2> QED BY <1>5, <2>1, <2>2
<1>7. CASE Source(i) \/ Destination(i) \/ CopyDestination(i) \/ CopySource(i)
  <2>1. can_array' = can_array /\ call'[i].at \notin {"copy", "clear"}
    BY <1>0, <1>7 DEF Source, Destination, CopyDestination, CopySource, Goto, CallFields
  <2> QED BY <1>5, <2>1
<1>8. ASSUME Return(i), can_array' = can_array PROVE ArrayInv'
  <2>1. call'[i].at = "idle"
    BY <1>0, <1>8 DEF Return, Idle
  <2> QED BY <1>5, <1>8, <2>1
<1>9. CASE socket(i)
  <2>1. can_array' = can_array
    BY <1>9 DEF socket
  <2>2. CASE call' = [call EXCEPT ![i].fd = NewFd,
                              ![i].at = IF Binds(i) THEN "bind" ELSE "send"]
    <3>1. call'[i].at \in {"bind", "send"}
      BY <1>0, <2>2 DEF CallFields
    <3> QED BY <1>5, <2>1, <3>1
  <2> QED BY <1>8, <1>9, <2>1, <2>2 DEF socket
<1>10. CASE Fail(i) \/ Send(i) \/ ReceiveNothing(i)
  BY <1>8, <1>10 DEF Fail, Send, ReceiveNothing
<1>11. CASE bind(i)
  <2>1. can_array' = can_array /\ call'[i].at \in {"send", "receive"}
    BY <1>0, <1>11 DEF bind, Goto, CallFields
  <2> QED BY <1>5, <2>1
<1>12. CASE Receive(i)
  <2>1. c.at = "receive" /\ Receives(i)
    BY <1>0, <1>12 DEF Receive, At, CallOf, PlaceOf, InPacket
  <2>2. CASE ReceiveFunc(i) # "receive_packet_can_gpu"
    BY <1>8, <1>12, <2>2 DEF Receive
  <2>3. CASE ReceiveFunc(i) = "receive_packet_can_gpu"
    <3> DEFINE frame == Head(fds[c.fd].frames)
    <3>1. /\ fds[c.fd].frames # << >>
          /\ can_array' = [can_array EXCEPT ![n] = frame]
          /\ call' = [call EXCEPT ![i].fd = Null, ![i].at = "copy"]
      BY <1>12, <2>3 DEF Receive, Receiver
    <3>2. c.fd # Null
      BY <1>0, <2>1, <2>3 DEF CallOf, Holds, SocketDriver
    <3>3. /\ SocketKind(i) = "can" /\ Device(i) = <<"channel", n>> /\ n \in {0, 1}
      BY <2>1, <2>3, GpuDevice
    <3>4. frame.device = <<"channel", n>>
      BY <1>0, <2>1, <3>1, <3>2, <3>3, FrameTaken DEF OfCall
    <3> HIDE DEF frame, n
    <3>5. frame # Zeros
      BY <3>4 DEF Zeros
    <3>6. call'[i].at = "copy"
      BY <1>0, <3>1 DEF CallFields
    <3>7. /\ DOMAIN can_array' = {0, 1} /\ can_array'[n] = frame
          /\ \A m \in {0, 1} : m # n => can_array'[m] = can_array[m]
      BY <3>1, <3>3 DEF ArrayInv
    <3>8. \A m \in {0, 1} : can_array'[m] = Zeros
                               \/ can_array'[m].device = <<"channel", m>>
      BY <3>4, <3>7 DEF ArrayInv
    <3>9. ASSUME NEW j \in Entries, call'[j].at = "copy", can_array'[Device(j)[2]] = Zeros
          PROVE  OtherListener(j)
      <4>1. j # i
        BY <3>5, <3>7, <3>9 DEF n
      <4>2. call[j].at = "copy"
        BY <1>2, <3>9, <4>1
      <4>3. Device(j)[2] \in {0, 1}
        BY <1>3, <4>2, GpuDevice
      <4>4. can_array[Device(j)[2]] = Zeros
        BY <3>5, <3>7, <3>9, <4>3
      <4> QED BY <4>2, <4>4 DEF ArrayInv
    <3>10. ASSUME NEW j \in Entries, call'[j].at = "clear"
           PROVE  \/ call'[j].msg.device = Channel(Index(j))
                  \/ call'[j].msg = Zeros /\ OtherListener(j)
      BY <1>2, <3>6, <3>10 DEF ArrayInv
    <3> QED BY <1>1, <3>7, <3>8, <3>9, <3>10 DEF ArrayInv
  <2> QED BY <2>2, <2>3
<1>13. CASE CopyArray(i)
  <2>1. /\ c.at = "copy" /\ can_array' = can_array
        /\ call'[i].at = "clear" /\ call'[i].msg = can_array[n]
    BY <1>0, <1>13 DEF CopyArray, At, CallFields
  <2>2. n \in {0, 1} /\ Channel(Index(i)) = <<"channel", n>>
    BY <1>0, <1>3, <2>1, GpuDevice
  <2>3. \/ call'[i].msg.device = Channel(Index(i))
        \/ call'[i].msg = Zeros /\ OtherListener(i)
    BY <1>0, <2>1, <2>2 DEF ArrayInv
  <2> QED BY <1>1, <1>2, <2>1, <2>3 DEF ArrayInv
<1>14. CASE ClearArray(i)
  <2>1. /\ c.at = "clear" /\ can_array' = [can_array EXCEPT ![n] = Zeros]
        /\ Return(i)
    BY <1>14 DEF ClearArray, At
  <2>2. call'[i].at = "idle"
    BY <1>0, <2>1 DEF Return, Idle
  <2>3. /\ n \in {0, 1} /\ Channel(Index(i)) = <<"channel", n>>
        /\ Receives(i) /\ ReceiveFunc(i) = "receive_packet_can_gpu"
    BY <1>0, <1>3, <2>1, GpuDevice
  <2> HIDE DEF n
  <2>4. /\ DOMAIN can_array' = {0, 1} /\ can_array'[n] = Zeros
        /\ \A m \in {0, 1} : m # n => can_array'[m] = can_array[m]
    BY <2>1, <2>3 DEF ArrayInv
  <2>5. ASSUME NEW j \in Entries, call'[j].at = "copy", can_array'[Device(j)[2]] = Zeros
        PROVE  OtherListener(j)
    <3>1. j # i /\ call[j].at = "copy"
      BY <1>2, <2>2, <2>5
    <3>2. Device(j)[2] \in {0, 1} /\ Channel(Index(j)) = <<"channel", Device(j)[2]>>
      BY <1>3, <3>1, GpuDevice
    <3>3. CASE Device(j)[2] = n
      BY <1>0, <2>3, <3>1, <3>2, <3>3 DEF OtherListener
    <3>4. CASE Device(j)[2] # n
      BY <2>4, <2>5, <3>1, <3>2, <3>4 DEF ArrayInv
    <3> QED BY <3>3, <3>4
  <2>6. ASSUME NEW j \in Entries, call'[j].at = "clear"
        PROVE  \/ call'[j].msg.device = Channel(Index(j))
               \/ call'[j].msg = Zeros /\ OtherListener(j)
    BY <1>2, <2>2, <2>6 DEF ArrayInv
  <2>7. \A m \in {0, 1} : can_array'[m] = Zeros
                               \/ can_array'[m].device = <<"channel", m>>
    BY <2>4 DEF ArrayInv
  <2> QED BY <1>1, <2>4, <2>5, <2>6, <2>7 DEF ArrayInv
<1> QED BY <1>6, <1>7, <1>9, <1>10, <1>11, <1>12, <1>13, <1>14 DEF Steps

(* A listener to a CAN channel of the GPU, by its own settings.             *)
LEMMA ListenerItself ==
  ASSUME WellMade(interface_info_array), NEW i \in Entries,
         Receives(i), ReceiveFunc(i) = "receive_packet_can_gpu"
  PROVE  /\ interface_info_array[i].mode = "listen"
         /\ interface_info_array[i].base_receive_func = "receive_packet_can_gpu"
         /\ Channel(i) = Channel(Index(i))
<1>1. {"mode", "base_receive_func", "can_info"} \subseteq OfTheName
  BY DEF OfTheName, Fixed
<1>2. /\ interface_info_array[Index(i)].mode = interface_info_array[i].mode
      /\ interface_info_array[Index(i)].base_receive_func
             = interface_info_array[i].base_receive_func
      /\ interface_info_array[Index(i)].can_info = interface_info_array[i].can_info
  BY <1>1, SettingsOfIndex
<1>3. Channel(i) = Channel(Index(i))
  BY <1>2 DEF Channel, get_channel_id_by_index
<1> QED BY <1>2, <1>3 DEF Receives, ReceiveFunc, Entry

LEMMA MessageDealt ==
  ASSUME PhaseInv, CallInv, DescriptorInv, WaitInv, SocketInv, ArrayInv,
         NEW i \in threads, Steps(i)
  PROVE  \/ dealt' = dealt
         \/ \E msg : /\ dealt' = dealt \cup {[entry |-> Index(i), msg |-> msg]}
                     /\ MsgOf(Index(i), msg)
<1> DEFINE c == call[i]
           k == Index(i)
<1>0. /\ i \in Entries /\ WellMade(interface_info_array) /\ CallOf(i, c)
      /\ k \in Entries
  BY IndexIn DEF PhaseInv, CallInv
<1>1. CASE send_message(i) \/ receive_message(i)
  BY <1>1 DEF send_message, receive_message, Starts
<1>2. CASE Source(i) \/ Destination(i) \/ CopyDestination(i) \/ CopySource(i)
           \/ socket(i) \/ Fail(i) \/ bind(i) \/ Send(i)
           \/ ReceiveNothing(i) \/ CopyArray(i)
  BY <1>2 DEF Source, Destination, CopyDestination, CopySource, socket, Fail, bind,
       Send, ReceiveNothing, CopyArray
<1>3. CASE Receive(i)
  <2>0. c.at = "receive"
    BY <1>3 DEF Receive, At
  <2>1. /\ Receives(i)
        /\ SocketDriver(i) \/ ReceiveFunc(i) = "receive_packet_xy"
    BY <1>0, <2>0 DEF CallOf, PlaceOf, InPacket
  <2>2. Driver(i) = ReceiveFunc(i) /\ ReceiveFunc(i) = interface_info_array[k].base_receive_func
    BY <2>1 DEF Driver, Sends, Receives, ReceiveFunc, Entry
  <2>3. CASE ReceiveFunc(i) = "receive_packet_can_gpu"
    BY <1>3, <2>3 DEF Receive
  <2>4. CASE ReceiveFunc(i) = "receive_packet_xy"
    <3>1. PICK fd \in Receiver(i) :
              /\ fds[fd] # Vacant /\ fds[fd].frames # << >>
              /\ Deal(i, Head(fds[fd].frames))
      BY <1>3, <2>4 DEF Receive
    <3> DEFINE frame == Head(fds[fd].frames)
    <3>2. MsgOf(k, frame)
      <4>1. CASE interface_info_array[k].fd = Null
        BY <2>2, <2>4, <4>1 DEF MsgOf
      <4>2. CASE interface_info_array[k].fd # Null
        <5>1. fd = interface_info_array[k].fd
          BY <2>4, <3>1, <4>2 DEF Receiver, Entry
        <5>2. InTable(k)
          BY <1>0, <4>2 DEF DescriptorInv, TableInv
        <5>3. /\ fd \in Fds \ Free
              /\ \/ fds[fd].kind = "packet" /\ fds[fd].device = Card(k)
                 \/ fds[fd].kind = "port"
          BY <5>1, <5>2 DEF InTable
        <5>4. frame \in FramesOf(fds[fd].kind, fds[fd].device)
          BY <3>1, <5>3, SeqTaken DEF WaitInv
        <5>5. frame \in EarlySet => frame.early
          BY DEF EarlySet
        <5>6. frame.early \/ frame.device = Card(k)
          BY <5>3, <5>4, <5>5 DEF FramesOf
        <5> QED BY <2>2, <2>4, <5>6 DEF MsgOf
      <4> QED BY <4>1, <4>2
    <3>3. dealt' \in {dealt, dealt \cup {[entry |-> k, msg |-> frame]}}
      BY <3>1 DEF Deal
    <3> HIDE DEF frame, k
    <3>4. CASE dealt' = dealt \cup {[entry |-> k, msg |-> frame]}
      BY <3>2, <3>4 DEF k
    <3> QED BY <3>3, <3>4
  <2>5. CASE ReceiveFunc(i) \in {"receive_packet_by_mac_addr", "receive_packet_by_ip_addr"}
    <3> DEFINE frame == Head(fds[c.fd].frames)
    <3>1. /\ fds[c.fd].frames # << >>
          /\ Deal(i, frame)
      BY <1>3, <2>5 DEF Receive, Receiver
    <3>2. OfCall(i) # Null
      BY <1>0, <2>0, <2>1, <2>5 DEF CallOf, Holds, OfCall
    <3>3. \/ SocketKind(i) = "packet" /\ frame.early
          \/ frame.device = Device(i)
      BY <1>0, <2>0, <3>1, <3>2, FrameTaken DEF OfCall
    <3>6. MsgOf(k, frame)
      <4>1. CASE ReceiveFunc(i) = "receive_packet_by_mac_addr"
        <5>1. SocketKind(i) = "packet"
          BY <2>2, <4>1 DEF SocketKind
        <5>2. Device(i) = Card(k)
          BY <5>1 DEF Device
        <5> QED BY <2>2, <3>3, <4>1, <5>2 DEF MsgOf
      <4>2. CASE ReceiveFunc(i) = "receive_packet_by_ip_addr"
        <5>1. SocketKind(i) = "udp"
          BY <2>2, <4>2 DEF SocketKind
        <5>2. Device(i) = Address(k)
          BY <5>1 DEF Device
        <5> QED BY <2>2, <3>3, <4>2, <5>1, <5>2 DEF MsgOf
      <4> QED BY <2>5, <4>1, <4>2
    <3>7. dealt' \in {dealt, dealt \cup {[entry |-> k, msg |-> frame]}}
      BY <3>1 DEF Deal
    <3> HIDE DEF frame, k
    <3>8. CASE dealt' = dealt \cup {[entry |-> k, msg |-> frame]}
      BY <3>6, <3>8 DEF k
    <3> QED BY <3>7, <3>8
  <2> QED BY <2>1, <2>3, <2>4, <2>5 DEF SocketDriver, Sends, Receives
<1>4. CASE ClearArray(i)
  <2>1. c.at = "clear" /\ Deal(i, c.msg)
    BY <1>4 DEF ClearArray, At
  <2>2. Receives(i) /\ ReceiveFunc(i) = "receive_packet_can_gpu"
    BY <1>0, <2>1 DEF CallOf, PlaceOf, InPacket
  <2>3. \/ c.msg.device = Channel(k)
        \/ c.msg = Zeros /\ OtherListener(i)
    BY <1>0, <2>1 DEF ArrayInv
  <2>4. interface_info_array[k].base_receive_func = "receive_packet_can_gpu"
    BY <2>2 DEF ReceiveFunc, Entry
  <2>5. CASE c.msg = Zeros /\ OtherListener(i)
    <3>1. PICK j \in Entries \ {i} :
              /\ Receives(j) /\ ReceiveFunc(j) = "receive_packet_can_gpu"
              /\ Channel(Index(j)) = Channel(k)
      BY <2>5 DEF OtherListener
    <3>2. \A m \in {i, j} : /\ interface_info_array[m].mode = "listen"
                            /\ interface_info_array[m].base_receive_func
                                   = "receive_packet_can_gpu"
                            /\ Channel(m) = Channel(k)
      BY <1>0, <2>2, <3>1, ListenerItself
    <3>3. MsgOf(k, c.msg)
      BY <1>0, <2>4, <2>5, <3>1, <3>2 DEF MsgOf
    <3> QED BY <2>1, <3>3 DEF Deal
  <2>6. CASE c.msg.device = Channel(k)
    <3>1. MsgOf(k, c.msg)
      BY <2>4, <2>6 DEF MsgOf
    <3> QED BY <2>1, <3>1 DEF Deal
  <2> QED BY <2>3, <2>5, <2>6
<1> QED BY <1>1, <1>2, <1>3, <1>4 DEF Steps

LEMMA FrameInit == Init => FrameInv
<1> SUFFICES ASSUME Init PROVE FrameInv
  OBVIOUS
<1>1. Entries = {} /\ Free = Fds /\ dealt = {}
      /\ can_array = [channel \in {0, 1} |-> Zeros]
  BY DEF Init, StartInit, FirmwareInit, Entries, Free
<1>2. WaitInv /\ SocketInv /\ DealtInv
  BY <1>1 DEF WaitInv, SocketInv, DealtInv
<1>3. ArrayInv
  BY <1>1 DEF ArrayInv
<1> QED BY <1>2, <1>3 DEF FrameInv

(* A step that touches no call keeps what the calls rely on.                *)
LEMMA FrameKept ==
  ASSUME WellMade(interface_info_array), DescriptorInv, FrameInv,
         SameEntries(interface_info_array, interface_info_array'),
         UNCHANGED <<call, can_array, dealt>>,
         \A fd \in Fds \ Free : /\ fds'[fd].kind = fds[fd].kind
                                /\ fds'[fd].device = fds[fd].device,
         \A fd \in Fds \ Free' : Waiting(fds'[fd]),
         \/ dealt = {}
         \/ /\ SameDevices(interface_info_array, interface_info_array')
            /\ phase' # "initialise"
  PROVE  FrameInv'
<1>0. Entries' = Entries /\ Fds' = Fds
      /\ EarlySet' = EarlySet
      /\ \A kind, device : FramesOf(kind, device)' = FramesOf(kind, device)
  BY EntriesKept, FramesKept DEF Fds
<1>1. \A j \in Entries : /\ SocketKind(j)' = SocketKind(j) /\ Device(j)' = Device(j)
                         /\ OtherListener(j)' <=> OtherListener(j)
                         /\ Channel(Index(j))' = Channel(Index(j))
  <2>1. \A j \in Entries : /\ Index(j) \in Entries /\ Index(j)' = Index(j)
                           /\ Channel(j)' = Channel(j)
    BY EntriesKept, ReadingsKept, IndexIn
  <2>2. \A j \in Entries : Channel(Index(j))' = Channel(Index(j))
    BY <2>1 DEF Channel, get_channel_id_by_index
  <2> QED BY <2>2, DriversKept, OtherKept
<1>2. WaitInv'
  BY <1>0 DEF WaitInv, Waiting
<1>3. SocketInv'
  <2>1. \A i \in Entries : OfCall(i)' = OfCall(i)
    BY DEF OfCall
  <2>2. \A i \in Entries : OfCall(i) # Null => OfCall(i) \in Fds \ Free
    BY DEF DescriptorInv, OwnInv
  <2> QED BY <1>0, <1>1, <2>1, <2>2 DEF FrameInv, SocketInv
<1>4. ArrayInv'
  BY <1>0, <1>1 DEF FrameInv, ArrayInv
<1>5. DealtInv'
  <2>1. CASE dealt = {}
    BY <2>1 DEF DealtInv
  <2>2. CASE /\ SameDevices(interface_info_array, interface_info_array')
             /\ phase' # "initialise"
    BY <1>0, <2>2, MsgKept DEF FrameInv, DealtInv
  <2> QED BY <2>1, <2>2
<1> QED BY <1>2, <1>3, <1>4, <1>5 DEF FrameInv

LEMMA InitialiserFrames ==
  ASSUME WellMade(interface_info_array), DescriptorInv, FrameInv,
         phase = "initialise", NEW S, Succeeds(S),
         SameEntries(interface_info_array, interface_info_array'),
         UNCHANGED <<call, can_array, dealt>>
  PROVE  FrameInv'
<1>0. /\ dealt = {} /\ DOMAIN fds = Fds /\ Fds' = Fds
      /\ \A fd \in Fds \ Free : Waiting(fds[fd])
  BY DEF FrameInv, DealtInv, DescriptorInv, FdTypeInv, WaitInv, Waiting, Fds
<1>1. CASE Marks(S)
  <2>1. fds' = fds /\ Free' = Free
    BY <1>0, <1>1 DEF Marks, Free
  <2> QED BY <1>0, <2>1, FrameKept
<1>2. CASE Installs(S)
  <2>1. PICK kind \in {"packet", "port"}, new \in Free : \E device, frames :
            /\ fds' = [fds EXCEPT ![new] = Descriptor(kind, device, frames)]
            /\ kind = "packet" => frames \in EarlyFrames
            /\ kind = "port" => frames = << >>
    BY <1>2 DEF Installs
  <2>2. PICK device, frames :
            /\ fds' = [fds EXCEPT ![new] = Descriptor(kind, device, frames)]
            /\ kind = "packet" => frames \in EarlyFrames
            /\ kind = "port" => frames = << >>
    BY <2>1
  <2>3. frames \in Seq(FramesOf(kind, device))
    <3>1. CASE kind = "port"
      BY <2>2, <3>1
    <3>2. CASE kind = "packet"
      <4>1. EarlySet \subseteq FramesOf(kind, device)
        BY <3>2 DEF FramesOf
      <4>2. CASE frames = << >>
        BY <4>2
      <4>3. CASE \E j \in OfType("eth") : frames = <<[device |-> Card(j), early |-> TRUE]>>
        <5>1. PICK j \in OfType("eth") : frames = <<[device |-> Card(j), early |-> TRUE]>>
          BY <4>3
        <5>2. [device |-> Card(j), early |-> TRUE] \in EarlySet
          BY <5>1 DEF OfType, EarlySet
        <5> QED BY <4>1, <5>1, <5>2, SeqOfOne
      <4> QED BY <2>2, <3>2, <4>2, <4>3 DEF EarlyFrames
    <3> QED BY <3>1, <3>2
  <2>4. Waiting(Descriptor(kind, device, frames))
    BY <2>3, WaitingDescriptor
  <2>5. new \in Fds /\ fds'[new] = Descriptor(kind, device, frames)
        /\ \A fd \in Fds : fd # new => fds'[fd] = fds[fd]
    BY <1>0, <2>2 DEF Free
  <2>6. ASSUME NEW fd \in Fds \ Free'
        PROVE  Waiting(fds'[fd])
    <3>1. fd \in Fds /\ fds'[fd] # Vacant
      BY <1>0, <2>6 DEF Free
    <3>2. CASE fd = new
      BY <2>4, <2>5, <3>2
    <3>3. CASE fd # new
      BY <1>0, <2>5, <3>1, <3>3 DEF Free
    <3> QED BY <3>2, <3>3
  <2>7. \A fd \in Fds \ Free : fds'[fd] = fds[fd]
    BY <2>5 DEF Free
  <2> QED BY <1>0, <2>6, <2>7, FrameKept
<1> QED BY <1>1, <1>2 DEF Succeeds

LEMMA FrameStep ==
  /\ PhaseInv /\ FilesInv /\ CallInv /\ DescriptorInv /\ FrameInv
  /\ [Next]_vars
  => FrameInv'
<1> SUFFICES ASSUME PhaseInv, FilesInv, CallInv, DescriptorInv, FrameInv, [Next]_vars
             PROVE  FrameInv'
  OBVIOUS
<1>0. /\ WellMade(interface_info_array) /\ threads \subseteq Entries
      /\ DOMAIN fds = Fds /\ Fds' = Fds
      /\ WaitInv /\ SocketInv /\ ArrayInv /\ DealtInv
      /\ \A fd \in Fds \ Free : Waiting(fds[fd])
  BY DEF PhaseInv, DescriptorInv, FdTypeInv, FrameInv, WaitInv, Waiting, Fds
<1>1. ASSUME UNCHANGED <<interface_info_array, fds, call, can_array, dealt>>,
             dealt = {} \/ phase' # "initialise"
      PROVE  FrameInv'
  <2>1. Free' = Free
    BY <1>0, <1>1 DEF Free
  <2>2. /\ SameDevices(interface_info_array, interface_info_array')
        /\ SameEntries(interface_info_array, interface_info_array')
    BY <1>1, SameItself DEF SameDevices
  <2> QED BY <1>0, <1>1, <2>1, <2>2, FrameKept
<1>2. CASE Configure
  <2>1. /\ Untouched /\ UNCHANGED <<startVars, can_array, dealt>>
        /\ call' = [i \in DOMAIN interface_info_array' |-> Idle]
    BY <1>2, ConfigureStep DEF PhaseInv
  <2>2. /\ Free' = Fds /\ dealt' = {}
        /\ can_array' = [channel \in {0, 1} |-> Zeros]
    BY <1>0, <2>1 DEF Untouched, startVars, Free
  <2>3. \A i \in Entries' : OfCall(i)' = Null /\ call'[i].at = "idle"
    BY <2>1 DEF OfCall, Idle, Entries
  <2>4. WaitInv' /\ SocketInv' /\ DealtInv'
    BY <1>0, <2>2, <2>3 DEF WaitInv, SocketInv, DealtInv
  <2>5. ArrayInv'
    BY <2>2, <2>3 DEF ArrayInv
  <2> QED BY <2>4, <2>5 DEF FrameInv
<1>3. CASE Start
  <2>0. UNCHANGED <<call, can_array, dealt>>
    BY <1>3 DEF Start, firmwareVars
  <2>1. CASE initializer_transfer
    <3>1. /\ SameEntries(interface_info_array, interface_info_array')
          /\ phase = "initialise"
      BY <1>0, <2>1, InitialiserStep
    <3>2. CASE \E S : Succeeds(S)
      BY <1>0, <2>0, <3>1, <3>2, InitialiserFrames
    <3>3. CASE Crash
      BY <1>1, <2>0, <3>3 DEF Crash, startVars
    <3> QED BY <1>0, <2>1, <3>2, <3>3, InitialiserEffect DEF DescriptorInv
  <2>2. CASE InitialiseDone \/ CreateThread \/ JoinThreads
    <3>1. fds' = fds /\ interface_info_array' = interface_info_array
          /\ phase' # "initialise"
      BY <2>2 DEF InitialiseDone, CreateThread, JoinThreads, startVars
    <3> QED BY <1>1, <2>0, <3>1
  <2> QED BY <1>3, <2>1, <2>2 DEF Start, StartNext
<1>4. CASE Work
  <2>1. /\ SameDevices(interface_info_array, interface_info_array')
        /\ SameEntries(interface_info_array, interface_info_array')
        /\ phase' = phase /\ phase # "initialise"
    BY <1>0, <1>4, FirmwareStep DEF Work, SameDevices, Running
  <2>2. ASSUME NEW i \in threads, Steps(i) PROVE FrameInv'
    <3>1. SocketInv' /\ ArrayInv'
      BY <1>0, <2>1, <2>2, SocketSteps, ArraySteps
    <3>2. WaitInv'
      <4>1. \A fd \in Fds \ Free' : Waiting(fds'[fd])
        BY <1>0, <2>2, WaitingSteps
      <4>2. \A kind, device : FramesOf(kind, device)' = FramesOf(kind, device)
        BY <1>0, <2>1, FramesKept
      <4> QED BY <1>0, <4>1, <4>2 DEF WaitInv, Waiting
    <3>3. DealtInv'
      <4>1. Entries' = Entries
        BY <1>0, <2>1, EntriesKept
      <4>2. \A k \in Entries : \A msg : MsgOf(k, msg) => MsgOf(k, msg)'
        BY <1>0, <2>1, MsgKept
      <4>3. CASE dealt' = dealt
        BY <1>0, <2>1, <4>1, <4>2, <4>3 DEF DealtInv
      <4>4. CASE \E msg : /\ dealt' = dealt \cup {[entry |-> Index(i), msg |-> msg]}
                          /\ MsgOf(Index(i), msg)
        <5>1. PICK msg : /\ dealt' = dealt \cup {[entry |-> Index(i), msg |-> msg]}
                         /\ MsgOf(Index(i), msg)
          BY <4>4
        <5>2. Index(i) \in Entries
          BY <1>0, <2>2, IndexIn
        <5>3. PICK k : k = Index(i)
          OBVIOUS
        <5>4. ASSUME NEW d \in dealt'
              PROVE  d.entry \in Entries /\ MsgOf(d.entry, d.msg)
          <6>1. CASE d \in dealt
            BY <1>0, <6>1 DEF DealtInv
          <6>2. CASE d = [entry |-> k, msg |-> msg]
            <7>1. d.entry = k /\ d.msg = msg
              BY <6>2
            <7> QED BY <5>1, <5>2, <5>3, <7>1
          <6> QED BY <5>1, <5>3, <5>4, <6>1, <6>2
        <5>5. \A d \in dealt' : d.entry \in Entries /\ MsgOf(d.entry, d.msg)'
          BY <4>2, <5>4
        <5> QED BY <2>1, <4>1, <5>5 DEF DealtInv
      <4> QED BY <1>0, <2>2, <4>3, <4>4, MessageDealt
    <3> QED BY <3>1, <3>2, <3>3 DEF FrameInv
  <2>3. ASSUME NEW device \in Devices, Arrive(device) PROVE FrameInv'
    <3>1. fds' = Delivered(fds, device) /\ UNCHANGED <<call, can_array, dealt>>
      BY <2>3 DEF Arrive
    <3>2. \A fd \in Fds : fds[fd] = Vacant \/
               /\ DescriptorFields \subseteq DOMAIN fds[fd]
               /\ fds[fd].kind # "none"
      BY DEF DescriptorInv, FdTypeInv, Free
    <3>3. \A fd \in Fds : SameDescriptor(fds[fd], fds'[fd])
      BY <1>0, <3>1, <3>2, KindOfDevice, SameDelivered
    <3>4. ASSUME NEW fd \in Fds \ Free' PROVE Waiting(fds'[fd])
      <4>1. fd \in Fds \ Free /\ fds[fd] # Vacant
        BY <1>0, <3>3, <3>4 DEF SameDescriptor, Free
      <4>2. \E j \in Entries : device \in {Card(j), Address(j), Channel(j)}
        BY <2>3 DEF Devices, OfType
      <4> QED BY <1>0, <3>1, <3>2, <4>1, <4>2, WaitingDelivered
    <3> QED BY <1>0, <2>1, <3>1, <3>3, <3>4, FrameKept DEF SameDescriptor
  <2> QED BY <1>4, <2>2, <2>3 DEF Work, FirmwareNext
<1>5. CASE UNCHANGED vars
  <2>1. dealt = {} \/ phase' # "initialise"
    BY <1>0, <1>5 DEF vars, DealtInv
  <2> QED BY <1>1, <1>5, <2>1 DEF vars
<1>6. CASE Die
  BY <1>1, <1>6, DieStep DEF startVars, firmwareVars
<1> QED BY <1>2, <1>3, <1>4, <1>5, <1>6 DEF Next

LEMMA DealtFollow ==
  ASSUME PhaseInv, FrameInv PROVE DealtFromOwnDevice
<1> SUFFICES ASSUME NEW d \in dealt
             PROVE
               LET e == interface_info_array[d.entry]
                   Listeners == {j \in Entries :
                       /\ interface_info_array[j].mode = "listen"
                       /\ interface_info_array[j].base_receive_func
                              = "receive_packet_can_gpu"
                       /\ Channel(j) = Channel(d.entry)}
               IN  CASE e.base_receive_func = "receive_packet_by_mac_addr" ->
                            d.msg.early \/ d.msg.device = Card(d.entry)
                     [] e.base_receive_func = "receive_packet_xy" ->
                            e.fd = Null \/ d.msg.early \/ d.msg.device = Card(d.entry)
                     [] e.base_receive_func = "receive_packet_by_ip_addr" ->
                            d.msg.device = Address(d.entry)
                     [] e.base_receive_func = "receive_packet_can_gpu" ->
                            \/ d.msg.device = Channel(d.entry)
                            \/ d.msg = Zeros /\ Cardinality(Listeners) > 1
  BY DEF DealtFromOwnDevice
<1> DEFINE Listeners == {j \in Entries :
                /\ interface_info_array[j].mode = "listen"
                /\ interface_info_array[j].base_receive_func = "receive_packet_can_gpu"
                /\ Channel(j) = Channel(d.entry)}
<1>1. MsgOf(d.entry, d.msg)
  BY DEF FrameInv, DealtInv
<1>2. IsFiniteSet(Listeners)
  <2>1. Entries = 1..Len(interface_info_array) /\ Len(interface_info_array) \in Nat
    BY DEF PhaseInv, WellMade, Entries
  <2>2. IsFiniteSet(Entries)
    BY <2>1, FS_Interval
  <2> QED BY <2>2, FS_Subset
<1>3. ASSUME NEW i \in Listeners, NEW j \in Listeners, i # j
      PROVE  Cardinality(Listeners) > 1
  <2>1. Cardinality({i, j}) = 2
    <3>1. Cardinality({i}) = 1 /\ IsFiniteSet({i})
      BY FS_Singleton
    <3>2. Cardinality({i} \cup {j}) = Cardinality({i}) + 1
      BY <1>3, <3>1, FS_AddElement
    <3>3. {i} \cup {j} = {i, j}
      OBVIOUS
    <3> QED BY <3>1, <3>2, <3>3
  <2>2. Cardinality({i, j}) <= Cardinality(Listeners)
    <3>1. {i, j} \subseteq Listeners
      BY <1>3
    <3> QED BY <1>2, <3>1, FS_Subset
  <2>3. Cardinality(Listeners) \in Nat
    BY <1>2, FS_CardinalityType
  <2> QED BY <2>1, <2>2, <2>3
<1>4. interface_info_array[d.entry].base_receive_func = "receive_packet_can_gpu" =>
          \/ d.msg.device = Channel(d.entry)
          \/ d.msg = Zeros /\ Cardinality(Listeners) > 1
  <2>1. SUFFICES ASSUME
            interface_info_array[d.entry].base_receive_func = "receive_packet_can_gpu",
            d.msg.device # Channel(d.entry)
        PROVE  d.msg = Zeros /\ Cardinality(Listeners) > 1
    OBVIOUS
  <2>2. /\ d.msg = Zeros
        /\ \E i, j \in Entries :
               /\ i # j
               /\ \A m \in {i, j} :
                      /\ interface_info_array[m].mode = "listen"
                      /\ interface_info_array[m].base_receive_func
                             = "receive_packet_can_gpu"
                      /\ Channel(m) = Channel(d.entry)
    BY <1>1, <2>1 DEF MsgOf
  <2>3. PICK i \in Entries, j \in Entries :
               /\ i # j
               /\ \A m \in {i, j} :
                      /\ interface_info_array[m].mode = "listen"
                      /\ interface_info_array[m].base_receive_func
                             = "receive_packet_can_gpu"
                      /\ Channel(m) = Channel(d.entry)
    BY <2>2
  <2>4. i \in Listeners /\ j \in Listeners
    BY <2>3
  <2> QED BY <1>3, <2>2, <2>3, <2>4
<1> HIDE DEF Listeners
<1>5. interface_info_array[d.entry].base_receive_func \in
          {"receive_packet_by_mac_addr", "receive_packet_xy",
           "receive_packet_by_ip_addr", "receive_packet_can_gpu"}
  BY <1>1 DEF MsgOf
<1> QED BY <1>1, <1>4, <1>5 DEF MsgOf, Listeners

(* However the threads interleave and whatever fails, no message is dealt   *)
(* for an entry that came in on another device, except in the three ways    *)
(* that the property names: no descriptor that was closed and opened again  *)
(* brings a frame of another entry.                                         *)
THEOREM MessagesFromOwnDevice == Spec => []DealtFromOwnDevice
<1>1. PhaseInv /\ FrameInv => DealtFromOwnDevice
  BY DealtFollow
<1> QED BY <1>1, FrameInit, FrameStep, PhaseCorrect, FilesCorrect, CallCorrect,
           DescriptorCorrect, PTL DEF Spec

-----------------------------------------------------------------------------
(* The files of the nodes against the overall file: each reader inverts its *)
(* writer.                                                                  *)

(* What the readers and the writer make of one entry. *)
LoadedEntry(object, linked) ==
    Joined(
      [initialized_flag      |-> -1, fd |-> Null,
       linked_interface_name |-> linked.interface_name,
       linked_node           |-> linked.located_node,
       linked_interface_type |-> linked.interface_type,
       eth_info   |-> OverallEth(object),
       can_info   |-> OverallCan(object),
       rs485_info |-> OverallRs485(object),
       linked_eth_info   |-> OverallEth(linked),
       linked_can_info   |-> OverallCan(linked),
       linked_rs485_info |-> OverallRs485(linked)],
      [f \in OverallStrings |-> object[f]])

WrittenEntry(e) ==
    Joined(
      [eth_info   |-> WrittenEth(e.eth_info),
       can_info   |-> WrittenCan(e.can_info),
       rs485_info |-> WrittenRs485(e.rs485_info),
       linked_eth_info   |-> WrittenEth(e.linked_eth_info),
       linked_can_info   |-> WrittenCan(e.linked_can_info),
       linked_rs485_info |-> WrittenRs485(e.linked_rs485_info)],
      Present([f \in SplitStrings |-> e[f]]))

ReadEntry(o) ==
    Joined(
      [initialized_flag |-> -1, fd |-> Null,
       eth_info   |-> SplitEth(o.eth_info),
       can_info   |-> SplitCan(o.can_info),
       rs485_info |-> SplitRs485(o.rs485_info),
       linked_eth_info   |-> SplitEth(o.linked_eth_info),
       linked_can_info   |-> SplitCan(o.linked_can_info),
       linked_rs485_info |-> SplitRs485(o.linked_rs485_info)],
      [f \in SplitStrings |-> o[f]])

(* The Ethernet settings that come through. *)
Through(info) ==
    IF info.mac_addr = Null THEN [f \in EthFields |-> Absent(f)] ELSE info

AllInfos == {"eth_info", "can_info", "rs485_info",
             "linked_eth_info", "linked_can_info", "linked_rs485_info"}

-----------------------------------------------------------------------------
LEMMA SettingsConverted ==
  ASSUME NEW document \in Documents, Converts(document),
         NEW k \in DOMAIN xmlToJson(document)
  PROVE  \E heading, id :
            /\ xmlToJson(document)[k] = Joined(heading, Settings(document.nodes, id))
            /\ DOMAIN heading = Heading
            /\ get_target_if_value_from_node_tree(document.nodes, id, "interface_type")
                   # Null
<1> DEFINE link == document.links[(k + 1) \div 2]
<1>1. (k + 1) \div 2 \in DOMAIN document.links
  <2>1. k \in 1..2 * Len(document.links)
    BY DEF xmlToJson
  <2>2. DOMAIN document.links = 1..Len(document.links) /\ Len(document.links) \in Nat
    BY ConfigurationAssumption
  <2> QED BY <2>1, <2>2
<1>2. ~LinkCrashes(document.nodes, link)
  BY <1>1 DEF Converts
<1>3. \A id \in {link.send_if_id, link.listened_if_id} :
         get_target_if_value_from_node_tree(document.nodes, id, "interface_type") # Null
  BY <1>2 DEF LinkCrashes
<1>4. xmlToJson(document)[k] = IF k % 2 = 1 THEN TestEntry(document.nodes, link)
                               ELSE ListenEntry(document.nodes, link)
  BY DEF xmlToJson
<1>5. ASSUME NEW a, NEW b, NEW c, NEW d, NEW mode
      PROVE  DOMAIN [mode |-> mode, located_node |-> a, interface_name |-> b,
                     center_interface_name |-> c, linked_interface_name |-> d] = Heading
  BY DEF Heading
<1>6. \E id \in {link.send_if_id, link.listened_if_id} : \E heading :
         /\ xmlToJson(document)[k] = Joined(heading, Settings(document.nodes, id))
         /\ DOMAIN heading = Heading
  <2>1. CASE k % 2 = 1
    <3>1. \E heading :
            /\ TestEntry(document.nodes, link)
                   = Joined(heading, Settings(document.nodes, link.send_if_id))
            /\ DOMAIN heading = Heading
      BY <1>5 DEF TestEntry
    <3> QED BY <1>4, <2>1, <3>1
  <2>2. CASE k % 2 # 1
    <3>1. \E heading :
            /\ ListenEntry(document.nodes, link)
                   = Joined(heading, Settings(document.nodes, link.listened_if_id))
            /\ DOMAIN heading = Heading
      BY <1>5 DEF ListenEntry
    <3> QED BY <1>4, <2>2, <3>1
  <2> QED BY <2>1, <2>2
<1> QED BY <1>3, <1>6

LEMMA ObjectShape ==
  ASSUME NEW document \in Documents, Converts(document),
         NEW k \in DOMAIN xmlToJson(document)
  PROVE  LET object == xmlToJson(document)[k]
         IN  /\ Heading \cup {"interface_type"} \subseteq DOMAIN object
             /\ \A f \in Strings : f \in DOMAIN object => object[f] # Null
             /\ \A g \in Infos : g \in DOMAIN object =>
                    \A f \in DOMAIN object[g] : object[g][f] # Null
<1> DEFINE object == xmlToJson(document)[k]
<1>1. PICK heading, id :
            /\ object = Joined(heading, Settings(document.nodes, id))
            /\ DOMAIN heading = Heading
            /\ get_target_if_value_from_node_tree(document.nodes, id, "interface_type")
                   # Null
  BY SettingsConverted
<1> DEFINE strings == Present(Values(document.nodes, id, Strings))
           info == InfoObject(document.nodes, id)
<1>2. /\ DOMAIN strings \subseteq Strings /\ "interface_type" \in DOMAIN strings
      /\ \A f \in DOMAIN strings : strings[f] # Null
  <2>1. "interface_type" \in Strings
    BY DEF Strings
  <2> QED BY <1>1, <2>1 DEF Present, Values
<1>3. /\ DOMAIN info \subseteq Infos
      /\ \A g \in DOMAIN info : \A f \in DOMAIN info[g] : info[g][f] # Null
  <2>1. DOMAIN info \subseteq Infos
    BY InfoOfType
  <2>2. \A fields : \A f \in DOMAIN Present(Values(document.nodes, id, fields)) :
            Present(Values(document.nodes, id, fields))[f] # Null
    BY DEF Present
  <2> QED BY <2>1, <2>2 DEF InfoObject
<1> HIDE DEF object, strings, info
<1>4. Settings(document.nodes, id) = Joined(strings, info)
  BY DEF Settings, strings, info
<1> DEFINE settings == Joined(strings, info)
<1>5. /\ DOMAIN settings = DOMAIN strings \cup DOMAIN info
      /\ \A x \in DOMAIN strings : settings[x] = strings[x]
      /\ \A x \in DOMAIN info \ DOMAIN strings : settings[x] = info[x]
  BY JoinedAt
<1> HIDE DEF settings
<1>6. /\ DOMAIN object = Heading \cup DOMAIN settings
      /\ \A x \in DOMAIN settings \ Heading : object[x] = settings[x]
  <2>1. object = Joined(heading, settings)
    BY <1>1, <1>4 DEF settings
  <2>2. /\ DOMAIN Joined(heading, settings) = DOMAIN heading \cup DOMAIN settings
        /\ \A x \in DOMAIN settings \ DOMAIN heading :
               Joined(heading, settings)[x] = settings[x]
    BY JoinedAt
  <2> QED BY <1>1, <2>1, <2>2
<1>7. Strings \cap Infos = {} /\ Strings \cap Heading = {} /\ Infos \cap Heading = {}
  BY DEF Strings, Infos, Heading
<1>8. \A f \in Strings : f \in DOMAIN object => f \in DOMAIN strings /\ object[f] = strings[f]
  BY <1>2, <1>3, <1>5, <1>6, <1>7
<1>9. \A g \in Infos : g \in DOMAIN object => g \in DOMAIN info /\ object[g] = info[g]
  BY <1>2, <1>3, <1>5, <1>6, <1>7
<1> QED BY <1>2, <1>3, <1>5, <1>6, <1>8, <1>9 DEF object

(* What is absent because it is not set reads as not set. *)
LEMMA InfoReadBack ==
  ASSUME NEW F, NEW object, \A f \in DOMAIN object : object[f] # Null
  PROVE  LET info == [f \in F |-> Field(object, f, Absent(f))]
         IN  [f \in F |-> Field(Present(info), f, Absent(f))] = info
<1> DEFINE info == [f \in F |-> Field(object, f, Absent(f))]
<1>1. ASSUME NEW f \in F
      PROVE  Field(Present(info), f, Absent(f)) = info[f]
  <2>1. CASE info[f] # Null
    BY <2>1 DEF Present, Field, Has
  <2>2. CASE info[f] = Null
    <3>1. f \notin DOMAIN Present(info)
      BY <2>2 DEF Present
    <3>2. f \notin DOMAIN object
      BY <2>2 DEF Field, Has
    <3>3. info[f] = Absent(f)
      BY <3>2 DEF Field, Has
    <3> QED BY <3>1, <3>3 DEF Field, Has
  <2> QED BY <2>1, <2>2
<1> QED BY <1>1

LEMMA ObjectReadBack ==
  ASSUME NEW object,
         \A g \in Infos : g \in DOMAIN object =>
                    \A f \in DOMAIN object[g] : object[g][f] # Null,
         Plain(object)
  PROVE  /\ SplitEth(WrittenEth(OverallEth(object))) = Through(OverallEth(object))
         /\ SplitCan(WrittenCan(OverallCan(object))) = OverallCan(object)
         /\ SplitRs485(WrittenRs485(OverallRs485(object))) = OverallRs485(object)
<1>0. \A f : ~Has(<< >>, f)
  BY DEF Has
<1>1. ASSUME NEW g \in Infos
      PROVE  \A f \in DOMAIN Field(object, g, << >>) : Field(object, g, << >>)[f] # Null
  BY DEF Field, Has
<1>2. SplitEth(WrittenEth(OverallEth(object))) = Through(OverallEth(object))
  <2> DEFINE info == OverallEth(object)
             eth == Field(object, "eth_info", << >>)
  <2>1. CASE info.mac_addr = Null
    <3>1. SplitEth(<< >>) = [f \in EthFields |-> Absent(f)]
      BY <1>0 DEF SplitEth, Field
    <3> QED BY <2>1, <3>1 DEF WrittenEth, Through
  <2>2. CASE info.mac_addr # Null
    <3>1. \A f \in DOMAIN eth : eth[f] # Null
      BY <1>1 DEF Infos
    <3>2. info = [f \in EthFields |-> Field(eth, f, Absent(f))]
      BY DEF OverallEth
    <3> HIDE DEF eth, info
    <3>3. SplitEth(Present(info)) = info
      BY <3>1, <3>2, InfoReadBack DEF SplitEth
    <3> QED BY <2>2, <3>3 DEF WrittenEth, Through, info
  <2> QED BY <2>1, <2>2
<1>3. SplitCan(WrittenCan(OverallCan(object))) = OverallCan(object)
  <2> DEFINE info == OverallCan(object)
             can == Field(object, "can_info", << >>)
  <2>1. info = [f \in CanFields |-> Field(can, f, Absent(f))]
    BY DEF OverallCan
  <2>2. CASE info.can_id = -1
    <3>1. "can_info" \notin DOMAIN object
      BY <2>2 DEF Plain, OverallCan, Field, Has, CanFields
    <3>2. can = << >>
      BY <3>1 DEF Field, Has
    <3>3. WrittenCan(info) = << >>
      BY <2>2 DEF WrittenCan
    <3> QED BY <2>1, <3>2, <3>3 DEF SplitCan
  <2>3. CASE info.can_id # -1
    <3>1. WrittenCan(info) = info
      BY <2>3 DEF WrittenCan
    <3>2. SplitCan(info) = info
      BY <2>1 DEF SplitCan, Field, Has
    <3> QED BY <3>1, <3>2
  <2> QED BY <2>2, <2>3
<1>4. SplitRs485(WrittenRs485(OverallRs485(object))) = OverallRs485(object)
  <2> DEFINE info == OverallRs485(object)
             rs485 == Field(object, "rs485_info", << >>)
  <2>1. info = [f \in Rs485Fields |-> Field(rs485, f, Absent(f))]
    BY DEF OverallRs485
  <2>2. CASE info.baud_rate = -1
    <3>1. "rs485_info" \notin DOMAIN object
      BY <2>2 DEF Plain, OverallRs485, Field, Has, Rs485Fields
    <3>2. rs485 = << >>
      BY <3>1 DEF Field, Has
    <3>3. WrittenRs485(info) = << >>
      BY <2>2 DEF WrittenRs485
    <3> QED BY <2>1, <3>2, <3>3 DEF SplitRs485
  <2>3. CASE info.baud_rate # -1
    <3>1. \A f \in DOMAIN rs485 : rs485[f] # Null
      BY <1>1 DEF Infos
    <3> HIDE DEF rs485, info
    <3>2. SplitRs485(Present(info)) = info
      BY <2>1, <3>1, InfoReadBack DEF SplitRs485
    <3> QED BY <2>3, <3>2 DEF WrittenRs485, info
  <2> QED BY <2>2, <2>3
<1> QED BY <1>2, <1>3, <1>4

LEMMA LoadedShape ==
  ASSUME NEW object, NEW linked
  PROVE  LET e == LoadedEntry(object, linked)
         IN  /\ DOMAIN e = {"initialized_flag", "fd", "linked_interface_name",
                            "linked_node", "linked_interface_type"}
                           \cup AllInfos \cup OverallStrings
             /\ e = [x \in DOMAIN e |-> e[x]]
             /\ e.initialized_flag = -1 /\ e.fd = Null
             /\ e.linked_interface_name = linked.interface_name
             /\ e.linked_node = linked.located_node
             /\ e.linked_interface_type = linked.interface_type
             /\ e.eth_info = OverallEth(object)
             /\ e.can_info = OverallCan(object)
             /\ e.rs485_info = OverallRs485(object)
             /\ e.linked_eth_info = OverallEth(linked)
             /\ e.linked_can_info = OverallCan(linked)
             /\ e.linked_rs485_info = OverallRs485(linked)
             /\ \A f \in OverallStrings \ {"linked_interface_name"} : e[f] = object[f]
<1> DEFINE settled ==
             [initialized_flag      |-> -1, fd |-> Null,
              linked_interface_name |-> linked.interface_name,
              linked_node           |-> linked.located_node,
              linked_interface_type |-> linked.interface_type,
              eth_info   |-> OverallEth(object),
              can_info   |-> OverallCan(object),
              rs485_info |-> OverallRs485(object),
              linked_eth_info   |-> OverallEth(linked),
              linked_can_info   |-> OverallCan(linked),
              linked_rs485_info |-> OverallRs485(linked)]
           strings == [f \in OverallStrings |-> object[f]]
           e == Joined(settled, strings)
<1>1. LoadedEntry(object, linked) = e
  BY DEF LoadedEntry
<1>2. /\ DOMAIN settled = {"initialized_flag", "fd", "linked_interface_name",
                           "linked_node", "linked_interface_type"} \cup AllInfos
      /\ settled.initialized_flag = -1 /\ settled.fd = Null
      /\ settled.linked_interface_name = linked.interface_name
      /\ settled.linked_node = linked.located_node
      /\ settled.linked_interface_type = linked.interface_type
      /\ settled.eth_info = OverallEth(object)
      /\ settled.can_info = OverallCan(object)
      /\ settled.rs485_info = OverallRs485(object)
      /\ settled.linked_eth_info = OverallEth(linked)
      /\ settled.linked_can_info = OverallCan(linked)
      /\ settled.linked_rs485_info = OverallRs485(linked)
  BY DEF AllInfos
<1>3. DOMAIN strings = OverallStrings /\ \A f \in OverallStrings : strings[f] = object[f]
  OBVIOUS
<1> HIDE DEF settled, strings
<1>4. /\ DOMAIN e = DOMAIN settled \cup DOMAIN strings
      /\ \A x \in DOMAIN settled : e[x] = settled[x]
      /\ \A x \in DOMAIN strings \ DOMAIN settled : e[x] = strings[x]
  BY JoinedAt
<1>5. e = [x \in DOMAIN e |-> e[x]]
  BY DEF Joined
<1> HIDE DEF e
<1>6. \A f \in OverallStrings \ {"linked_interface_name"} : f \notin DOMAIN settled
  BY <1>2 DEF OverallStrings, Strings, AllInfos
<1>7. \A f \in OverallStrings \ {"linked_interface_name"} : e[f] = object[f]
  BY <1>3, <1>4, <1>6
<1>8. \A x \in DOMAIN settled : e[x] = settled[x]
  BY <1>4
<1>9. {"initialized_flag", "fd", "linked_interface_name", "linked_node",
       "linked_interface_type"} \cup AllInfos \subseteq DOMAIN settled
  BY <1>2
<1>10. DOMAIN e = {"initialized_flag", "fd", "linked_interface_name", "linked_node",
                   "linked_interface_type"} \cup AllInfos \cup OverallStrings
  BY <1>2, <1>3, <1>4
<1> QED BY <1>1, <1>2, <1>5, <1>7, <1>8, <1>9, <1>10 DEF AllInfos

LEMMA WrittenShape ==
  ASSUME NEW e, \A f \in SplitStrings : e[f] # Null
  PROVE  LET o == WrittenEntry(e)
         IN  /\ o.eth_info = WrittenEth(e.eth_info)
             /\ o.can_info = WrittenCan(e.can_info)
             /\ o.rs485_info = WrittenRs485(e.rs485_info)
             /\ o.linked_eth_info = WrittenEth(e.linked_eth_info)
             /\ o.linked_can_info = WrittenCan(e.linked_can_info)
             /\ o.linked_rs485_info = WrittenRs485(e.linked_rs485_info)
             /\ SplitStrings \subseteq DOMAIN o
             /\ \A f \in SplitStrings : o[f] = e[f]
<1> DEFINE infos ==
             [eth_info   |-> WrittenEth(e.eth_info),
              can_info   |-> WrittenCan(e.can_info),
              rs485_info |-> WrittenRs485(e.rs485_info),
              linked_eth_info   |-> WrittenEth(e.linked_eth_info),
              linked_can_info   |-> WrittenCan(e.linked_can_info),
              linked_rs485_info |-> WrittenRs485(e.linked_rs485_info)]
           strings == Present([f \in SplitStrings |-> e[f]])
           o == Joined(infos, strings)
<1>1. WrittenEntry(e) = o
  BY DEF WrittenEntry
<1>2. /\ DOMAIN infos = AllInfos
      /\ infos.eth_info = WrittenEth(e.eth_info)
      /\ infos.can_info = WrittenCan(e.can_info)
      /\ infos.rs485_info = WrittenRs485(e.rs485_info)
      /\ infos.linked_eth_info = WrittenEth(e.linked_eth_info)
      /\ infos.linked_can_info = WrittenCan(e.linked_can_info)
      /\ infos.linked_rs485_info = WrittenRs485(e.linked_rs485_info)
  BY DEF AllInfos
<1>3. DOMAIN strings = SplitStrings /\ \A f \in SplitStrings : strings[f] = e[f]
  BY DEF Present
<1> HIDE DEF infos, strings
<1>4. /\ DOMAIN o = DOMAIN infos \cup DOMAIN strings
      /\ \A x \in DOMAIN infos : o[x] = infos[x]
      /\ \A x \in DOMAIN strings \ DOMAIN infos : o[x] = strings[x]
  BY JoinedAt
<1> HIDE DEF o
<1>5. SplitStrings \cap AllInfos = {}
  BY DEF SplitStrings, OverallStrings, Strings, AllInfos
<1>6. \A f \in SplitStrings : o[f] = e[f]
  BY <1>2, <1>3, <1>4, <1>5
<1>7. SplitStrings \subseteq DOMAIN o
  BY <1>3, <1>4
<1>8. /\ o.eth_info = infos.eth_info /\ o.can_info = infos.can_info
      /\ o.rs485_info = infos.rs485_info
      /\ o.linked_eth_info = infos.linked_eth_info
      /\ o.linked_can_info = infos.linked_can_info
      /\ o.linked_rs485_info = infos.linked_rs485_info
  BY <1>2, <1>4 DEF AllInfos
<1> QED BY <1>1, <1>2, <1>6, <1>7, <1>8

LEMMA ReadShape ==
  ASSUME NEW o
  PROVE  LET r == ReadEntry(o)
         IN  /\ DOMAIN r = {"initialized_flag", "fd"} \cup AllInfos \cup SplitStrings
             /\ r = [x \in DOMAIN r |-> r[x]]
             /\ r.initialized_flag = -1 /\ r.fd = Null
             /\ r.eth_info = SplitEth(o.eth_info)
             /\ r.can_info = SplitCan(o.can_info)
             /\ r.rs485_info = SplitRs485(o.rs485_info)
             /\ r.linked_eth_info = SplitEth(o.linked_eth_info)
             /\ r.linked_can_info = SplitCan(o.linked_can_info)
             /\ r.linked_rs485_info = SplitRs485(o.linked_rs485_info)
             /\ \A f \in SplitStrings : r[f] = o[f]
<1> DEFINE settled ==
             [initialized_flag |-> -1, fd |-> Null,
              eth_info   |-> SplitEth(o.eth_info),
              can_info   |-> SplitCan(o.can_info),
              rs485_info |-> SplitRs485(o.rs485_info),
              linked_eth_info   |-> SplitEth(o.linked_eth_info),
              linked_can_info   |-> SplitCan(o.linked_can_info),
              linked_rs485_info |-> SplitRs485(o.linked_rs485_info)]
           strings == [f \in SplitStrings |-> o[f]]
           r == Joined(settled, strings)
<1>1. ReadEntry(o) = r
  BY DEF ReadEntry
<1>2. /\ DOMAIN settled = {"initialized_flag", "fd"} \cup AllInfos
      /\ settled.initialized_flag = -1 /\ settled.fd = Null
      /\ settled.eth_info = SplitEth(o.eth_info)
      /\ settled.can_info = SplitCan(o.can_info)
      /\ settled.rs485_info = SplitRs485(o.rs485_info)
      /\ settled.linked_eth_info = SplitEth(o.linked_eth_info)
      /\ settled.linked_can_info = SplitCan(o.linked_can_info)
      /\ settled.linked_rs485_info = SplitRs485(o.linked_rs485_info)
  BY DEF AllInfos
<1>3. DOMAIN strings = SplitStrings /\ \A f \in SplitStrings : strings[f] = o[f]
  OBVIOUS
<1> HIDE DEF settled, strings
<1>4. /\ DOMAIN r = DOMAIN settled \cup DOMAIN strings
      /\ \A x \in DOMAIN settled : r[x] = settled[x]
      /\ \A x \in DOMAIN strings \ DOMAIN settled : r[x] = strings[x]
  BY JoinedAt
<1>5. r = [x \in DOMAIN r |-> r[x]]
  BY DEF Joined
<1> HIDE DEF r
<1>6. SplitStrings \cap ({"initialized_flag", "fd"} \cup AllInfos) = {}
  BY DEF SplitStrings, OverallStrings, Strings, AllInfos
<1>7. \A f \in SplitStrings : r[f] = o[f]
  BY <1>2, <1>3, <1>4, <1>6
<1>8. DOMAIN r = {"initialized_flag", "fd"} \cup AllInfos \cup SplitStrings
  BY <1>2, <1>3, <1>4
<1>9. \A x \in {"initialized_flag", "fd"} \cup AllInfos : r[x] = settled[x]
  BY <1>2, <1>4
<1> QED BY <1>1, <1>2, <1>5, <1>7, <1>8, <1>9 DEF AllInfos

(* One entry through the file of its node. *)
KeptEntry(e) == [e EXCEPT !.eth_info = Through(@), !.linked_eth_info = Through(@)]

LEMMA EntryReadBack ==
  ASSUME NEW document \in Documents, Converts(document), PlainDocuments,
         NEW k \in DOMAIN xmlToJson(document), NEW l \in DOMAIN xmlToJson(document),
         OverallStrings \subseteq DOMAIN xmlToJson(document)[k]
  PROVE  LET e == LoadedEntry(xmlToJson(document)[k], xmlToJson(document)[l])
         IN  ReadEntry(WrittenEntry(e)) = KeptEntry(e)
<1> DEFINE object == xmlToJson(document)[k]
           linked == xmlToJson(document)[l]
           e == LoadedEntry(object, linked)
           o == WrittenEntry(e)
           Settled == {"initialized_flag", "fd", "linked_interface_name", "linked_node",
                       "linked_interface_type"} \cup AllInfos
<1>1. Plain(object) /\ Plain(linked)
  BY DEF PlainDocuments
<1>2. /\ SplitEth(WrittenEth(OverallEth(object))) = Through(OverallEth(object))
      /\ SplitCan(WrittenCan(OverallCan(object))) = OverallCan(object)
      /\ SplitRs485(WrittenRs485(OverallRs485(object))) = OverallRs485(object)
      /\ SplitEth(WrittenEth(OverallEth(linked))) = Through(OverallEth(linked))
      /\ SplitCan(WrittenCan(OverallCan(linked))) = OverallCan(linked)
      /\ SplitRs485(WrittenRs485(OverallRs485(linked))) = OverallRs485(linked)
  BY <1>1, ObjectShape, ObjectReadBack
<1>3. /\ \A f \in OverallStrings : object[f] # Null
      /\ linked.interface_name # Null /\ linked.located_node # Null
      /\ linked.interface_type # Null
  <2>1. /\ \A f \in Heading : object[f] # Null /\ linked[f] # Null
        /\ Heading = {"mode", "located_node", "interface_name",
                      "center_interface_name", "linked_interface_name"}
    BY <1>1 DEF Plain, Heading
  <2>2. OverallStrings = Strings \cup Heading /\ "interface_type" \in Strings
    BY <2>1 DEF OverallStrings, Strings
  <2>3. /\ \A f \in Strings : f \in DOMAIN object => object[f] # Null
        /\ \A f \in Strings : f \in DOMAIN linked => linked[f] # Null
        /\ "interface_type" \in DOMAIN linked
    BY ObjectShape
  <2> HIDE DEF object, linked
  <2>4. \A f \in OverallStrings : f \in DOMAIN object
    BY DEF object
  <2> QED BY <2>1, <2>2, <2>3, <2>4
<1> HIDE DEF object, linked
<1>4. /\ DOMAIN e = Settled \cup OverallStrings
      /\ e = [x \in DOMAIN e |-> e[x]]
      /\ e.initialized_flag = -1 /\ e.fd = Null
      /\ e.linked_interface_name = linked.interface_name
      /\ e.linked_node = linked.located_node
      /\ e.linked_interface_type = linked.interface_type
      /\ e.eth_info = OverallEth(object)
      /\ e.can_info = OverallCan(object)
      /\ e.rs485_info = OverallRs485(object)
      /\ e.linked_eth_info = OverallEth(linked)
      /\ e.linked_can_info = OverallCan(linked)
      /\ e.linked_rs485_info = OverallRs485(linked)
      /\ \A f \in OverallStrings \ {"linked_interface_name"} : e[f] = object[f]
  BY LoadedShape
<1> HIDE DEF e
<1>5. \A f \in SplitStrings : f \in DOMAIN e /\ e[f] # Null
  BY <1>3, <1>4 DEF SplitStrings, OverallStrings, Strings
<1>6. /\ o.eth_info = WrittenEth(e.eth_info)
      /\ o.can_info = WrittenCan(e.can_info)
      /\ o.rs485_info = WrittenRs485(e.rs485_info)
      /\ o.linked_eth_info = WrittenEth(e.linked_eth_info)
      /\ o.linked_can_info = WrittenCan(e.linked_can_info)
      /\ o.linked_rs485_info = WrittenRs485(e.linked_rs485_info)
      /\ \A f \in SplitStrings : o[f] = e[f]
  BY <1>5, WrittenShape
<1> HIDE DEF o
<1> DEFINE r == ReadEntry(o)
<1>7. /\ DOMAIN r = {"initialized_flag", "fd"} \cup AllInfos \cup SplitStrings
      /\ r = [x \in DOMAIN r |-> r[x]]
      /\ r.initialized_flag = -1 /\ r.fd = Null
      /\ r.eth_info = SplitEth(o.eth_info)
      /\ r.can_info = SplitCan(o.can_info)
      /\ r.rs485_info = SplitRs485(o.rs485_info)
      /\ r.linked_eth_info = SplitEth(o.linked_eth_info)
      /\ r.linked_can_info = SplitCan(o.linked_can_info)
      /\ r.linked_rs485_info = SplitRs485(o.linked_rs485_info)
      /\ \A f \in SplitStrings : r[f] = o[f]
  BY ReadShape
<1> HIDE DEF r
<1>8. DOMAIN r = DOMAIN e
  BY <1>4, <1>7 DEF SplitStrings, OverallStrings
<1>9. \A x \in DOMAIN e : r[x] = IF x \in {"eth_info", "linked_eth_info"}
                                 THEN Through(e[x]) ELSE e[x]
  <2>1. SplitStrings \cap AllInfos = {}
    BY DEF SplitStrings, OverallStrings, Strings, AllInfos
  <2>2. \A x \in SplitStrings : r[x] = e[x] /\ x \notin {"eth_info", "linked_eth_info"}
    BY <1>6, <1>7, <2>1 DEF AllInfos
  <2>3. /\ r.eth_info = Through(e.eth_info)
        /\ r.linked_eth_info = Through(e.linked_eth_info)
    BY <1>2, <1>4, <1>6, <1>7
  <2>4. /\ r.can_info = e.can_info /\ r.rs485_info = e.rs485_info
        /\ r.linked_can_info = e.linked_can_info
        /\ r.linked_rs485_info = e.linked_rs485_info
    BY <1>2, <1>4, <1>6, <1>7
  <2>5. r.initialized_flag = e.initialized_flag /\ r.fd = e.fd
    BY <1>4, <1>7
  <2>6. \A x \in DOMAIN e : x \in {"initialized_flag", "fd"} \cup AllInfos \cup SplitStrings
    BY <1>7, <1>8
  <2> QED BY <2>2, <2>3, <2>4, <2>5, <2>6 DEF AllInfos
<1>10. /\ DOMAIN KeptEntry(e) = DOMAIN e
       /\ KeptEntry(e) = [x \in DOMAIN e |-> KeptEntry(e)[x]]
       /\ \A x \in DOMAIN e :
              KeptEntry(e)[x] = IF x \in {"eth_info", "linked_eth_info"}
                                THEN Through(e[x]) ELSE e[x]
  <2>1. {"eth_info", "linked_eth_info"} \subseteq DOMAIN e
    BY <1>4 DEF AllInfos
  <2> QED BY <2>1, <1>4 DEF KeptEntry
<1> QED BY <1>7, <1>8, <1>9, <1>10 DEF r, o, e, object, linked

(* The table made from the overall file has the entries of the node, each   *)
(* made from an object of its own, and one for every object.                *)
LEMMA LoadedAt ==
  ASSUME NEW document \in Documents, NEW n
  PROVE  LET array == xmlToJson(document)
             own == OfNode(n, array)
             table == read_interface_info_array_from_overall_json(n, array)
         IN  /\ DOMAIN table = 1..Cardinality(own) /\ Len(table) \in Nat
             /\ own = {} => table = << >>
             /\ \A c \in DOMAIN table : \E k \in own :
                    /\ LinkedObject(array, array[k]) \in {array[l] : l \in DOMAIN array}
                    /\ table[c] = LoadedEntry(array[k], LinkedObject(array, array[k]))
             /\ \A k \in own : \E c \in DOMAIN table :
                    table[c] = LoadedEntry(array[k], LinkedObject(array, array[k]))
<1> DEFINE array == xmlToJson(document)
           own == OfNode(n, array)
           table == read_interface_info_array_from_overall_json(n, array)
           Rank(j) == Cardinality({h \in own : h <= j})
           K(c) == CHOOSE j \in own : Rank(j) = c
           Made(k) == LoadedEntry(array[k], LinkedObject(array, array[k]))
<1>1. PICK N \in Nat : own \in SUBSET (1..N) /\ DOMAIN array = 1..N /\ Len(array) = N
  <2>1. DOMAIN array = 1..2 * Len(document.links) /\ 2 * Len(document.links) \in Nat
    BY ConfigurationAssumption DEF xmlToJson
  <2> HIDE DEF array
  <2>2. own \subseteq DOMAIN array
    BY DEF OfNode
  <2>3. Len(array) = 2 * Len(document.links)
    BY <2>1
  <2> QED BY <2>1, <2>2, <2>3
<1>2. IsFiniteSet(own) /\ Cardinality(own) \in Nat
  <2>1. IsFiniteSet(1..N)
    BY FS_Interval
  <2>2. IsFiniteSet(own)
    BY <1>1, <2>1, FS_Subset
  <2> QED BY <2>2, FS_CardinalityType
<1>3. table = [c \in 1..Cardinality(own) |-> Made(K(c))]
  BY DEF read_interface_info_array_from_overall_json,
         update_interface_cnt_from_overall_json, LoadedEntry
<1>4. ASSUME NEW j \in own
      PROVE  Rank(j) \in 1..Cardinality(own)
  <2> DEFINE upto == {h \in own : h <= j}
  <2>1. upto \in SUBSET own /\ j \in upto
    BY <1>1
  <2> HIDE DEF upto, own
  <2>2. /\ IsFiniteSet(upto) /\ Cardinality(upto) \in Nat
        /\ Cardinality(upto) <= Cardinality(own)
    BY <1>2, <2>1, FS_Subset, FS_CardinalityType
  <2>3. Cardinality(upto) # 0
    BY <2>1, <2>2, FS_EmptySet
  <2>4. Rank(j) = Cardinality(upto)
    BY DEF upto
  <2> QED BY <1>2, <2>2, <2>3, <2>4
<1>5. ASSUME NEW i \in own, NEW j \in own, i < j
      PROVE  Rank(i) # Rank(j)
  <2> DEFINE uptoI == {h \in own : h <= i}
             uptoJ == {h \in own : h <= j}
  <2>1. \A h \in own : h \in Int
    BY <1>1
  <2>2. uptoI \subseteq uptoJ /\ j \in uptoJ /\ j \notin uptoI
    BY <1>5, <2>1
  <2>3. IsFiniteSet(uptoJ)
    <3>1. uptoJ \in SUBSET own
      OBVIOUS
    <3> QED BY <1>2, <3>1, FS_Subset
  <2> HIDE DEF uptoI, uptoJ
  <2>4. Cardinality(uptoI) < Cardinality(uptoJ)
    <3>1. uptoI # uptoJ
      BY <2>2
    <3> QED BY <2>2, <2>3, <3>1, FS_Subset, FS_CardinalityType
  <2>5. IsFiniteSet(uptoI) /\ Cardinality(uptoI) \in Nat /\ Cardinality(uptoJ) \in Nat
    BY <2>2, <2>3, FS_Subset, FS_CardinalityType
  <2>6. Rank(i) = Cardinality(uptoI) /\ Rank(j) = Cardinality(uptoJ)
    BY DEF uptoI, uptoJ
  <2> QED BY <2>4, <2>5, <2>6
<1>6. ASSUME NEW i \in own, NEW j \in own, Rank(i) = Rank(j)
      PROVE  i = j
  <2>1. i \in Int /\ j \in Int
    BY <1>1
  <2>2. ~(i < j) /\ ~(j < i)
    <3> HIDE DEF own, Rank
    <3> QED BY <1>5, <1>6
  <2> QED BY <2>1, <2>2
<1>7. ASSUME NEW c \in 1..Cardinality(own)
      PROVE  K(c) \in own /\ Rank(K(c)) = c
  <2>1. \E j \in own : Rank(j) = c
    <3> HIDE DEF own
    <3> QED BY <1>1, RankExists
  <2> HIDE DEF own, array, Rank
  <2> QED BY <2>1
<1>8. \A j \in own : K(Rank(j)) = j
  <2> HIDE DEF own, array, Rank, K
  <2> QED BY <1>4, <1>6, <1>7
<1>9. ASSUME NEW k \in own
      PROVE  LinkedObject(array, array[k]) \in {array[l] : l \in DOMAIN array}
  <2> DEFINE found == {j \in DOMAIN array :
                           array[j].interface_name = array[k].linked_interface_name}
  <2>1. CASE found = {}
    <3>1. LinkedObject(array, array[k]) = array[Len(array)]
      BY <2>1 DEF LinkedObject
    <3>2. Len(array) \in DOMAIN array
      <4>1. k \in 1..N
        BY <1>1
      <4> QED BY <1>1, <4>1
    <3> QED BY <3>1, <3>2
  <2>2. CASE found # {}
    <3>1. LinkedObject(array, array[k]) = array[Least(found)]
      BY <2>2 DEF LinkedObject
    <3>2. found \subseteq Nat
      BY <1>1
    <3>3. Least(found) \in found
      BY <2>2, <3>2, LeastIn
    <3> QED BY <3>1, <3>3
  <2> QED BY <2>1, <2>2
<1>10. own = {} => table = << >>
  <2> HIDE DEF own, table, K, Made
  <2>1. own = {} => Cardinality(own) = 0
    BY FS_EmptySet
  <2>2. ASSUME own = {} PROVE DOMAIN table = {} /\ table = [x \in {} |-> table[x]]
    BY <1>3, <2>1, <2>2
  <2> QED BY <2>2
<1> HIDE DEF own, table, K, Rank, array, Made
<1>11. DOMAIN table = 1..Cardinality(own) /\ Len(table) \in Nat
  <2>1. DOMAIN table = 1..Cardinality(own)
    BY <1>3
  <2>2. Len(table) = Cardinality(own)
    BY <2>1, <1>2
  <2> QED BY <2>1, <2>2, <1>2
<1>12. ASSUME NEW c \in DOMAIN table
       PROVE  \E k \in own :
                 /\ LinkedObject(array, array[k]) \in {array[l] : l \in DOMAIN array}
                 /\ table[c] = Made(k)
  BY <1>3, <1>7, <1>9, <1>11
<1>13. ASSUME NEW k \in own
       PROVE  \E c \in DOMAIN table : table[c] = Made(k)
  BY <1>3, <1>4, <1>8, <1>11
<1> QED BY <1>10, <1>11, <1>12, <1>13 DEF own, table, array, Made

-----------------------------------------------------------------------------
(* A file of a node is what the writer made of the table loaded from its    *)
(* origin, and the origin is what was made of a document.                   *)
Divided(n) ==
    split[n].is = "array" =>
        \E document \in Documents :
            /\ Converts(document)
            /\ origin[n].is = "array" /\ origin[n].array = xmlToJson(document)
            /\ OverallLoads(n, origin[n].array)
            /\ split[n].array = write_interface_info_array_to_json(
                   read_interface_info_array_from_overall_json(n, origin[n].array))

SplitInv == /\ DOMAIN split = Nodes /\ DOMAIN origin = Nodes
            /\ \A n \in Nodes : Divided(n)

LEMMA SplitInit == Init => SplitInv
<1>1. NoFile.is # "array"
  BY DEF NoFile
<1> QED BY <1>1 DEF Init, ConfigInit, SplitInv, Divided

LEMMA SplitStep == FilesInv /\ SplitInv /\ [Next]_vars => SplitInv'
<1> SUFFICES ASSUME FilesInv, SplitInv, [Next]_vars PROVE SplitInv'
  OBVIOUS
<1>1. CASE UNCHANGED <<split, origin>>
  BY <1>1 DEF SplitInv, Divided
<1>2. CASE Touch
  <2>1. Empty.is # "array"
    BY DEF Empty
  <2>2. UNCHANGED origin
    BY <1>2 DEF Touch
  <2>3. \A n \in Nodes : split'[n] = split[n] \/ split'[n] = Empty
    BY <1>2 DEF Touch, SplitInv
  <2>4. DOMAIN split' = DOMAIN split
    <3>1. ASSUME NEW m \in Nodes
          PROVE  DOMAIN [split EXCEPT ![m] = Empty] = DOMAIN split
      OBVIOUS
    <3> QED BY <1>2, <3>1 DEF Touch
  <2> QED BY <2>1, <2>2, <2>3, <2>4 DEF SplitInv, Divided
<1>3. ASSUME NEW document \in Documents, XmlToJson(document) PROVE SplitInv'
  BY <1>1, <1>3 DEF XmlToJson
<1>4. ASSUME NEW m \in Nodes, split_into_target(m) PROVE SplitInv'
  <2> DEFINE table == start_info_manager_from_overall_json(m)
             file == Json(write_interface_info_array_to_json(table))
  <2>1. \/ UNCHANGED <<split, origin>>
        \/ /\ table # Null /\ Parses(overall)
           /\ split' = [split EXCEPT ![m] = file]
           /\ origin' = [origin EXCEPT ![m] = overall]
    BY <1>4 DEF split_into_target
  <2>2. CASE /\ table # Null /\ Parses(overall)
             /\ split' = [split EXCEPT ![m] = file]
             /\ origin' = [origin EXCEPT ![m] = overall]
    <3>1. overall.is = "array"
      BY <2>2 DEF Parses
    <3>2. PICK document \in Documents :
             Converts(document) /\ overall.array = xmlToJson(document)
      BY <3>1 DEF FilesInv
    <3> DEFINE array == overall.array
    <3>3. /\ OverallLoads(m, array)
          /\ table = read_interface_info_array_from_overall_json(m, array)
      <4>1. CASE m \notin get_all_node_name_from_overall_json(array)
        <5>1. OfNode(m, array) = {}
          BY <4>1 DEF OfNode, get_all_node_name_from_overall_json
        <5>2. read_interface_info_array_from_overall_json(m, array) = << >>
          BY <3>2, <5>1, LoadedAt
        <5>3. table = << >>
          BY <2>2, <4>1 DEF start_info_manager_from_overall_json
        <5> QED BY <5>1, <5>2, <5>3 DEF OverallLoads
      <4>2. CASE m \in get_all_node_name_from_overall_json(array)
        BY <2>2, <4>2 DEF start_info_manager_from_overall_json
      <4> QED BY <4>1, <4>2
    <3>4. file.array = write_interface_info_array_to_json(table)
      BY DEF Json
    <3>5. /\ \A n \in Nodes \ {m} : split'[n] = split[n] /\ origin'[n] = origin[n]
          /\ split'[m] = file /\ origin'[m] = overall
          /\ DOMAIN split' = Nodes /\ DOMAIN origin' = Nodes
      BY <2>2 DEF SplitInv
    <3> HIDE DEF file, table
    <3>6. Divided(m)'
      BY <3>1, <3>2, <3>3, <3>4, <3>5 DEF Divided
    <3>7. \A n \in Nodes \ {m} : Divided(n)'
      BY <3>5 DEF SplitInv, Divided
    <3> QED BY <3>5, <3>6, <3>7 DEF SplitInv
  <2> QED BY <1>1, <2>1, <2>2
<1>5. CASE Configure
  <2>1. ASSUME NEW n \in Nodes,
               TLAtOneNodeFromSplitJsonFile(n) \/ TLAtOneNodeFromOverallJsonFile(n)
        PROVE  UNCHANGED configVars
    BY <2>1 DEF TLAtOneNodeFromSplitJsonFile, TLAtOneNodeFromOverallJsonFile, Run
  <2>2. UNCHANGED configVars => SplitInv'
    BY <1>1 DEF configVars
  <2> QED BY <1>2, <1>3, <1>4, <1>5, <2>1, <2>2 DEF Configure, ConfigNext
<1>6. CASE Start \/ Work \/ Die \/ UNCHANGED vars
  BY <1>1, <1>6 DEF Start, Work, Die, vars, configVars
<1> QED BY <1>5, <1>6 DEF Next

LEMMA SplitCorrect == Spec => []SplitInv
<1> QED BY FilesCorrect, SplitInit, SplitStep, PTL DEF Spec

(* What the file of a node loads: the entries of its origin, as far as they *)
(* come through.                                                            *)
LEMMA OwnTable ==
  ASSUME PlainDocuments, SplitInv, NEW n \in Nodes, split[n].is = "array"
  PROVE  LET own  == read_interface_info_array_from_split_json(split[n].array)
             from == read_interface_info_array_from_overall_json(n, origin[n].array)
         IN  /\ DOMAIN own = DOMAIN from
             /\ \A c \in DOMAIN own : own[c] = KeptEntry(from[c])
<1>1. PICK document \in Documents :
            /\ Converts(document)
            /\ origin[n].array = xmlToJson(document)
            /\ OverallLoads(n, origin[n].array)
            /\ split[n].array = write_interface_info_array_to_json(
                   read_interface_info_array_from_overall_json(n, origin[n].array))
  BY DEF SplitInv, Divided
<1> DEFINE array == xmlToJson(document)
           from == read_interface_info_array_from_overall_json(n, array)
           written == write_interface_info_array_to_json(from)
           own == read_interface_info_array_from_split_json(written)
<1>2. written = [c \in DOMAIN from |-> WrittenEntry(from[c])]
  <2> HIDE DEF from
  <2> QED BY DEF write_interface_info_array_to_json, WrittenEntry
<1>3. own = [c \in DOMAIN written |-> ReadEntry(written[c])]
  <2> HIDE DEF written
  <2> QED BY DEF read_interface_info_array_from_split_json, ReadEntry
<1>4. ASSUME NEW c \in DOMAIN from
      PROVE  ReadEntry(WrittenEntry(from[c])) = KeptEntry(from[c])
  <2>1. PICK k \in OfNode(n, array) :
           /\ LinkedObject(array, array[k]) \in {array[l] : l \in DOMAIN array}
           /\ from[c] = LoadedEntry(array[k], LinkedObject(array, array[k]))
    <3> DEFINE rows == OfNode(n, array)
    <3>1. \A d \in DOMAIN from : \E k \in rows :
             /\ LinkedObject(array, array[k]) \in {array[l] : l \in DOMAIN array}
             /\ from[d] = LoadedEntry(array[k], LinkedObject(array, array[k]))
      BY LoadedAt
    <3> HIDE DEF rows, from
    <3> QED BY <3>1 DEF rows
  <2>2. PICK l \in DOMAIN array : LinkedObject(array, array[k]) = array[l]
    BY <2>1
  <2>3. k \in DOMAIN array
    BY DEF OfNode
  <2>4. OverallStrings \subseteq DOMAIN array[k]
    BY <1>1 DEF OverallLoads
  <2> QED BY <1>1, <2>1, <2>2, <2>3, <2>4, EntryReadBack
<1> HIDE DEF from, written, own
<1>5. /\ DOMAIN own = DOMAIN from
      /\ \A c \in DOMAIN own : own[c] = KeptEntry(from[c])
  BY <1>2, <1>3, <1>4
<1> QED BY <1>1, <1>5 DEF from, written, own, array

LEMMA SplitFollows ==
  ASSUME PlainDocuments
  PROVE  SplitInv => SplitAgrees
<1> SUFFICES ASSUME SplitInv, NEW n \in Nodes, split[n].is = "array"
             PROVE  LET own  == read_interface_info_array_from_split_json(split[n].array)
                        from == read_interface_info_array_from_overall_json(
                                    n, origin[n].array)
                    IN  /\ DOMAIN own = DOMAIN from
                        /\ \A c \in DOMAIN own : own[c] = KeptEntry(from[c])
  BY DEF SplitAgrees, KeptEntry, Through
<1> QED BY OwnTable

(* A node loads from its own file what it would load from the overall file  *)
(* it was made from: split_into_target and its reader lose nothing but the  *)
(* Ethernet settings without a MAC address, whatever the documents, if no   *)
(* number in them is the mark of one that is not set.                       *)
THEOREM SplitMatches ==
  ASSUME PlainDocuments
  PROVE  Spec => []SplitAgrees
<1> QED BY SplitCorrect, SplitFollows, PTL

-----------------------------------------------------------------------------
(* The two ends of a link: an object stands next to that of its peer.       *)
LEMMA HeadingOf ==
  ASSUME NEW document, NEW k \in DOMAIN xmlToJson(document)
  PROVE  LET link == document.links[(k + 1) \div 2]
             nodes == document.nodes
             tester == concatenateStringsWithDelimiter(nodes, link.send_if_id, "test")
             listener ==
                 concatenateStringsWithDelimiter(nodes, link.listened_if_id, "listen")
             object == xmlToJson(document)[k]
         IN  /\ k % 2 = 1 => /\ object.mode = "test"
                             /\ object.interface_name = tester
                             /\ object.linked_interface_name = listener
             /\ k % 2 # 1 => /\ object.mode = "listen"
                             /\ object.interface_name = listener
                             /\ object.linked_interface_name = tester
<1> DEFINE link == document.links[(k + 1) \div 2]
           nodes == document.nodes
           tester == concatenateStringsWithDelimiter(nodes, link.send_if_id, "test")
           listener ==
                 concatenateStringsWithDelimiter(nodes, link.listened_if_id, "listen")
<1>1. ASSUME NEW mode, NEW place, NEW name, NEW center, NEW peer, NEW settings
      PROVE  LET heading == [mode |-> mode, located_node |-> place,
                             interface_name |-> name, center_interface_name |-> center,
                             linked_interface_name |-> peer]
                 object == Joined(heading, settings)
             IN  /\ object.mode = mode
                 /\ object.interface_name = name
                 /\ object.linked_interface_name = peer
  <2> DEFINE heading == [mode |-> mode, located_node |-> place,
                         interface_name |-> name, center_interface_name |-> center,
                         linked_interface_name |-> peer]
  <2>1. /\ {"mode", "interface_name", "linked_interface_name"} \subseteq DOMAIN heading
        /\ heading.mode = mode /\ heading.interface_name = name
        /\ heading.linked_interface_name = peer
    OBVIOUS
  <2> HIDE DEF heading
  <2>2. \A x \in DOMAIN heading : Joined(heading, settings)[x] = heading[x]
    BY JoinedAt
  <2> QED BY <2>1, <2>2 DEF heading
<1>2. /\ TestEntry(nodes, link).mode = "test"
      /\ TestEntry(nodes, link).interface_name = tester
      /\ TestEntry(nodes, link).linked_interface_name = listener
  <2> HIDE DEF link, nodes
  <2> QED BY <1>1 DEF TestEntry
<1>3. /\ ListenEntry(nodes, link).mode = "listen"
      /\ ListenEntry(nodes, link).interface_name = listener
      /\ ListenEntry(nodes, link).linked_interface_name = tester
  <2> HIDE DEF link, nodes
  <2> QED BY <1>1 DEF ListenEntry
<1>4. xmlToJson(document)[k] = IF k % 2 = 1 THEN TestEntry(nodes, link)
                               ELSE ListenEntry(nodes, link)
  BY DEF xmlToJson
<1> QED BY <1>2, <1>3, <1>4

LEMMA PeerOf ==
  ASSUME NEW document \in Documents, NEW k \in DOMAIN xmlToJson(document)
  PROVE  \E l \in DOMAIN xmlToJson(document) :
            LET a == xmlToJson(document)[k]
                b == xmlToJson(document)[l]
            IN  /\ a.linked_interface_name = b.interface_name
                /\ b.linked_interface_name = a.interface_name
                /\ {a.mode, b.mode} = {"test", "listen"}
<1> DEFINE N == Len(document.links)
           l == IF k % 2 = 1 THEN k + 1 ELSE k - 1
           array == xmlToJson(document)
<1>1. N \in Nat /\ DOMAIN array = 1..2 * N /\ k \in 1..2 * N
  BY ConfigurationAssumption DEF xmlToJson
<1>2. /\ l \in 1..2 * N
      /\ (l + 1) \div 2 = (k + 1) \div 2
      /\ k % 2 = 1 <=> l % 2 # 1
  <2> HIDE DEF N
  <2> QED BY <1>1
<1>3. l \in DOMAIN array
  BY <1>1, <1>2
<1> HIDE DEF l, array
<1>4. /\ array[k].linked_interface_name = array[l].interface_name
      /\ array[l].linked_interface_name = array[k].interface_name
      /\ {array[k].mode, array[l].mode} = {"test", "listen"}
  <2> DEFINE link == document.links[(k + 1) \div 2]
             tester == concatenateStringsWithDelimiter(
                           document.nodes, link.send_if_id, "test")
             listener == concatenateStringsWithDelimiter(
                           document.nodes, link.listened_if_id, "listen")
             Test(object) == /\ object.mode = "test"
                             /\ object.interface_name = tester
                             /\ object.linked_interface_name = listener
             Listen(object) == /\ object.mode = "listen"
                               /\ object.interface_name = listener
                               /\ object.linked_interface_name = tester
  <2>1. /\ k % 2 = 1 => Test(array[k])
        /\ k % 2 # 1 => Listen(array[k])
    BY HeadingOf DEF array
  <2>2. /\ l % 2 = 1 => Test(array[l])
        /\ l % 2 # 1 => Listen(array[l])
    BY <1>2, <1>3, HeadingOf DEF array
  <2>3. \/ Test(array[k]) /\ Listen(array[l])
        \/ Listen(array[k]) /\ Test(array[l])
    BY <1>2, <2>1, <2>2
  <2> HIDE DEF tester, listener
  <2> QED BY <2>3
<1> QED BY <1>3, <1>4 DEF array

(* Where no two objects share a name, the one found is the only one.        *)
LEMMA LinkedFound ==
  ASSUME NEW document \in Documents, NEW k \in DOMAIN xmlToJson(document),
         NEW l \in DOMAIN xmlToJson(document),
         \A i, j \in DOMAIN xmlToJson(document) :
             xmlToJson(document)[i].interface_name = xmlToJson(document)[j].interface_name
                 => i = j,
         xmlToJson(document)[k].linked_interface_name
             = xmlToJson(document)[l].interface_name
  PROVE  LinkedObject(xmlToJson(document), xmlToJson(document)[k])
             = xmlToJson(document)[l]
<1> DEFINE array == xmlToJson(document)
           found == {j \in DOMAIN array :
                         array[j].interface_name = array[k].linked_interface_name}
<1>1. found = {l}
  <2> HIDE DEF array
  <2> QED BY DEF array
<1>2. Least(found) \in found
  <2>1. DOMAIN array \subseteq Nat
    BY ConfigurationAssumption DEF xmlToJson
  <2>2. found \subseteq Nat /\ found # {}
    BY <1>1, <2>1
  <2> HIDE DEF found
  <2> QED BY <2>2, LeastIn
<1>3. LinkedObject(array, array[k]) = array[IF found = {} THEN Len(array) ELSE Least(found)]
  BY DEF LinkedObject
<1> HIDE DEF found, array
<1> QED BY <1>1, <1>2, <1>3 DEF array

LEMMA KeptShape ==
  ASSUME NEW object, NEW linked
  PROVE  LET e == KeptEntry(LoadedEntry(object, linked))
         IN  /\ e.mode = object.mode
             /\ e.interface_name = object.interface_name
             /\ e.linked_interface_name = linked.interface_name
             /\ e.linked_node = linked.located_node
             /\ e.eth_info = Through(OverallEth(object))
             /\ e.can_info = OverallCan(object)
             /\ e.rs485_info = OverallRs485(object)
             /\ e.linked_eth_info = Through(OverallEth(linked))
             /\ e.linked_can_info = OverallCan(linked)
             /\ e.linked_rs485_info = OverallRs485(linked)
<1> DEFINE e == LoadedEntry(object, linked)
<1>1. /\ DOMAIN e = {"initialized_flag", "fd", "linked_interface_name",
                     "linked_node", "linked_interface_type"}
                    \cup AllInfos \cup OverallStrings
      /\ e = [x \in DOMAIN e |-> e[x]]
      /\ e.initialized_flag = -1 /\ e.fd = Null
      /\ e.linked_interface_name = linked.interface_name
      /\ e.linked_node = linked.located_node
      /\ e.linked_interface_type = linked.interface_type
      /\ e.eth_info = OverallEth(object)
      /\ e.can_info = OverallCan(object)
      /\ e.rs485_info = OverallRs485(object)
      /\ e.linked_eth_info = OverallEth(linked)
      /\ e.linked_can_info = OverallCan(linked)
      /\ e.linked_rs485_info = OverallRs485(linked)
      /\ \A f \in OverallStrings \ {"linked_interface_name"} : e[f] = object[f]
  BY LoadedShape
<1> HIDE DEF e
<1>2. /\ {"mode", "interface_name", "linked_interface_name"} \subseteq DOMAIN e
      /\ {"linked_node"} \cup AllInfos \subseteq DOMAIN e
      /\ e.mode = object.mode /\ e.interface_name = object.interface_name
  BY <1>1 DEF OverallStrings
<1>3. \A x \in DOMAIN e :
         KeptEntry(e)[x] = IF x \in {"eth_info", "linked_eth_info"}
                           THEN Through(e[x]) ELSE e[x]
  <2>1. {"eth_info", "linked_eth_info"} \subseteq DOMAIN e
    BY <1>2 DEF AllInfos
  <2> QED BY <2>1 DEF KeptEntry
<1> QED BY <1>1, <1>2, <1>3 DEF e, AllInfos

LEMMA RowOf ==
  ASSUME NEW document \in Documents, NEW n,
         NEW c \in DOMAIN read_interface_info_array_from_overall_json(
                             n, xmlToJson(document))
  PROVE  \E k \in OfNode(n, xmlToJson(document)) :
            read_interface_info_array_from_overall_json(n, xmlToJson(document))[c]
                = LoadedEntry(xmlToJson(document)[k],
                      LinkedObject(xmlToJson(document), xmlToJson(document)[k]))
<1> DEFINE array == xmlToJson(document)
           own == OfNode(n, array)
           table == read_interface_info_array_from_overall_json(n, array)
<1>1. \A d \in DOMAIN table : \E k \in own :
         /\ LinkedObject(array, array[k]) \in {array[l] : l \in DOMAIN array}
         /\ table[d] = LoadedEntry(array[k], LinkedObject(array, array[k]))
  BY LoadedAt
<1> HIDE DEF own, table, array
<1> QED BY <1>1 DEF own, table, array

LEMMA PeersFollow ==
  ASSUME PlainDocuments
  PROVE  SplitInv => PeersAgree
<1> DEFINE Own(n) == read_interface_info_array_from_split_json(split[n].array)
           Read(n, array) == read_interface_info_array_from_overall_json(n, array)
<1> SUFFICES ASSUME SplitInv, NEW m \in Nodes, NEW n \in Nodes,
                    split[m].is = "array", split[n].is = "array", origin[m] = origin[n],
                    \A i, j \in DOMAIN origin[m].array :
                        origin[m].array[i].interface_name
                            = origin[m].array[j].interface_name => i = j,
                    NEW i \in DOMAIN Own(m), Own(m)[i].linked_node = n
             PROVE  \E j \in DOMAIN Own(n) :
                        LET a == Own(m)[i]
                            b == Own(n)[j]
                        IN  /\ a.linked_interface_name = b.interface_name
                            /\ b.linked_interface_name = a.interface_name
                            /\ b.linked_node = m
                            /\ {a.mode, b.mode} = {"test", "listen"}
                            /\ a.linked_eth_info = b.eth_info
                            /\ a.linked_can_info = b.can_info
                            /\ a.linked_rs485_info = b.rs485_info
  BY DEF PeersAgree
<1>1. PICK document \in Documents : origin[m].array = xmlToJson(document)
  BY DEF SplitInv, Divided
<1> DEFINE array == xmlToJson(document)
<1>2. /\ DOMAIN Own(m) = DOMAIN Read(m, array)
      /\ Own(m)[i] = KeptEntry(Read(m, array)[i])
  BY <1>1, OwnTable
<1>3. /\ DOMAIN Own(n) = DOMAIN Read(n, array)
      /\ \A j \in DOMAIN Own(n) : Own(n)[j] = KeptEntry(Read(n, array)[j])
  <2> DEFINE other == origin[n].array
  <2>1. /\ DOMAIN Own(n) = DOMAIN Read(n, other)
        /\ \A j \in DOMAIN Own(n) : Own(n)[j] = KeptEntry(Read(n, other)[j])
    BY OwnTable
  <2>2. other = array
    BY <1>1
  <2> HIDE DEF other, array, Own, Read
  <2> QED BY <2>1, <2>2
<1> HIDE DEF Own, Read
<1>4. PICK k \in OfNode(m, array) :
         Read(m, array)[i] = LoadedEntry(array[k], LinkedObject(array, array[k]))
  <2>1. i \in DOMAIN Read(m, array)
    BY <1>2
  <2> QED BY <2>1, RowOf DEF Read
<1>5. k \in DOMAIN array /\ array[k].located_node = m
  BY DEF OfNode
<1>6. PICK l \in DOMAIN array :
         /\ array[k].linked_interface_name = array[l].interface_name
         /\ array[l].linked_interface_name = array[k].interface_name
         /\ {array[k].mode, array[l].mode} = {"test", "listen"}
  BY <1>5, PeerOf
<1>7. /\ LinkedObject(array, array[k]) = array[l]
      /\ LinkedObject(array, array[l]) = array[k]
  <2>1. \A h, j \in DOMAIN array : array[h].interface_name = array[j].interface_name
                                       => h = j
    BY <1>1
  <2> QED BY <1>5, <1>6, <2>1, LinkedFound
<1>8. Own(m)[i] = KeptEntry(LoadedEntry(array[k], array[l]))
  BY <1>2, <1>4, <1>7
<1>9. l \in OfNode(n, array)
  <2>1. Own(m)[i].linked_node = array[l].located_node
    BY <1>8, KeptShape
  <2> QED BY <1>6, <2>1 DEF OfNode
<1>10. PICK j \in DOMAIN Read(n, array) :
          Read(n, array)[j] = LoadedEntry(array[l], array[k])
  <2>1. \A h \in OfNode(n, array) : \E d \in DOMAIN Read(n, array) :
           Read(n, array)[d] = LoadedEntry(array[h], LinkedObject(array, array[h]))
    BY LoadedAt DEF Read
  <2> QED BY <1>7, <1>9, <2>1
<1>11. j \in DOMAIN Own(n) /\ Own(n)[j] = KeptEntry(LoadedEntry(array[l], array[k]))
  BY <1>3, <1>10
<1> DEFINE a == Own(m)[i]
           b == Own(n)[j]
<1>12. /\ a.mode = array[k].mode /\ b.mode = array[l].mode
       /\ a.interface_name = array[k].interface_name
       /\ b.interface_name = array[l].interface_name
       /\ a.linked_interface_name = array[l].interface_name
       /\ b.linked_interface_name = array[k].interface_name
       /\ b.linked_node = array[k].located_node
       /\ a.linked_eth_info = Through(OverallEth(array[l]))
       /\ a.linked_can_info = OverallCan(array[l])
       /\ a.linked_rs485_info = OverallRs485(array[l])
       /\ b.eth_info = Through(OverallEth(array[l]))
       /\ b.can_info = OverallCan(array[l])
       /\ b.rs485_info = OverallRs485(array[l])
  BY <1>8, <1>11, KeptShape
<1> HIDE DEF a, b, array
<1>13. /\ a.linked_interface_name = b.interface_name
       /\ b.linked_interface_name = a.interface_name
       /\ b.linked_node = m
       /\ {a.mode, b.mode} = {"test", "listen"}
       /\ a.linked_eth_info = b.eth_info
       /\ a.linked_can_info = b.can_info
       /\ a.linked_rs485_info = b.rs485_info
  BY <1>5, <1>6, <1>12
<1> QED BY <1>11, <1>13 DEF a, b

(* Two nodes that were split from one overall file without name clashes     *)
(* describe every link between them alike, whatever the documents.          *)
THEOREM PeersMatch ==
  ASSUME PlainDocuments
  PROVE  Spec => []PeersAgree
<1> QED BY SplitCorrect, PeersFollow, PTL

-----------------------------------------------------------------------------
(* Statuses: those of the documents, and those the code sets.               *)
StatusesOf(table) == \A i \in DOMAIN table : table[i].status \in Statuses

LEMMA StatusesLoaded ==
  ASSUME StatusesKnown, FilesInv, NEW n \in Nodes, NEW table, table # Null,
         \/ table = start_info_manager_from_overall_json(n)
         \/ table = start_info_manager_from_split_json(n)
  PROVE  StatusesOf(table)
<1>1. ASSUME NEW document \in Documents, Converts(document), NEW m,
             OverallLoads(m, xmlToJson(document))
      PROVE  StatusesOf(read_interface_info_array_from_overall_json(
                            m, xmlToJson(document)))
  <2> DEFINE array == xmlToJson(document)
             loaded == read_interface_info_array_from_overall_json(m, array)
  <2>1. ASSUME NEW c \in DOMAIN loaded PROVE loaded[c].status \in Statuses
    <3>1. PICK k \in OfNode(m, array) :
             loaded[c] = LoadedEntry(array[k], LinkedObject(array, array[k]))
      BY RowOf
    <3>2. "status" \in OverallStrings /\ "status" # "linked_interface_name"
      BY DEF OverallStrings, Strings
    <3>3. loaded[c].status = array[k].status
      <4> DEFINE linked == LinkedObject(array, array[k])
                 object == array[k]
      <4> HIDE DEF linked, object, loaded
      <4>1. \A f \in OverallStrings \ {"linked_interface_name"} :
               LoadedEntry(object, linked)[f] = object[f]
        BY LoadedShape
      <4> QED BY <3>1, <3>2, <4>1 DEF linked, object
    <3>4. k \in DOMAIN array /\ "status" \in DOMAIN array[k]
      BY <1>1, <3>2 DEF OfNode, OverallLoads
    <3> QED BY <1>1, <3>3, <3>4 DEF StatusesKnown, Has
  <2> QED BY <2>1 DEF StatusesOf
<1>2. StatusesOf(<< >>)
  BY DEF StatusesOf
<1>3. CASE table = start_info_manager_from_overall_json(n)
  <2>1. \/ table = << >>
        \/ /\ overall.is = "array" /\ OverallLoads(n, overall.array)
           /\ table = read_interface_info_array_from_overall_json(n, overall.array)
    BY <1>3 DEF start_info_manager_from_overall_json, Parses
  <2>2. overall.is = "array" => \E document \in Documents :
           Converts(document) /\ overall.array = xmlToJson(document)
    BY DEF FilesInv
  <2> QED BY <1>1, <1>2, <2>1, <2>2
<1>4. CASE table = start_info_manager_from_split_json(n)
  <2>1. \/ table = << >>
        \/ /\ split[n].is = "array" /\ SplitLoads(split[n].array)
           /\ table = read_interface_info_array_from_split_json(split[n].array)
    BY <1>4 DEF start_info_manager_from_split_json, Parses
  <2>2. ASSUME split[n].is = "array"
        PROVE  \E written :
                  /\ split[n].array = write_interface_info_array_to_json(written)
                  /\ WellMade(written) /\ StatusesOf(written)
                  /\ \A c \in DOMAIN written : SplitStrings \subseteq DOMAIN written[c]
    <3>1. CASE split[n].array = write_interface_info_array_to_json(<< >>)
      BY <3>1, <1>2, EmptyTable
    <3>2. ASSUME NEW document \in Documents, Converts(document),
                 OverallLoads(n, xmlToJson(document)),
                 split[n].array = write_interface_info_array_to_json(
                     read_interface_info_array_from_overall_json(
                         n, xmlToJson(document)))
          PROVE  \E written :
                    /\ split[n].array = write_interface_info_array_to_json(written)
                    /\ WellMade(written) /\ StatusesOf(written)
                    /\ \A c \in DOMAIN written :
                           SplitStrings \subseteq DOMAIN written[c]
      <4> DEFINE loaded ==
                   read_interface_info_array_from_overall_json(n, xmlToJson(document))
      <4>1. WellMade(loaded) /\ \A c \in DOMAIN loaded :
                                    SplitStrings \subseteq DOMAIN loaded[c]
        BY <3>2, LoadedFromOverall
      <4>2. StatusesOf(loaded)
        BY <3>2, <1>1
      <4> HIDE DEF loaded
      <4> QED BY <3>2, <4>1, <4>2 DEF loaded
    <3>3. \/ split[n].array = write_interface_info_array_to_json(<< >>)
          \/ \E document \in Documents :
               /\ Converts(document)
               /\ OverallLoads(n, xmlToJson(document))
               /\ split[n].array = write_interface_info_array_to_json(
                      read_interface_info_array_from_overall_json(
                          n, xmlToJson(document)))
      BY <2>2 DEF FilesInv
    <3> QED BY <3>1, <3>2, <3>3
  <2>3. CASE /\ split[n].is = "array" /\ SplitLoads(split[n].array)
             /\ table = read_interface_info_array_from_split_json(split[n].array)
    <3>1. PICK written :
             /\ split[n].array = write_interface_info_array_to_json(written)
             /\ WellMade(written) /\ StatusesOf(written)
             /\ \A c \in DOMAIN written : SplitStrings \subseteq DOMAIN written[c]
      BY <2>2, <2>3
    <3>2. /\ DOMAIN table = DOMAIN written
          /\ \A c \in DOMAIN table : table[c].status = written[c].status
      BY <2>3, <3>1, LoadedFromSplit
    <3> QED BY <3>1, <3>2 DEF StatusesOf
  <2> QED BY <1>2, <2>1, <2>3
<1> QED BY <1>3, <1>4

LEMMA StatusesSet ==
  ASSUME NEW table, HasFields(table), StatusesOf(table), NEW k \in DOMAIN table
  PROVE  /\ \A status : StatusesOf(set_interface_status(table, k, status))
         /\ \A S : StatusesOf(Flagged(table, S))
         /\ \A S, fd : StatusesOf(FlaggedWith(table, S, fd))
<1>1. ASSUME NEW status PROVE StatusesOf(set_interface_status(table, k, status))
  BY DEF StatusesOf, set_interface_status, isValidStatus, HasFields, Mutable
<1>2. ASSUME NEW S PROVE StatusesOf(Flagged(table, S))
  BY DEF StatusesOf, Flagged, HasFields, Mutable
<1>3. ASSUME NEW S, NEW fd PROVE StatusesOf(FlaggedWith(table, S, fd))
  BY DEF StatusesOf, FlaggedWith, HasFields, Mutable
<1> QED BY <1>1, <1>2, <1>3

LEMMA StatusesInitialised ==
  ASSUME WellMade(interface_info_array), StatusesOf(interface_info_array),
         initializer_transfer
  PROVE  StatusesOf(interface_info_array')
<1> DEFINE table == interface_info_array
           Set(i, status) == set_interface_status(table, i, status)
<1>1. HasFields(table)
  BY DEF WellMade
<1>2. ASSUME NEW i \in Entries
      PROVE  /\ \A status : StatusesOf(Set(i, status))
             /\ \A status, S : StatusesOf(Flagged(Set(i, status), S))
             /\ \A status, S, fd : StatusesOf(FlaggedWith(Set(i, status), S, fd))
             /\ \A S, fd : StatusesOf(FlaggedWith(table, S, fd))
  <2>1. i \in DOMAIN table
    BY DEF Entries
  <2>2. ASSUME NEW status
        PROVE  /\ StatusesOf(Set(i, status))
               /\ HasFields(Set(i, status)) /\ i \in DOMAIN Set(i, status)
    <3>1. SameEntries(table, Set(i, status))
      BY <1>1, <2>1, StatusSet
    <3>2. HasFields(Set(i, status))
      BY <1>1, <3>1, SameFields
    <3> QED BY <1>1, <2>1, <3>1, <3>2, StatusesSet DEF SameEntries
  <2> HIDE DEF Set, table
  <2>3. \A S, fd : StatusesOf(FlaggedWith(table, S, fd))
    BY <1>1, <2>1, StatusesSet DEF table
  <2>4. ASSUME NEW status
        PROVE  /\ \A S : StatusesOf(Flagged(Set(i, status), S))
               /\ \A S, fd : StatusesOf(FlaggedWith(Set(i, status), S, fd))
    BY <2>2, StatusesSet
  <2> QED BY <2>2, <2>3, <2>4
<1>3. PICK i \in Entries :
        \/ UNCHANGED interface_info_array
        \/ \E status : \/ interface_info_array' = Set(i, status)
                       \/ \E S : interface_info_array' = Flagged(Set(i, status), S)
                       \/ \E S, fd :
                             interface_info_array' = FlaggedWith(Set(i, status), S, fd)
        \/ \E S, fd : interface_info_array' = FlaggedWith(table, S, fd)
  <2> HIDE DEF Set, table
  <2> USE DEF AlreadyInitialised, Refuse, Crash, Initialising
  <2>1. CASE eth_initializer_normal
    <3>1. PICK i \in Entries :
             \/ UNCHANGED interface_info_array
             \/ interface_info_array' =
                    Flagged(set_interface_status(interface_info_array, i,
                                "sending_and_receiving"), SameCard(i))
      BY <2>1 DEF eth_initializer_normal
    <3> QED BY <3>1 DEF Set, table
  <2>2. CASE eth_initializer_xy
    <3>1. PICK i \in Entries :
             \/ UNCHANGED interface_info_array
             \/ interface_info_array' =
                    FlaggedWith(set_interface_status(interface_info_array, i,
                                "sending_and_receiving"), SameCard(i), NewFd)
             \/ interface_info_array' = set_interface_status(interface_info_array, i,
                                "sending_and_receiving")
      BY <2>2 DEF eth_initializer_xy
    <3> QED BY <3>1 DEF Set, table
  <2>3. CASE rs485_initializer_normal
    <3>1. PICK i \in Entries :
             \/ UNCHANGED interface_info_array
             \/ interface_info_array' =
                    FlaggedWith(interface_info_array, SamePort(i), NewFd)
      BY <2>3 DEF rs485_initializer_normal, OpenPort
    <3> QED BY <3>1 DEF table
  <2>4. CASE can_fpu_initializer_normal
    <3>1. PICK i \in Entries :
             \/ UNCHANGED interface_info_array
             \/ interface_info_array' =
                    Flagged(set_interface_status(interface_info_array, i, "receiving"),
                            SameChannel(i))
             \/ interface_info_array' =
                    set_interface_status(interface_info_array, i, "closed")
      BY <2>4 DEF can_fpu_initializer_normal
    <3> QED BY <3>1 DEF Set, table
  <2>5. CASE \/ can_gpu_initializer_normal
             \/ /\ phase = "initialise" /\ next \in Entries
                /\ interface_info_array[next].initializer_name \notin Initializers
                /\ Refuse
    BY <2>5 DEF can_gpu_initializer_normal
  <2> QED BY <2>1, <2>2, <2>3, <2>4, <2>5 DEF initializer_transfer
<1> HIDE DEF Set, table
<1>4. StatusesOf(table)
  BY DEF table
<1> QED BY <1>2, <1>3, <1>4 DEF table

(* How far the main thread and the calls can come.                          *)
BoundsInv ==
    /\ next \in 1..Len(interface_info_array) + 1
    /\ Len(initialized_flags) <= Len(interface_info_array)
    /\ threads \subseteq {i \in DOMAIN initialized_flags : initialized_flags[i]}
    /\ calls \in 0..MaxCalls
    /\ StatusesOf(interface_info_array)

LEMMA BoundsInit == Init => BoundsInv
<1> SUFFICES ASSUME Init PROVE BoundsInv
  OBVIOUS
<1>1. Len(<< >>) = 0 /\ DOMAIN << >> = {}
  OBVIOUS
<1> QED BY <1>1, FirmwareAssumption
        DEF Init, StartInit, FirmwareInit, BoundsInv, StatusesOf

LEMMA CallsBounded ==
  ASSUME calls \in 0..MaxCalls, FirmwareNext
  PROVE  calls' \in 0..MaxCalls
<1>1. CASE \E device \in Devices : Arrive(device)
  BY <1>1 DEF Arrive
<1>2. ASSUME NEW i \in threads, Steps(i) PROVE calls' \in 0..MaxCalls
  <2>1. CASE send_message(i) \/ receive_message(i)
    <3>1. calls < MaxCalls /\ (calls' = calls \/ calls' = calls + 1)
      BY <2>1 DEF send_message, receive_message, Starts,
           update_status_in_current_round, Begin
    <3> QED BY <3>1, FirmwareAssumption
  <2>2. CASE ~(send_message(i) \/ receive_message(i))
    <3>1. UNCHANGED calls
      BY <1>2, <2>2 DEF Steps, Source, Destination, CopyDestination, CopySource,
           socket, Fail, bind, Send, ReceiveNothing, Receive, CopyArray, ClearArray
    <3> QED BY <3>1
  <2> QED BY <2>1, <2>2
<1> QED BY <1>1, <1>2 DEF FirmwareNext

LEMMA StatusesWorked ==
  ASSUME WellMade(interface_info_array), StatusesOf(interface_info_array),
         threads \subseteq Entries, FirmwareNext
  PROVE  StatusesOf(interface_info_array')
<1>1. CASE \E device \in Devices : Arrive(device)
  BY <1>1 DEF Arrive
<1>2. ASSUME NEW i \in threads, Steps(i) PROVE StatusesOf(interface_info_array')
  <2>1. CASE send_message(i) \/ receive_message(i)
    <3>1. PICK odd \in BOOLEAN :
             interface_info_array' = set_status(i, status_chooser_transfer(i, odd))
      BY <2>1 DEF send_message, receive_message, Starts,
           update_status_in_current_round
    <3>2. \/ UNCHANGED interface_info_array
          \/ \E status : interface_info_array'
                             = set_interface_status(interface_info_array, Index(i), status)
      BY <3>1 DEF set_status
    <3>3. HasFields(interface_info_array) /\ Index(i) \in DOMAIN interface_info_array
      BY IndexIn DEF WellMade, Entries
    <3> QED BY <3>2, <3>3, StatusesSet
  <2>2. CASE ~(send_message(i) \/ receive_message(i))
    <3>1. Quiet
      BY <1>2, <2>2 DEF Steps, Source, Destination, CopyDestination, CopySource,
           socket, Fail, bind, Send, ReceiveNothing, Receive, CopyArray, ClearArray
    <3> QED BY <3>1 DEF Quiet
  <2> QED BY <2>1, <2>2
<1> QED BY <1>1, <1>2 DEF FirmwareNext

LEMMA BoundsStep ==
  ASSUME StatusesKnown
  PROVE  FilesInv /\ PhaseInv /\ BoundsInv /\ [Next]_vars => BoundsInv'
<1> SUFFICES ASSUME FilesInv, PhaseInv, BoundsInv, [Next]_vars PROVE BoundsInv'
  OBVIOUS
<1>0. /\ WellMade(interface_info_array)
      /\ Len(interface_info_array) \in Nat
      /\ Entries = 1..Len(interface_info_array)
      /\ initialized_flags \in Seq(BOOLEAN)
      /\ threads \subseteq Entries
  BY DEF PhaseInv, WellMade, Entries
<1>1. CASE Configure
  <2>1. /\ phase = "shell" /\ Untouched
        /\ UNCHANGED <<startVars, calls>>
    BY <1>1, ConfigureStep DEF PhaseInv
  <2>2. next' = 1 /\ initialized_flags' = << >> /\ threads' = {} /\ calls' = calls
    BY <2>1 DEF Untouched, startVars
  <2>3. \/ UNCHANGED interface_info_array
        \/ /\ Len(interface_info_array') \in Nat
           /\ StatusesOf(interface_info_array')
    <3>1. ASSUME NEW n \in Nodes,
                 TLAtOneNodeFromSplitJsonFile(n) \/ TLAtOneNodeFromOverallJsonFile(n)
          PROVE  \/ UNCHANGED interface_info_array
                 \/ /\ WellMade(interface_info_array')
                    /\ StatusesOf(interface_info_array')
      BY <3>1, TablesLoaded, StatusesLoaded DEF TLAtOneNodeFromSplitJsonFile,
           TLAtOneNodeFromOverallJsonFile, Run
    <3>2. ASSUME Touch \/ (\E document \in Documents : XmlToJson(document))
                       \/ \E n \in Nodes : split_into_target(n)
          PROVE  UNCHANGED interface_info_array
      BY <3>2 DEF Touch, XmlToJson, split_into_target
    <3> QED BY <1>1, <3>1, <3>2 DEF Configure, ConfigNext, WellMade
  <2>4. Len(<< >>) = 0
    OBVIOUS
  <2> QED BY <1>0, <2>2, <2>3, <2>4 DEF BoundsInv
<1>2. CASE Start
  <2>0. calls' = calls
    BY <1>2 DEF Start, firmwareVars
  <2>1. CASE initializer_transfer
    <3>1. /\ phase = "initialise" /\ next \in Entries
          /\ SameEntries(interface_info_array, interface_info_array')
      BY <1>0, <2>1, InitialiserStep
    <3>2. Len(interface_info_array') = Len(interface_info_array)
      BY <1>0, <3>1, SameLength
    <3>3. /\ next = Len(initialized_flags) + 1 /\ threads = {}
      BY <3>1 DEF PhaseInv
    <3>4. StatusesOf(interface_info_array')
      BY <1>0, <2>1, StatusesInitialised DEF BoundsInv
    <3>5. ASSUME NEW success \in BOOLEAN, Initialised(success) PROVE BoundsInv'
      <4>1. /\ Len(initialized_flags') = Len(initialized_flags) + 1
            /\ next' = next + 1 /\ threads' = {}
        BY <1>0, <3>3, <3>5 DEF Initialised
      <4>2. Len(initialized_flags) \in Nat
        BY <1>0
      <4> QED BY <1>0, <2>0, <3>1, <3>2, <3>3, <3>4, <4>1, <4>2 DEF BoundsInv
    <3>6. CASE Crash
      BY <2>0, <3>2, <3>4, <3>6 DEF Crash, startVars, BoundsInv
    <3> QED BY <1>0, <2>1, <3>5, <3>6, InitialiserStep
  <2>2. CASE InitialiseDone
    <3>1. next' = 1 /\ UNCHANGED <<interface_info_array, initialized_flags, threads>>
      BY <2>2 DEF InitialiseDone
    <3> QED BY <1>0, <2>0, <3>1 DEF BoundsInv
  <2>3. CASE CreateThread
    <3>1. /\ phase = "create" /\ next \in Entries
          /\ UNCHANGED <<interface_info_array, initialized_flags>>
      BY <2>3 DEF CreateThread
    <3>2. Entries = DOMAIN initialized_flags
      <4>1. Len(initialized_flags) = Len(interface_info_array)
        BY <3>1 DEF PhaseInv
      <4> QED BY <1>0, <4>1
    <3>3. threads' = threads \/ (initialized_flags[next] /\ threads' = threads \cup {next})
      BY <2>3 DEF CreateThread
    <3>4. next' = next \/ next' = next + 1
      BY <2>3 DEF CreateThread
    <3>5. threads' \subseteq {i \in DOMAIN initialized_flags : initialized_flags[i]}
      BY <3>1, <3>2, <3>3 DEF BoundsInv
    <3>6. next' \in 1..Len(interface_info_array) + 1
      BY <1>0, <3>1, <3>4
    <3> QED BY <2>0, <3>1, <3>5, <3>6 DEF BoundsInv
  <2>4. CASE JoinThreads
    BY <2>0, <2>4 DEF JoinThreads, startVars, BoundsInv
  <2> QED BY <1>2, <2>1, <2>2, <2>3, <2>4 DEF Start, StartNext
<1>3. CASE Work
  <2>1. /\ SameEntries(interface_info_array, interface_info_array')
        /\ UNCHANGED <<next, initialized_flags, threads>>
    BY <1>0, <1>3, FirmwareStep DEF Work, SameDevices
  <2>2. Len(interface_info_array') = Len(interface_info_array)
    BY <1>0, <2>1, SameLength
  <2>3. calls' \in 0..MaxCalls
    BY <1>3, CallsBounded DEF Work, BoundsInv
  <2>4. StatusesOf(interface_info_array')
    BY <1>0, <1>3, StatusesWorked DEF Work, BoundsInv
  <2> QED BY <2>1, <2>2, <2>3, <2>4 DEF BoundsInv
<1>4. CASE Die \/ UNCHANGED vars
  BY <1>4, DieStep DEF vars, startVars, firmwareVars, BoundsInv
<1> QED BY <1>1, <1>2, <1>3, <1>4 DEF Next

LEMMA TypeFollows ==
  SplitInv /\ PhaseInv /\ CallInv /\ DescriptorInv /\ BoundsInv => TypeOK
<1> SUFFICES ASSUME SplitInv, PhaseInv, CallInv, DescriptorInv, BoundsInv PROVE TypeOK
  OBVIOUS
<1>1. \A n \in Nodes : split[n].is = "array" => origin[n].is = "array"
  BY DEF SplitInv, Divided
<1>2. ASSUME NEW i \in Entries
      PROVE  /\ interface_info_array[i].status \in Statuses
             /\ interface_info_array[i].initialized_flag \in {-1, 1}
             /\ call[i].fd # Null => call[i].fd \in Fds \ Free
  BY DEF BoundsInv, StatusesOf, Entries, DescriptorInv, TableInv, OwnInv, OfCall
<1>3. ASSUME NEW i \in Entries
      PROVE  /\ call[i].at \in {"idle", "socket", "bind", "send", "receive", "copy",
                                "clear"} \cup InPacket
             /\ call[i].fd # Null <=>
                    \/ call[i].at = "bind"
                    \/ call[i].at \in {"send", "receive"}
                       /\ Driver(i) \notin {"send_packet_xy", "receive_packet_xy"}
  <2>1. PlaceOf(i, call[i].at) /\ (call[i].fd # Null <=> Holds(i, call[i].at))
    BY DEF CallInv, CallOf
  <2>2. ~(Sends(i) /\ Receives(i))
    BY DEF Sends, Receives
  <2>3. SocketDriver(i) => Driver(i) \notin {"send_packet_xy", "receive_packet_xy"}
    BY <2>2 DEF SocketDriver, Driver
  <2>4. call[i].at \in {"send", "receive"} =>
           \/ SocketDriver(i)
           \/ Driver(i) \in {"send_packet_xy", "receive_packet_xy"}
    BY <2>1, <2>2 DEF PlaceOf, Driver, InPacket
  <2>5. call[i].at \in {"idle", "socket", "bind", "send", "receive", "copy",
                        "clear"} \cup InPacket
    BY <2>1 DEF PlaceOf
  <2> QED BY <2>1, <2>3, <2>4, <2>5 DEF Holds
<1>4. /\ \A fd \in Fds \ Free : fds[fd].kind \in {"packet", "udp", "can", "port"}
      /\ leaked \subseteq Fds
  BY DEF DescriptorInv, FdTypeInv, OwnInv
<1> QED BY <1>1, <1>2, <1>3, <1>4 DEF TypeOK, PhaseInv, BoundsInv

(* In every state, whatever fails, descriptors and threads belong to the    *)
(* table, and a thread holds a descriptor only between socket and close.    *)
THEOREM TypeCorrect ==
  ASSUME StatusesKnown
  PROVE  Spec => []TypeOK
<1>1. Spec => []BoundsInv
  BY BoundsInit, BoundsStep, FilesCorrect, PhaseCorrect, PTL DEF Spec
<1> QED BY <1>1, SplitCorrect, PhaseCorrect, CallCorrect, DescriptorCorrect,
           TypeFollows, PTL
=============================================================================
