--------------------------- MODULE Configuration ---------------------------
(***************************************************************************)
(* From the XML description of a system to the table of a node             *)
(* (base/info_manager.c, and the commands of interface_group_operator.c).  *)
(*                                                                         *)
(* xml_to_json makes the overall JSON file of all nodes from a file of     *)
(* nodes and a file of links; split_into_target makes the JSON file of one *)
(* node from it; a node is run from either file.  Each command is a        *)
(* process of its own, run by hand, in any order and as often as wanted.   *)
(*                                                                         *)
(* An XML element or a JSON object is a function on the names it holds.    *)
(* The test and the listen half of xmlToJson, and the two loaders, are     *)
(* separate copies of the same text in the code, and separate definitions  *)
(* here: that they agree is what SplitAgrees and PeersAgree say.           *)
(***************************************************************************)
EXTENDS Interfaces

CONSTANTS
    Nodes,      \* names of nodes, that of a node without interfaces included
    Documents,  \* pairs of XML files: [nodes, links]
    MaxXml,     \* interfaces of an XML file that fits in BUFFER_SIZE
    MaxJson     \* entries of a JSON file that fits in BUFFER_SIZE

ASSUME ConfigurationAssumption ==
    \A document \in Documents :
        /\ Len(document.links) \in Nat
        /\ DOMAIN document.links = 1..Len(document.links)

VARIABLES
    overall,    \* the overall JSON file
    split,      \* the JSON file of each node
    origin      \* history: the overall file each split file was made from

configVars == <<overall, split, origin>>

(* A file is absent, without content, or an array of objects. *)
NoFile == [is |-> "absent"]
Empty  == [is |-> "empty"]
Json(array) == [is |-> "array", array |-> array]

is_valid_filename(file) == file # NoFile
Parses(file) == file.is = "array" /\ Len(file.array) <= MaxJson

Has(object, field) == field \in DOMAIN object
Field(object, field, default) ==
    IF Has(object, field) THEN object[field] ELSE default

(* cJSON_AddStringToObject adds nothing for a NULL. *)
Present(fields) ==
    [f \in {g \in DOMAIN fields : fields[g] # Null} |-> fields[f]]

EthFields   == {"ip_name", "ip_addr", "net_mask", "mac_addr", "port_id"}
CanFields   == {"can_id", "baud_rate"}
Rs485Fields == {"rs485_dev_path", "rs485_gpio_number", "baud_rate", "databits",
                "stopbits", "paritybits"}
Strings     == {"interface_type", "status_chooser", "base_send_func",
                "base_receive_func", "msg_generator_of_sender",
                "initializer_name", "closer_name", "status", "duplex"}

-----------------------------------------------------------------------------
(***************************************************************************)
(* XML to JSON.                                                            *)
(***************************************************************************)
getChildNodeContentWithSpecifiedName(element, name) == Field(element, name, Null)

(* The first interface of a node that has the id, where there is one. *)
WithId(n, id) == {k \in DOMAIN n.interfaces : n.interfaces[k].id = id}
First(n, id)  == n.interfaces[Least(WithId(n, id))]

(* A node whose interface lacks the property is passed over. *)
get_target_if_value_from_node_tree(nodes, id, property) ==
    LET Value(k) ==
            IF WithId(nodes[k], id) = {} THEN Null
            ELSE getChildNodeContentWithSpecifiedName(First(nodes[k], id),
                                                      property)
        found == {k \in DOMAIN nodes : Value(k) # Null}
    IN  IF found = {} THEN Null ELSE Value(Least(found))

get_node_name_contain_target_if_from_node_tree(nodes, id) ==
    LET found == {k \in DOMAIN nodes : WithId(nodes[k], id) # {}}
    IN  IF found = {} THEN Null ELSE nodes[Least(found)].node_name

concatenateStringsWithDelimiter(nodes, id, mode) ==
    << get_node_name_contain_target_if_from_node_tree(nodes, id),
       get_target_if_value_from_node_tree(nodes, id, "label"), id, mode >>

Values(nodes, id, properties) ==
    [p \in properties |-> get_target_if_value_from_node_tree(nodes, id, p)]

(* The info object of the type of the interface, and no other. *)
InfoObject(nodes, id) ==
    LET type == get_target_if_value_from_node_tree(nodes, id, "interface_type")
        Info(fields) == Present(Values(nodes, id, fields))
    IN  CASE type = "eth"   -> [eth_info   |-> Info(EthFields)]
          [] type = "can"   -> [can_info   |-> Info(CanFields)]
          [] type = "rs485" -> [rs485_info |-> Info(Rs485Fields)]
          [] OTHER          -> << >>

Settings(nodes, id) ==
    Joined(Present(Values(nodes, id, Strings)), InfoObject(nodes, id))

TestEntry(nodes, link) ==
    LET id == link.send_if_id
    IN  Joined(
          [mode         |-> "test",
           located_node |-> get_node_name_contain_target_if_from_node_tree(nodes, id),
           interface_name |-> concatenateStringsWithDelimiter(nodes, id, "test"),
           center_interface_name |->
               concatenateStringsWithDelimiter(nodes, link.center_if_id, "listen"),
           linked_interface_name |->
               concatenateStringsWithDelimiter(nodes, link.listened_if_id, "listen")],
          Settings(nodes, id))

\* Mutant: the entry names itself as its peer.
ListenEntryOfItself(nodes, link) ==
    LET id == link.listened_if_id
        name == concatenateStringsWithDelimiter(nodes, id, "listen")
    IN  Joined(
          [mode         |-> "listen",
           located_node |-> get_node_name_contain_target_if_from_node_tree(nodes, id),
           interface_name |-> name,
           center_interface_name |->
               concatenateStringsWithDelimiter(nodes, link.center_if_id, "listen"),
           linked_interface_name |-> name],
          Settings(nodes, id))

ListenEntry(nodes, link) ==
    LET id == link.listened_if_id
    IN  Joined(
          [mode         |-> "listen",
           located_node |-> get_node_name_contain_target_if_from_node_tree(nodes, id),
           interface_name |-> concatenateStringsWithDelimiter(nodes, id, "listen"),
           center_interface_name |->
               concatenateStringsWithDelimiter(nodes, link.center_if_id, "listen"),
           linked_interface_name |->
               concatenateStringsWithDelimiter(nodes, link.send_if_id, "test")],
          Settings(nodes, id))

(* strlen, strcmp or string_to_int of a NULL: the process ends before it    *)
(* opens the file it writes.                                                *)
LinkCrashes(nodes, link) ==
    LET Missing(id, properties) ==
            \E p \in properties :
                get_target_if_value_from_node_tree(nodes, id, p) = Null
        Numbers(id) ==
            CASE get_target_if_value_from_node_tree(nodes, id, "interface_type")
                     = "eth" -> {"port_id"}
              [] get_target_if_value_from_node_tree(nodes, id, "interface_type")
                     = "can" -> CanFields
              [] get_target_if_value_from_node_tree(nodes, id, "interface_type")
                     = "rs485" -> Rs485Fields \ {"rs485_dev_path"}
              [] OTHER -> {}
    IN  \/ \E id \in {link.send_if_id, link.listened_if_id, link.center_if_id} :
               Missing(id, {"label"})
        \/ \E id \in {link.send_if_id, link.listened_if_id} :
               Missing(id, {"interface_type"} \cup Numbers(id))

Converts(document) ==
    \A k \in DOMAIN document.links : ~LinkCrashes(document.nodes, document.links[k])

xmlToJson(document) ==
    [k \in 1..2 * Len(document.links) |->
        LET link == document.links[(k + 1) \div 2]
        IN  IF k % 2 = 1 THEN TestEntry(document.nodes, link)
            ELSE ListenEntry(document.nodes, link)]

Fits(document) ==
    Cardinality({p \in (1..Len(document.nodes)) \X (1..MaxXml + 1) :
                     p[2] \in DOMAIN document.nodes[p[1]].interfaces}) <= MaxXml

(* The file written, or the old one if the conversion crashes: on a pair    *)
(* of files cut off at BUFFER_SIZE too, which no longer parse.              *)
convert_xml_config_to_overall_json_config(document) ==
    IF Fits(document) /\ Converts(document)
    THEN Json(xmlToJson(document))
    ELSE overall

-----------------------------------------------------------------------------
(***************************************************************************)
(* The two loaders, and the writer of the file of one node.                *)
(***************************************************************************)
OverallStrings == Strings \cup {"mode", "located_node", "interface_name",
                                "linked_interface_name", "center_interface_name"}
SplitStrings   == OverallStrings \cup {"linked_node", "linked_interface_type"}

Absent(field) ==
    CASE field \in {"ip_name", "ip_addr", "net_mask", "mac_addr",
                    "rs485_dev_path"} -> Null
      [] field = "paritybits"         -> 0
      [] OTHER                        -> -1

OverallEth(object) ==
    LET info == Field(object, "eth_info", << >>)
    IN  [f \in EthFields |-> Field(info, f, Absent(f))]

OverallCan(object) ==
    LET info == Field(object, "can_info", << >>)
    IN  [f \in CanFields |-> Field(info, f, Absent(f))]

OverallRs485(object) ==
    LET info == Field(object, "rs485_info", << >>)
    IN  [f \in Rs485Fields |-> Field(info, f, Absent(f))]

(* The object an entry is linked to; the last one if there is none. *)
LinkedObject(array, object) ==
    LET found == {j \in DOMAIN array :
                      array[j].interface_name = object.linked_interface_name}
    IN  array[IF found = {} THEN Len(array) ELSE Least(found)]

OfNode(n, array) == {k \in DOMAIN array : array[k].located_node = n}

update_interface_cnt_from_overall_json(n, array) == Cardinality(OfNode(n, array))

(* The flag is set to -1, and the descriptor is not set. *)
read_interface_info_array_from_overall_json(n, array) ==
    [c \in 1..update_interface_cnt_from_overall_json(n, array) |->
        LET k == CHOOSE j \in OfNode(n, array) :
                     Cardinality({h \in OfNode(n, array) : h <= j}) = c
            object == array[k]
            linked == LinkedObject(array, object)
        IN  Joined(
              [initialized_flag      |-> -1, fd |-> Null,
               linked_interface_name |-> linked.interface_name,
               linked_node           |-> linked.located_node,
               linked_interface_type |-> linked.interface_type,
               eth_info   |-> OverallEth(object),
               can_info   |-> OverallCan(object),
               rs485_info |-> OverallRs485(object),
               linked_eth_info   |-> OverallEth(linked),
               linked_can_info   |-> OverallCan(linked),
               linked_rs485_info |-> OverallRs485(linked)],
              [f \in OverallStrings |-> object[f]])]

(* strdup of the string of an item that is not there *)
OverallLoads(n, array) ==
    \A k \in OfNode(n, array) : OverallStrings \subseteq DOMAIN array[k]

(* An Ethernet interface without a MAC address loses its other fields. *)
WrittenEth(info) == IF info.mac_addr = Null THEN << >> ELSE Present(info)

\* Mutant: the test for a value that was never set is made on the other field.
WrittenRs485IfParity(info) ==
    IF info.paritybits = 0 THEN << >> ELSE Present(info)

WrittenRs485(info) == IF info.baud_rate = -1 THEN << >> ELSE Present(info)

WrittenCan(info) == IF info.can_id = -1 THEN << >> ELSE info

write_interface_info_array_to_json(table) ==
    [k \in DOMAIN table |->
        Joined(
          [eth_info   |-> WrittenEth(table[k].eth_info),
           can_info   |-> WrittenCan(table[k].can_info),
           rs485_info |-> WrittenRs485(table[k].rs485_info),
           linked_eth_info   |-> WrittenEth(table[k].linked_eth_info),
           linked_can_info   |-> WrittenCan(table[k].linked_can_info),
           linked_rs485_info |-> WrittenRs485(table[k].linked_rs485_info)],
          Present([f \in SplitStrings |-> table[k][f]]))]

SplitEth(info)   == [f \in EthFields |-> Field(info, f, Absent(f))]
SplitCan(info)   == [f \in CanFields |-> Field(info, f, Absent(f))]
SplitRs485(info) == [f \in Rs485Fields |-> Field(info, f, Absent(f))]

read_interface_info_array_from_split_json(array) ==
    [k \in DOMAIN array |->
        Joined(
          [initialized_flag |-> -1, fd |-> Null,
           eth_info   |-> SplitEth(array[k].eth_info),
           can_info   |-> SplitCan(array[k].can_info),
           rs485_info |-> SplitRs485(array[k].rs485_info),
           linked_eth_info   |-> SplitEth(array[k].linked_eth_info),
           linked_can_info   |-> SplitCan(array[k].linked_can_info),
           linked_rs485_info |-> SplitRs485(array[k].linked_rs485_info)],
          [f \in SplitStrings |-> array[k][f]])]

SplitLoads(array) ==
    \A k \in DOMAIN array : SplitStrings \subseteq DOMAIN array[k]

get_all_node_name_from_overall_json(array) ==
    {array[k].located_node : k \in DOMAIN array}

(* The check answers minus the index of the first entry with an unknown     *)
(* function, counted from 0: that of the first entry reads as a success.    *)
Refuses(table, known) ==
    LET unknown == {k \in DOMAIN table : table[k].base_send_func \notin known}
    IN  unknown # {} /\ Least(unknown) > 1

check_all_send_base_func_legal(table) == ~Refuses(table, SendFuncs)

(* This one too looks at the functions that send. *)
check_all_recv_base_func_legal(table) == ~Refuses(table, ReceiveFuncs)

-----------------------------------------------------------------------------
(***************************************************************************)
(* The commands.                                                           *)
(***************************************************************************)
ConfigInit ==
    /\ overall = NoFile
    /\ split = [n \in Nodes |-> NoFile]
    /\ origin = [n \in Nodes |-> NoFile]

(* The table of a node, or Null when loading it crashes.  A file that does   *)
(* not parse counts -1 entries, and every loop over them ends at once.      *)
start_info_manager_from_overall_json(n) ==
    IF ~Parses(overall) THEN << >>
    ELSE IF n \notin get_all_node_name_from_overall_json(overall.array) THEN << >>
    ELSE IF ~OverallLoads(n, overall.array) THEN Null
    ELSE read_interface_info_array_from_overall_json(n, overall.array)

start_info_manager_from_split_json(n) ==
    IF ~Parses(split[n]) THEN << >>
    ELSE IF ~SplitLoads(split[n].array) THEN Null
    ELSE LET table == read_interface_info_array_from_split_json(split[n].array)
         IN  IF /\ check_all_recv_base_func_legal(table)
                /\ check_all_send_base_func_legal(table)
             THEN table ELSE << >>

(* The files a command writes have to be there: somebody makes them by hand. *)
Touch ==
    /\ phase = "shell"
    /\ \/ overall = NoFile /\ overall' = Empty /\ UNCHANGED split
       \/ \E n \in Nodes :
              /\ split[n] = NoFile
              /\ split' = [split EXCEPT ![n] = Empty]
              /\ UNCHANGED overall
    /\ UNCHANGED <<origin, phase, interface_info_array>>

XmlToJson(document) ==
    /\ phase = "shell"
    /\ is_valid_filename(overall)
    /\ overall' = convert_xml_config_to_overall_json_config(document)
    /\ UNCHANGED <<split, origin, phase, interface_info_array>>

(* Nothing is written when loading crashes, nor for a count of -1, which is  *)
(* the largest size there is for the writer: it crashes before it opens.    *)
split_into_target(n) ==
    /\ phase = "shell"
    /\ is_valid_filename(overall) /\ is_valid_filename(split[n])
    /\ LET table == start_info_manager_from_overall_json(n)
       IN  IF table = Null \/ ~Parses(overall) THEN UNCHANGED <<split, origin>>
           ELSE /\ split' = [split EXCEPT ![n] =
                                 Json(write_interface_info_array_to_json(table))]
                /\ origin' = [origin EXCEPT ![n] = overall]
    /\ UNCHANGED <<overall, phase, interface_info_array>>

(* The arrays for the threads have the size of the table, and one without   *)
(* entries may end the process there.                                       *)
Run(table) ==
    /\ \/ table \in {Null, << >>} /\ phase' = "crashed" /\ UNCHANGED interface_info_array
       \/ table # Null /\ phase' = "initialise" /\ interface_info_array' = table
    /\ UNCHANGED configVars

TLAtOneNodeFromSplitJsonFile(n) ==
    /\ phase = "shell"
    /\ is_valid_filename(split[n])
    /\ Run(start_info_manager_from_split_json(n))

TLAtOneNodeFromOverallJsonFile(n) ==
    /\ phase = "shell"
    /\ is_valid_filename(overall)
    /\ Run(start_info_manager_from_overall_json(n))

ConfigNext ==
    \/ Touch
    \/ \E document \in Documents : XmlToJson(document)
    \/ \E n \in Nodes : \/ split_into_target(n)
                        \/ TLAtOneNodeFromSplitJsonFile(n)
                        \/ TLAtOneNodeFromOverallJsonFile(n)

-----------------------------------------------------------------------------
(* What SplitAgrees and PeersAgree ask of the documents: nodes have names,  *)
(* and no channel or rate is -1, the mark of a number that is not set.      *)
Plain(object) ==
    /\ \A f \in {"mode", "located_node", "interface_name",
                 "center_interface_name", "linked_interface_name"} : object[f] # Null
    /\ Has(object, "can_info") => Field(object.can_info, "can_id", -1) # -1
    /\ Has(object, "rs485_info") => Field(object.rs485_info, "baud_rate", -1) # -1

PlainDocuments ==
    \A document \in Documents : Converts(document) =>
        \A k \in DOMAIN xmlToJson(document) : Plain(xmlToJson(document)[k])

(* A node loads from its own file what it would load from the overall file  *)
(* this was made from, in the same order, except that an Ethernet interface *)
(* without a MAC address comes without its other settings too.              *)
SplitAgrees ==
    LET Eth(info) == IF info.mac_addr = Null
                     THEN [f \in EthFields |-> Absent(f)] ELSE info
        Kept(entry) == [entry EXCEPT !.eth_info = Eth(@),
                                     !.linked_eth_info = Eth(@)]
        From(n) == read_interface_info_array_from_overall_json(n, origin[n].array)
        Own(n)  == read_interface_info_array_from_split_json(split[n].array)
    IN  \A n \in Nodes : split[n].is = "array" =>
            /\ DOMAIN Own(n) = DOMAIN From(n)
            /\ \A k \in DOMAIN Own(n) : Own(n)[k] = Kept(From(n)[k])

(* Two nodes whose files were made from the same overall file, in which no  *)
(* two entries share a name, describe a link alike: each entry of one that  *)
(* is linked to the other has there an entry of the other mode that is      *)
(* linked back to it and has the addresses it sends to.                     *)
PeersAgree ==
    LET Shared(array) == \E i, j \in DOMAIN array :
            i # j /\ array[i].interface_name = array[j].interface_name
        Own(n) == read_interface_info_array_from_split_json(split[n].array)
    IN  \A m, n \in Nodes :
            ( /\ split[m].is = "array" /\ split[n].is = "array"
              /\ origin[m] = origin[n] /\ ~Shared(origin[m].array) ) =>
            \A i \in DOMAIN Own(m) : Own(m)[i].linked_node = n =>
                \E j \in DOMAIN Own(n) :
                    LET a == Own(m)[i]
                        b == Own(n)[j]
                    IN  /\ a.linked_interface_name = b.interface_name
                        /\ b.linked_interface_name = a.interface_name
                        /\ b.linked_node = m
                        /\ {a.mode, b.mode} = {"test", "listen"}
                        /\ a.linked_eth_info = b.eth_info
                        /\ a.linked_can_info = b.can_info
                        /\ a.linked_rs485_info = b.rs485_info
=============================================================================
