------------------------------- MODULE MCNode -------------------------------
(***************************************************************************)
(* Seven descriptions of nodes A and B.                                    *)
(***************************************************************************)
EXTENDS Node, TLC

Interface(id, type, send, receive, initializer) ==
    [id |-> id, label |-> "if", interface_type |-> type,
     status_chooser |-> "work_at_each_round",
     base_send_func |-> send, base_receive_func |-> receive,
     msg_generator_of_sender |-> "generate", initializer_name |-> initializer,
     closer_name |-> "closer", status |-> "sending_and_receiving",
     duplex |-> "full-duplex"]

Eth(id, way, initializer, card, mac) ==
    Interface(id, "eth", "send_packet_" \o way, "receive_packet_" \o way, initializer)
    @@ [ip_name |-> card, ip_addr |-> card, net_mask |-> "mask",
        mac_addr |-> mac, port_id |-> 1]

GpuCan(id, channel) ==
    Interface(id, "can", "send_packet_can_gpu", "receive_packet_can_gpu",
              "can_gpu_initializer_normal")
    @@ [can_id |-> channel, baud_rate |-> 5]

FpuCan(id, channel) ==
    Interface(id, "can", "send_packet_can_fpu", "receive_packet_can_fpu",
              "can_fpu_initializer_normal")
    @@ [can_id |-> channel, baud_rate |-> 5]

Serial(id, path) ==
    Interface(id, "rs485", "send_packet_rs485", "receive_packet_rs485",
              "rs485_initializer_normal")
    @@ [rs485_dev_path |-> path, rs485_gpio_number |-> 1, baud_rate |-> 5,
        databits |-> 8, stopbits |-> 1, paritybits |-> 0]

Without(interface, field) ==
    [f \in DOMAIN interface \ {field} |-> interface[f]]

With(interface, field, value) == [interface EXCEPT ![field] = value]

Links(pairs) == [k \in DOMAIN pairs |->
    [send_if_id |-> pairs[k][1], listened_if_id |-> pairs[k][2],
     center_if_id |-> pairs[1][2]]]

Document(ofA, ofB, pairs) ==
    [nodes |-> << [node_name |-> "A", interfaces |-> ofA],
                  [node_name |-> "B", interfaces |-> ofB] >>,
     links |-> Links(pairs)]

Mac == "eth_initializer_normal"
Xy  == "eth_initializer_xy"

\* Two cards by MAC address, one used in both directions.
ByMac == Document(<<Eth(1, "by_mac_addr", Mac, "e0", "m1"),
                    Eth(2, "by_mac_addr", Mac, "e1", "m2")>>,
                  <<Eth(3, "by_mac_addr", Mac, "e0", "m3"),
                    Eth(4, "by_mac_addr", Mac, "e1", "bad")>>,
                  <<<<1, 3>>, <<2, 4>>, <<3, 1>>>>)

\* An xy card that another entry of the same card may flag first.
ByXy  == Document(<<Eth(1, "xy", Xy, "e0", "m1"), Eth(2, "xy", Xy, "e1", "m2")>>,
                  <<Eth(3, "by_mac_addr", Mac, "e0", "m3"),
                    Eth(4, "xy", Xy, "e0", "m4"),
                    Eth(5, "by_mac_addr", Mac, "e1", "m2")>>,
                  <<<<3, 1>>, <<1, 4>>, <<4, 2>>, <<5, 2>>>>)

\* A UDP address and a CAN channel of the GPU, each with two listeners; the
\* address gets lost in the split files.
Mixed == Document(<<With(Eth(1, "by_ip_addr", Mac, "e0", "m1"), "status_chooser",
                         "only_work_at_odd_round"), GpuCan(2, 0)>>,
                  <<Without(Eth(3, "by_ip_addr", Mac, "e0", "m3"), "mac_addr"),
                    GpuCan(4, 0),
                    GpuCan(5, 0)>>,
                  <<<<1, 3>>, <<2, 4>>, <<2, 5>>, <<1, 3>>>>)

\* Buses, a serial port used in both directions, a missing initialiser, and
\* the initialiser of another type.
Buses == Document(<<With(FpuCan(1, 2), "initializer_name", "none"),
                    Serial(2, "s0"), FpuCan(6, 9)>>,
                  <<FpuCan(3, 1), Serial(4, "s0"),
                    With(FpuCan(5, 1), "initializer_name", Xy)>>,
                  <<<<1, 3>>, <<2, 4>>, <<4, 2>>, <<6, 5>>>>)

\* Settings that are missing: a MAC address, the path of a port, a driver.
Faulty == Document(<<Eth(1, "by_mac_addr", Mac, "e0", "m1"),
                     Without(Eth(2, "by_mac_addr", Mac, "e1", "m2"), "mac_addr"),
                     Without(Serial(7, "s1"), "rs485_dev_path")>>,
                   <<Eth(3, "by_mac_addr", Mac, "e0", "m3"),
                     With(With(Eth(4, "by_mac_addr", Mac, "e1", "m4"), "base_send_func",
                          "unknown"), "status_chooser", "unknown"), Serial(6, "s0")>>,
                   <<<<1, 3>>, <<2, 4>>, <<6, 7>>>>)

\* A link to an interface that no node has, and one without its port.
Broken == Document(<<Eth(1, "by_mac_addr", Mac, "e0", "m1")>>,
                   <<Without(Eth(3, "by_mac_addr", Mac, "e0", "m3"), "port_id")>>,
                   <<<<1, 3>>, <<1, 9>>>>)

\* A listener without an IP address, on a card that another entry flags.
Unset == Document(<<Eth(1, "by_mac_addr", Mac, "e0", "m1"),
                    Without(Eth(2, "by_ip_addr", Mac, "e0", "m2"), "ip_addr")>>,
                  <<Eth(3, "by_mac_addr", Mac, "e0", "m3"),
                    Eth(4, "by_ip_addr", Mac, "e1", "m4")>>,
                  <<<<3, 1>>, <<4, 2>>>>)

MCDocuments == {ByMac, ByXy, Mixed, Buses, Faulty, Broken, Unset}

ASSUME MCNodeAssumption == PlainDocuments /\ StatusesKnown

\* The files do not matter once the process of the node is started.
View == <<IF phase = "shell" THEN configVars ELSE << >>,
          phase, interface_info_array, next, initialized_flags, fds, threads,
          srcmac, dstmac, can_array, call, calls, arrivals, leaked, packets, dealt>>
=============================================================================
