----------------------------- MODULE MCCommands -----------------------------
(* Small instances of Commands: one of each kind of application. *)
EXTENDS Commands

MCDefaults ==
    [net_token |-> <<0>>, app_token |-> <<0>>, rx_mode |-> <<0>>, qos |-> <<0>>,
     mac_mode |-> <<0>>, antenna |-> <<1>>, tx_power |-> <<10>>,
     sync_word |-> <<18>>, conn_filter |-> <<0>>, sync_mode |-> <<0>>,
     rssi_scan |-> <<0, 0, 0, 0>>,
     state |-> <<-1>>, tx_state |-> <<2>>, rx_state |-> <<1>>,
     unique_id |-> <<20000000, 3>>, version |-> <<1, 2, 300>>,
     firmware_type |-> <<5, 300>>, hardware_type |-> <<4>>,
     dl_band |-> <<0, 0, 0, 0, 0>>, app_reg |-> <<1>>, timestamp |-> <<3000000>>,
     assert_info |-> <<200, 7>>,
     stats |-> <<1, 200, 3, 4, 5, 6, 70000, 8, 9, 1000>>,
     time_info |-> <<1, 15000000, 999, 14999999, 0>>,
     net_info |-> <<1, 2, -1, 9020000, 5, -110, -12, 2, 1, 6, 7>>,
     radio |-> [flags |-> RadioParams,
                params |-> [sf |-> 10, cr |-> 1, bw |-> 0, freq |-> 9060000,
                            preamble |-> 8, header |-> 1, crc |-> 1, iq |-> 0]]]

\* Radio parameters that differ from the default ones, legal and not.
Legal == [sf |-> 12, cr |-> 4, bw |-> 3, freq |-> 8700000,
          preamble |-> 300, header |-> 0, crc |-> 7, iq |-> 1]
Illegal == [Legal EXCEPT !.sf = 13, !.cr = 0, !.bw = 4]
RadioValues ==
    {[flags |-> F, params |-> Legal] :
        F \in {RadioParams} \cup {{p} : p \in RadioParams}}
    \cup {[flags |-> {p}, params |-> Illegal] : p \in {"sf", "cr", "bw"}}

Sets(f, S) == {<<"set", f, v>> : v \in S}

Configs ==
    {<<"config_set", <<<<7>>, <<8>>, <<1>>, <<15>>>>>>,
     <<"config_set", <<<<9>>, <<9>>, <<4>>, <<2>>>>>>,
     <<"config_get">>, <<"irq_flags", {"RESET"}>>}

Setters ==
    UNION {Sets("net_token", {<<20000000>>, <<ByteMod ^ 4 - 1>>}),
           Sets("mac_mode", {<<3>>, <<4>>}), Sets("antenna", {<<2>>, <<3>>}),
           Sets("tx_power", {<<-4>>, <<-5>>, <<26>>, <<27>>}),
           Sets("sync_word", {<<52>>}), Sets("conn_filter", {<<1>>}),
           Sets("sync_mode", {<<1>>, <<2>>}), Sets("rssi_scan", {<<1, 200, 3, 4>>}),
           Sets("dl_band", {<<9020000, 9280000, 3867, 3, 0>>}),
           Sets("radio", RadioValues)}
Getters ==
    {<<"get", f>> : f \in Fields \ {"app_token", "rx_mode", "qos", "sync_mode", "rssi_scan",
                                    "state", "tx_state", "rx_state"}}
    \cup {<<"get_state", F>> : F \in SUBSET {"state", "tx_state", "rx_state"} \ {{}}}

Keeping ==
    {<<"plain", op>> : op \in {"settings_store", "settings_delete",
                               "restore_defaults", "reset_mcu"}}

MCScenarios ==
    {[calls |-> Configs, events |-> {"reset"}, max |-> 3],
     [calls |-> Setters \cup Getters, events |-> {}, max |-> 2],
     [calls |-> Sets("mac_mode", {<<3>>}) \cup Sets("antenna", {<<2>>})
                  \cup {<<"get", "mac_mode">>, <<"get", "antenna">>} \cup Keeping
                  \cup {<<"irq_flags", {"RESET"}>>},
      events |-> {"reset"}, max |-> 3],
     [calls |-> {<<"irq_flags", {}>>, <<"irq_flags", {"RX_DONE"}>>,
                 <<"irq_flags", {"RESET", "RX_DONE"}>>},
      events |-> {"raise", "reset"}, max |-> 3],
     [calls |-> {<<"retrieve_message", n>> : n \in {4, ByteMod - 1, 2 * ByteMod}},
      events |-> {"arrive", "reset"}, max |-> 3],
     [calls |-> {<<"message_send", 256, 5>>, <<"message_send", 1, 128>>,
                 <<"message_send", 0, 5>>, <<"message_send", 257, 5>>, <<"ftp_uplink">>},
      events |-> {}, max |-> 3],
     [calls |-> {<<"packet_send", 1>>, <<"packet_send", 0>>, <<"packet_recv", 1>>,
                 <<"packet_recv", 2>>, <<"packet_send_timestamp", 0>>,
                 <<"packet_send_timestamp", 1>>, <<"tty_open", "default">>,
                 <<"tty_open", "other">>, <<"tty_close">>},
      events |-> {}, max |-> 3]}

\* An application that only opens and closes the device.
MCTtyScenarios ==
    {[calls |-> {<<"tty_open", "default">>, <<"tty_open", "other">>, <<"tty_close">>},
      events |-> {}, max |-> 3]}

MCErrorCodes == {-128, -113, -106, -1}

\* The radio's parameters, and the mode.
MCFlashFields == {"radio", "tx_power", "mac_mode"}

\* A message whose number of bytes just fits a byte, and one that is cut.
MCBodyLen == <<ByteMod - 5, ByteMod + 8>>
=============================================================================
