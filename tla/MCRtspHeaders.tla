---------------------------- MODULE MCRtspHeaders ----------------------------
(* Replies for model checking RtspHeaders: every kind of line alone, and the *)
(* lines that can disturb one another together.                              *)
EXTENDS RtspHeaders

\* 5 is MaxInt, 6 does not fit an int.
MCDecimal == [d \in {"0", "1", "2", "3", "4", "5", "6"} |-> CHOOSE n \in 0 .. 6 : ToString(n) = d]

Line(key, val) == [key |-> key, val |-> <<" ">> \o val]

\* Transports: every beginning with every field.
Heads  == {<<"RTP", "/", "AVP">>, <<"RTP", "/", "AVP", "/", "TCP">>,
           <<"RTP", "/", "AVP", "/", "UDP">>, <<"RAW", "/", "RAW">>, <<"RTP">>}
Field(name, text) == <<";", name, "=">> \o text
Fields == {<<>>, <<";">>, <<";", "multicast">>, Field("port", <<"4">>),
           Field("client_port", <<"1", "-", "2">>), Field("client_port", <<"-", "5">>),
           Field("interleaved", <<"0", "-", "1">>), Field("server_port", <<"-">>),
           Field("client_port", <<"5", "-", "6">>), Field("ttl", <<"6">>),
           Field("ttl", <<"3">>), Field("ttl", <<>>), Field("mode", <<"record">>)}

One   == <<"RTP", "/", "AVP", "/", "TCP", ";", "multicast">> \o Field("interleaved", <<"0", "-", "1">>)
Other == <<"RTP", "/", "AVP", ";", "multicast">> \o Field("client_port", <<"4", "-", "5">>)

\* Several transports in one header, by line ends and by a comma.
Joined == {One \o <<"\r\n">> \o Other, Other \o <<"\r\n">> \o One \o <<"\r\n">>,
           Other \o <<"\r\n">> \o One \o <<"\r\n">> \o One, One \o <<",">> \o Other}

Transports == {h \o f : h \in Heads, f \in Fields} \cup Joined

RangeLines == {<<"npt=">> \o r : r \in {<<"0", "-">>, <<"1", "-", "3">>, <<"now", "-">>,
                 <<"now", "-", "2">>, <<"-", "2">>, <<" ", "4", "-", " ", "5">>, <<>>, <<"-">>, <<"x">>,
                 <<"0", "-", "6">>, <<"0", "-", ";", "time=", "1">>}}
              \cup {<<"clock=", "1">>}

Others ==
    {Line("Session", s) : s \in {<<"id">>, <<"id", ";", "timeout=", "3">>,
                                 <<"id", ";", "timeout=", "6">>, <<"id", ";", "timeout=">>, <<"id", ";", "timeout=", "x">>}}
    \cup {Line("CSeq", <<"1">>), Line("Content-Length", <<"x">>), Line("Content-Length", <<"6">>), Line("Notice", <<"2">>),
          Line("Public", <<"GET_PARAMETER">>), Line("Content-Base", <<"uri">>),
          Line("Cache-Control", <<>>), Line("Server", <<"name">>)}

TransportLines == {Line("Transport", t) : t \in Transports}

MCMessages ==
    {<<l>> : l \in TransportLines \cup Others \cup {Line("Range", r) : r \in RangeLines}}
    \cup {<<Line("Transport", One), Line("Transport", t)>> : t \in Joined \cup {Other}}
    \cup {<<Line("Range", <<"npt=", "1", "-", "3">>), Line("Range", <<"npt=", "0", "-">>)>>}
===============================================================================
