--------------------------- MODULE MCAssessment ---------------------------
(* Small instances of Assessment for TLC. *)
EXTENDS Assessment

Honest == [webdriver |-> FALSE, agent |-> "browser", clientAgent |-> "browser",
           secure |-> TRUE, crypto |-> TRUE, wasm |-> TRUE, cores |-> 8, screen |-> 1,
           languages |-> "some", acceptLanguage |-> TRUE, platform |-> "Win32",
           hint |-> "Windows", dwell |-> 2000, pointer |-> 10, keys |-> 0, rate |-> 1]

Default == [limit |-> 60, thresholds |-> [pow |-> 30, interactive |-> 62, block |-> 92]]
Tight == [limit |-> 3, thresholds |-> [pow |-> 9, interactive |-> 13, block |-> 100]]
Extreme == [limit |-> 1, thresholds |-> [pow |-> 1, interactive |-> 2, block |-> 3]]

NoAnswers == [abuseipdb |-> [confidence |-> 0, hosting |-> FALSE],
              ipqs |-> [fraud |-> 0, proxy |-> FALSE, vpn |-> FALSE, tor |-> FALSE, hosting |-> FALSE],
              maxmind |-> {}]

\* Every rule at and beside its boundary, with the others.
SignalInputs ==
    {[Honest EXCEPT !.webdriver = w, !.agent = a[1], !.clientAgent = a[2], !.secure = s[1], !.crypto = s[1],
                    !.wasm = s[2], !.cores = c, !.screen = d, !.languages = l, !.hint = h,
                    !.dwell = b[1], !.pointer = b[2], !.keys = b[3], !.rate = r] :
        w \in BOOLEAN, s \in {<<TRUE, TRUE>>, <<FALSE, TRUE>>, <<TRUE, FALSE>>},
        a \in {<<"browser", "browser">>, <<"browser", "phantomjs">>, <<"", "browser">>, <<"wget/", "">>},
        c \in {-1, 256, 257}, d \in {-1, 0},
        l \in {"null", "empty", "some"},
        h \in {"Windows", "macOS", "Chrome OS", ""},
        b \in {<<1500, 0, 0>>, <<1501, 0, 0>>, <<1501, 0, 1>>, <<999, 5001, 0>>, <<1000, 5001, 0>>},
        r \in {1, 30, 31}}

VendorAnswers ==
    {[abuseipdb |-> a, ipqs |-> i, maxmind |-> m] :
        a \in {[confidence |-> n, hosting |-> n > 50] : n \in {0, 80, 100}},
        i \in {[fraud |-> n, proxy |-> f, vpn |-> f, tor |-> f, hosting |-> f] :
                  n \in {0, 60, 100}, f \in BOOLEAN},
        m \in {{}, {"vpn"}, {"tor", "hosting"}, MaxMindFlags}}

\* Signals without a reputation service, and vendors with an honest browser or a tool.
MCCases ==
    {[in |-> i, answers |-> NoAnswers, site |-> t, lookup |-> FALSE] :
        i \in SignalInputs, t \in {Default, Tight, Extreme}}
    \cup {[in |-> i, answers |-> a, site |-> Default, lookup |-> TRUE] :
             i \in {Honest, [Honest EXCEPT !.agent = "curl/"]}, a \in VendorAnswers}

=============================================================================
