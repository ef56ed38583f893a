---------------------------- MODULE MCConnection ----------------------------
(* Clients for Connection: each command and request form, with good and    *)
(* bad credentials, in order and out of it, and with data sent ahead.      *)
EXTENDS Connection

None     == Greeting({"none"})
UserPass == Greeting({"userpass"})
Both     == Greeting({"none", "userpass"})

MCScripts ==
  { <<None, Request("connect"), Data(1), Data(2)>>,
    <<UserPass, Credentials(TRUE), Request("connect"), Data(1)>>,
    <<Both, Credentials(FALSE), Request("connect"), Data(1)>>,
    <<Both, Request("connect"), Data(1)>>,
    <<Both, Credentials(TRUE), Request("udp")>>,
    <<None, Request("bind"), Data(1)>>,
    <<None, Request("badTarget")>>,
    <<None, Data(1)>>,
    <<Request("connect"), Data(1)>>,
    <<UserPass, None>>,
    <<None, None, Data(1)>>,
    <<HTTPRequest("connect"), Data(1), Data(2)>>,
    <<HTTPRequest("absolute"), HTTPRequest("absolute")>>,
    <<HTTPRequest("origin")>>,
    <<Data(1), Data(2)>> }
=============================================================================
