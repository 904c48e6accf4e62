--------------------------- MODULE MCClientServer ---------------------------
(* One name goes over the wire as a quoted string and one as a literal, and *)
(* so do scripts and what a SASL exchange carries, either way. One script   *)
(* fits the limits, the other is too long for the client, and for a command *)
(* of the server that names the longer name too. A server with TLS and one  *)
(* without that takes passwords in the clear, and clients that would and    *)
(* would not.                                                               *)
EXTENDS ClientServer

MCNames == {"n", "long"}
MCContents == {"text", "big"}
MCUnquotable == {"long", "text", "big", "value", "challenge", "response"}
MCTexts == MCNames \cup MCContents \cup {"", "mixed"} \cup Keywords
MCLength == [s \in MCTexts |-> CASE s = "" -> 0
                                [] s \in {"long", "text"} -> 2
                                [] s = "big" -> 3
                                [] OTHER -> 1]

Setting(describes, tls, clientInsecure, serverInsecure) ==
    [describes |-> describes, tls |-> tls,
     clientInsecure |-> clientInsecure, serverInsecure |-> serverInsecure]
MCSettings == {Setting(TRUE, TRUE, FALSE, FALSE), Setting(FALSE, TRUE, TRUE, FALSE),
               Setting(FALSE, FALSE, TRUE, TRUE)}

(* Before authentication there are fewer operations, so one more is         *)
(* followed: a STARTTLS the client took for refused, and what it sends next.*)
MCMaxLate == [notAuthenticated |-> 2, authenticated |-> 1, logout |-> 1]
=============================================================================
