------------------------------- MODULE MCWire -------------------------------
EXTENDS Wire

Method(request, response, known) ==
    [requestStream |-> request, responseStream |-> response, registered |-> known]
Plain == Method(FALSE, FALSE, TRUE)
Missing == Method(FALSE, FALSE, FALSE)
Chat == Method(TRUE, TRUE, TRUE)
Upload == Method(TRUE, FALSE, TRUE)

AllKinds == {Plain, Missing, Chat}
PlainOrChat == {Plain, Chat}
Uploads == {Upload}
\* 5 is over MaxPayloadSize, 7 over the read limit as well.
OneMessage == {<<1>>, <<5>>}
AnySizes == {<<1>>, <<5>>, <<7>>, <<1, 1, 1>>, <<5, 1>>, <<1, 5>>, <<1, 5, 1>>}
Longer == {<<1, 1>>, <<1, 5, 1>>}
=============================================================================
