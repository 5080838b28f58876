----------------------------- MODULE MCHandshake -----------------------------
EXTENDS Handshake

Up(family)   == [family |-> family, up |-> TRUE]
Down(family) == [family |-> family, up |-> FALSE]

MCEndpointLists == {<<>>, <<Up("v4")>>, <<Down("v6"), Up("v4")>>, <<Down("v4"), Up("v4")>>}

MCVersions == {<<0, 9>>, <<0, 8>>, <<8, 9>>}

MCMechanismLists == {<<"AMQPLAIN">>, <<"PLAIN", "AMQPLAIN">>, <<"AMQPLAIN", "PLAIN">>}

=============================================================================
