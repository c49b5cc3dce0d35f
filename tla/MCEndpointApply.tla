--------------------------- MODULE MCEndpointApply ---------------------------
EXTENDS EndpointApply

CONSTANTS alice, bob, c1

TwoUsers == {alice, bob}
OneUser == {alice}
MCCerts == {c1}
Conf(certs, oks) == [users : SUBSET Users, cert : certs, ok : oks]
AnyConfig == Conf(MCCerts \cup {Nothing}, BOOLEAN)
WithCert == Conf(MCCerts, BOOLEAN)
=============================================================================
