------------------------------- MODULE MCCrawl -------------------------------
(* Small jobs for TLC: a site of six URLs on two hosts, and a batch.       *)
EXTENDS Crawl

\* The seed s links to a and c, whose bodies are one; a to cc, a variant of c,
\* and back to s; c to d, as deep as a crawl follows, and d to b.
CONSTANTS s, a, b, c, cc, d, h1, h2

MCHostOf == [u \in Urls |-> IF u \in {s, a, c, cc} THEN h1 ELSE h2]
MCKeyOf == [u \in Urls |-> IF u = cc THEN c ELSE u]
MCLinks ==
  [u \in Urls |-> CASE u = s -> << a, c >>
                    [] u = a -> << cc, s >>
                    [] u \in {c, cc} -> << d >>
                    [] u = d -> << b >>
                    [] OTHER -> << >>]
MCBody == [u \in Urls |-> IF u \in {c, cc} THEN a ELSE u]
MCRobotsDelay == [h \in Hosts |-> IF h = h1 THEN 1 ELSE 0]

\* A run treats its workers alike.
MCWorkers == Permutations(Workers)

MCNoDelay == [h \in Hosts |-> 0]
MCOneHost == [u \in Urls |-> h1]
MCExact == [u \in Urls |-> u]
MCNoLinks == [u \in Urls |-> << >>]
MCSeed == << s >>
MCTwoUrls == << a, b >>
MCOneMore == << c >>
MCNone == << >>
=============================================================================
