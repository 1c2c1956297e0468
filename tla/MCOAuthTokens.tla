---------------------------- MODULE MCOAuthTokens ----------------------------
\* OAuthTokens for model checking: the requests are alike.
EXTENDS OAuthTokens, TLC

MCSymmetry == Permutations(Requests)
==============================================================================
