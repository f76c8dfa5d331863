------------------------------ MODULE MCAttrLink ------------------------------
EXTENDS AttrLink, TLC

MCTypes == {"class", "label", "point"}
MCImmTypes == {"class", "point"}
MCPubTypes == {"point"}

MCSymmetry == Permutations(Ids)

=============================================================================
