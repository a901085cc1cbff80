------------------------------ MODULE MCDelivery ------------------------------
EXTENDS Delivery
SameMessage(id) == "text"
=============================================================================
