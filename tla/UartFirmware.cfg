\* A firmware that receives, one that echoes, one that idles until an interrupt.
SPECIFICATION FFairSpec
CONSTANTS
    MaxRx = 5
    MaxReset = 0
INVARIANTS NoDuplicate EchoLossBound
PROPERTIES InOrderDelivery TransmitEnds ArrivalNoticed
