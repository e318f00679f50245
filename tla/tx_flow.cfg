SPECIFICATION TSpec
CONSTANTS
    Size = 4
    Limit = 3
    Budget = 2
    MaxPackets = 9
INVARIANTS InfoIntact
PROPERTIES QueueWoken ImplementsChannel
