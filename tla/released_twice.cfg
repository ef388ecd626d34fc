\* One operator, no harness: receipts are seeded, released, seeded again.
SPECIFICATION Spec
CONSTANTS
    Operator = {o1}
    Harness = {}
    Seeder = {s1}
    Amounts = {1}
    RowAmount = 1
    Allocated = 2
    AutoRef = AutoRef
    MayCrash = FALSE
    Outside = {}
    MaxReceived = 1
    MaxPaid = 2
INVARIANTS
    ReceiptsSentOnce
