SPECIFICATION MCSpec
CONSTANTS
    in1 = in1
    o1 = o1
    o2 = o2
    o3 = o3
    e1 = e1
    e2 = e2
    low = low
    high = high
    Absent = Absent
    MaxRefused = 0
    Files = {low}
    Inputs <- OneInput
    Outputs <- ThreeOutputs
    StatusId <- StatusIds
    Encoders <- TwoEncoders
    Documents <- MCDocuments
PROPERTY EnableStartsOutput
CONSTRAINT Explored
